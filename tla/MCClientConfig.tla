--------------------------- MODULE MCClientConfig ---------------------------
(***************************************************************************)
(* A small instance of ClientConfig for TLC: two accounts, the Linphone    *)
(* account's name between theirs; requests and servers are each            *)
(* interchangeable.                                                        *)
(***************************************************************************)
EXTENDS ClientConfig, TLC

mcSymmetry == Permutations(Requests) \cup Permutations(Servers)
=============================================================================
