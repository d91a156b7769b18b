------------------------------ MODULE MCVault -------------------------------
(* Vault.tla for TLC: two entries, a handful of requests, one crash.       *)
EXTENDS Vault, TLC

(* Nothing in Vault tells one entry from another, and its safety properties *)
(* do not either.                                                           *)
Symmetry == Permutations(Entry)
=============================================================================
