----------------------------- MODULE MC_BanList -----------------------------
(* An instance of BanList; IPs are interchangeable.                        *)
EXTENDS BanList, TLC
Symmetry == Permutations(IP)
=============================================================================
