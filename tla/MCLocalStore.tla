---------------------------- MODULE MCLocalStore ----------------------------
(* LocalStore for TLC: the ids of profiles are interchangeable. *)
EXTENDS LocalStore, TLC

MCSymmetry == Permutations(Profiles)
=============================================================================
