-------------------------- MODULE MCSecureStorage --------------------------
(* The instances of SecureStorage that TLC checks.  Keys are all alike. *)
EXTENDS SecureStorage, TLC

KeySymmetry == Permutations(Keys)
============================================================================
