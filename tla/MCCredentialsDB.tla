-------------------------- MODULE MCCredentialsDB --------------------------
(* CredentialsDB on small instances: passwords are interchangeable.        *)
EXTENDS CredentialsDB, TLC

PasswordSymmetry == Permutations(Passwords)
============================================================================
