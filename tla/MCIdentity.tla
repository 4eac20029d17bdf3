----------------------------- MODULE MCIdentity -----------------------------
(***************************************************************************)
(* Up to four calls: registers that race for an address, and logins, with  *)
(* two addresses and two passwords.                                        *)
(***************************************************************************)
EXTENDS IdentityInvariant, TLC

MCSymmetry == Permutations(Calls) \cup Permutations(Emails) \cup Permutations(Passwords)
=============================================================================
