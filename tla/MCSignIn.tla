------------------------------ MODULE MCSignIn ------------------------------
(* An instance of SignIn for TLC: two links to a new address, and a member.  *)
EXTENDS SignIn, TLC

CONSTANTS h1, h2, alice, bob, alice1, alice2

MCEmailOf == (alice1 :> alice) @@ (alice2 :> alice)
MCSymmetry == Permutations(Handlers) \cup Permutations(Links)
=============================================================================
