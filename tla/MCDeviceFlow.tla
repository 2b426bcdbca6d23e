---------------------------- MODULE MCDeviceFlow ----------------------------
(* An instance of DeviceFlow for TLC: two invites to one document, a        *)
(* single-use one to edit, which the device carries, and a shared one to    *)
(* view that expires first; one user may edit already.                      *)
EXTENDS DeviceFlow, TLC

CONSTANTS h1, h2, alice, bob, editLink, viewLink, cli

MCLevel == (editLink :> 2) @@ (viewLink :> 1)
MCExpiresAt == (editLink :> 9) @@ (viewLink :> 2)
MCGranted == (alice :> 2) @@ (bob :> 0)
MCCarriedBy == [d \in Devices |-> editLink]
MCSymmetry == Permutations(Handlers)
=============================================================================
