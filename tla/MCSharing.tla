----------------------------- MODULE MCSharing ------------------------------
(* An instance of Sharing for TLC: a document of alice's, bob, who signs up  *)
(* on the way, an agent of each, two invites for bob's address, one to view  *)
(* and one to edit, and a link for anybody.                                  *)
EXTENDS Sharing, TLC

CONSTANTS h1, h2, alice, bob, bot, aide, mailView, mailEdit, link

MCAgentOf == (bot :> bob) @@ (aide :> alice)
MCFor == (mailView :> bob) @@ (mailEdit :> bob) @@ (link :> Nobody)
MCLevel == (mailView :> 1) @@ (mailEdit :> 2) @@ (link :> 1)
MCExpiresAt == [i \in Invites |-> 9]
MCGranted == [u \in Users |-> 0]
MCSymmetry == Permutations(Handlers)

\* No step reads who consumed an invite, or the answer of a call that is over.
MCView ==
    <<uses, created, revoked, grants, now, pc, job, calls, overlapped, docVars, history,
      [t \in Handlers |-> IF pc[t] = "idle" THEN NoReq ELSE req[t]]>>
=============================================================================
