---------------------------- MODULE MCTokenCache ----------------------------
(* An instance of TokenCache for TLC: a user's token from before the cutoff *)
(* whose secret happens to spell the id of an agent's row, that row's own   *)
(* token, of the new shape but without a digest, and one yet to be minted.  *)
EXTENDS TokenCache, TLC

CONSTANTS loop, h1, h2, old, new, fresh, k1, k2, k3, user, agent

MCOpens == (old :> k1) @@ (new :> k2) @@ (fresh :> k3)
MCEmbeds == (old :> k2) @@ (new :> k2) @@ (fresh :> k3)
MCOwner == (k1 :> user) @@ (k2 :> agent) @@ (k3 :> agent)
MCSymmetry == Permutations(Handlers)

\* Of when an entry was used only the order counts.
MCView ==
    <<dbVars, {[e EXCEPT !.used = 0] : e \in entries},
      {<<e.key, f.key>> : <<e, f>> \in {pair \in entries \X entries : pair[1].used < pair[2].used}},
      seq, clearedAt, evictedAt, now, pc, job, calls, evicted>>
=============================================================================
