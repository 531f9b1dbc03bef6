----------------------------- MODULE MCRedisBus -----------------------------
(***************************************************************************)
(* Two instances, three events in two environments, two published on the   *)
(* first instance; a seen set of two, so that eviction happens; one outage *)
(* of Redis, one silence and one failed call at most.                      *)
(***************************************************************************)
EXTENDS RedisBus, TLC

CONSTANTS i1, i2, e1, e2, e3, dev, prod

MCOrigin == e1 :> i1 @@ e2 :> i1 @@ e3 :> i2
MCEnvOf == e1 :> dev @@ e2 :> prod @@ e3 :> dev
=============================================================================
