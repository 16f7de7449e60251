-------------------------- MODULE MCResponseCache --------------------------
(***************************************************************************)
(* The response cache with the routes of the program.  Every route is      *)
(* asked for and written to; for two of them, whose keys hold one domain   *)
(* and the caller, and two domains, a second request or a second write     *)
(* runs beside the first.                                                  *)
(***************************************************************************)
EXTENDS ResponseCache, CachedRoutes

CONSTANTS q1, q2, w1, w2

Crowded == {GetContents, GetPlaylist}

SecondRequest == requests[q2].step # "idle"
SecondWrite == writers[w2].step # "idle"

Manageable ==
  IF read \in Crowded THEN ~(SecondRequest /\ SecondWrite)
                      ELSE ~SecondRequest /\ ~SecondWrite

MCSpec == CacheInit /\ [][CacheNext /\ Manageable']_cacheVars

=============================================================================
