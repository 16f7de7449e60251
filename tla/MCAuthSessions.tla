--------------------------- MODULE MCAuthSessions ---------------------------
(* An instance of AuthSessions for TLC, with two scenarios. *)
EXTENDS AuthSessions, TLC

CONSTANTS q1, q2, q3

RequestSymmetry == Permutations(Requests)

VARIABLE scenario

\* Within MaxTime - 1, requests of every kind one after another, one of which may die;
\* or refreshes, one of which may not rotate, and a password change two at a time, a
\* Redis command failing. What these two at a time do to a revoked session, and what
\* refreshes alone do without a fault, goes on until MaxTime.
Long == row = None \/ (faults = 0 /\ \A r \in Requests : kind[r] \in {"refresh", None})
Within ==
  LET dead == {r \in Requests : pc[r] = "dead"}
  IN  IF scenario = "serial"
      THEN Cardinality(Open) <= 1 /\ faults = Cardinality(dead) /\ now < MaxTime - 1
      ELSE /\ now < MaxTime - 1 \/ Long
           /\ dead = {} /\ \A r \in Requests : started[r] < MaxTime
           /\ \A r \in Requests : kind[r] \notin {"login", "logout"}
           /\ \A k \in {"password", "skip"} : Cardinality({r \in Requests : kind[r] = k}) <= 1

MCInit == Init /\ scenario \in {"serial", "race"}
MCNext == Next /\ UNCHANGED scenario /\ Within'
MCSpec == MCInit /\ [][MCNext]_<<vars, scenario>>

\* One request at a time: no refresh is about to revoke, as a replay, the token that the
\* session's row names as current (RefreshSessionUseCase, with the row it was served
\* from the cache).
SerialTokenIsNoReplay == scenario = "serial" => CurrentTokenIsNoReplay
=============================================================================
