---------------------------- MODULE AuthSessions ----------------------------
(***************************************************************************)
(* One login session: its row (id, current and previous refresh-token      *)
(* hash), the copy of the row that CachedAuthSessionRepository keeps in    *)
(* Redis, and the requests about it: refresh with rotation, server-side    *)
(* refresh without, logout, a new login that retires the old cookie, and   *)
(* a password change that revokes every session of the user.               *)
(*                                                                         *)
(* A login starts a family of its own, so a family is this one row.  A     *)
(* refresh token is named by the request that minted it.  Every await ends *)
(* a step.  The user is active throughout: the account is checked against  *)
(* the database on every refresh and cannot be served from the cache.      *)
(***************************************************************************)
EXTENDS Integers, FiniteSets

CONSTANTS Requests,
          First,       \* the refresh token of the login
          None,        \* no token, no row
          Kinds,       \* kinds of request that come
          SessionTtl,  \* SESSION_TTL_SECONDS
          NullTtl,     \* NULL_TTL_SECONDS
          Grace,       \* AUTH_REFRESH_GRACE_SECONDS
          Patience,    \* bound: how long a request may take
          MaxOverlap,  \* bound: requests in progress at once
          MaxTime,     \* bound: length of a behaviour
          Faults,      \* "redis" (a command fails), "api" (a request dies)
          MaxFaults    \* bound: how many failures in a behaviour

ASSUME SessionsAssumption ==
  /\ First \notin Requests
  /\ None \notin Requests \cup {First}
  /\ Kinds \subseteq {"refresh", "skip", "logout", "login", "password"}
  /\ SessionTtl \in Nat /\ NullTtl \in Nat /\ Grace \in Nat /\ Patience \in Nat
  /\ MaxOverlap \in Nat /\ MaxTime \in Nat /\ MaxFaults \in Nat
  /\ Faults \subseteq {"redis", "api"}

VARIABLES row,           \* the session row, or None once it is deleted
          live,          \* expiresAt is in the future
          cache,         \* the Redis key: what it holds and until when
          known,         \* refresh tokens that clients were given
          pc,            \* what each request does next
          kind,          \* what each request is
          token,         \* the refresh token it presents
          got,           \* the session as it last found it
          second,        \* requests that look the session up again
          at,            \* issuedAt, the time a refresh goes by
          parent,        \* the token each minted token replaced
          started,       \* when each request came
          servedAt,      \* when it was given an access token
          supersededAt,  \* when each token was replaced in the row
          revokedAt,     \* when the row was deleted
          now,
          faults

request == <<kind, token, got, second, at>>
history == <<servedAt, supersededAt, revokedAt>>
vars == <<row, live, cache, known, pc, request, parent, started, history, now, faults>>

Token == Requests \cup {First}

Session == [cur : Token, prev : Token \cup {None}, prevUntil : Int]

ASSUME NoneIsNoSession == None \notin Session

\* For the bound on the requests in progress: how many there are is a number.
ASSUME FinitelyMany == IsFiniteSet(Requests)

RequestStep == {"idle", "get", "read", "fill", "decide", "cas", "reread", "recache",
                "uncache", "serve", "revokeFamily", "revokeById", "forget", "revokeAll",
                "served", "refused", "done", "dead"}
Closed == {"idle", "served", "refused", "done", "dead"}

TypeOK ==
  /\ row \in Session \cup {None}
  /\ live \in BOOLEAN
  /\ cache \in [value : Session \cup {None}, until : Int]
  /\ known \subseteq Token
  /\ pc \in [Requests -> RequestStep]
  /\ kind \in [Requests -> Kinds \cup {None}]
  /\ token \in [Requests -> Token \cup {None}]
  /\ got \in [Requests -> Session \cup {None}]
  /\ second \subseteq Requests
  /\ at \in [Requests -> Int]
  /\ parent \in [Token -> Token \cup {None}]
  /\ started \in [Requests -> Int]
  /\ servedAt \in [Requests -> Int]
  /\ supersededAt \in [Token -> Int]
  /\ revokedAt \in Int
  /\ now \in 0..MaxTime
  /\ faults \in 0..MaxFaults

Gone == [value |-> None, until |-> 0]

Init ==
  /\ row = [cur |-> First, prev |-> None, prevUntil |-> 0]
  /\ live = TRUE
  /\ cache = Gone
  /\ known = {First}
  /\ pc = [r \in Requests |-> "idle"]
  /\ kind = [r \in Requests |-> None]
  /\ token = [r \in Requests |-> None]
  /\ got = [r \in Requests |-> None]
  /\ second = {}
  /\ at = [r \in Requests |-> 0]
  /\ parent = [t \in Token |-> None]
  /\ started = [r \in Requests |-> 0]
  /\ servedAt = [r \in Requests |-> 0]
  /\ supersededAt = [t \in Token |-> 0]
  /\ revokedAt = 0
  /\ now = 0
  /\ faults = 0

Fault(f) ==
  /\ f \in Faults
  /\ faults < MaxFaults
  /\ faults' = faults + 1

Go(r, s) == pc' = [pc EXCEPT ![r] = s]
Open == {r \in Requests : pc[r] \notin Closed}

\* A request with a refresh cookie that some client was given.
Begin(r) ==
  /\ pc[r] = "idle"
  /\ Cardinality(Open) < MaxOverlap
  /\ \E k \in Kinds, t \in known :
       /\ kind' = [kind EXCEPT ![r] = k]
       /\ token' = [token EXCEPT ![r] = t]
       /\ \/ k = "login" /\ Go(r, "revokeById")
          \/ k = "password" /\ Go(r, "revokeAll")
          \/ k \in {"refresh", "skip", "logout"} /\ Go(r, "get")
  /\ started' = [started EXCEPT ![r] = now]
  /\ UNCHANGED <<row, live, cache, known, got, second, at, parent, history, now, faults>>

(***************************************************************************)
(* CachedAuthSessionRepository.findBySessionId: GET, or read the database  *)
(* and SET what was read; Redis errors are ignored.                        *)
(***************************************************************************)

\* Where a request goes on once its lookup has returned s.  A refresh that lost
\* the race for the row looks only for a previous token within grace.
AfterFind(r, s) ==
  \/ s = None /\ Go(r, IF kind[r] = "logout" THEN "done" ELSE "refused")
  \/ s # None /\ r \notin second /\ Go(r, "decide")
  \/ /\ s # None /\ r \in second
     /\ s.prev = token[r] /\ at[r] < s.prevUntil
     /\ Go(r, "serve")
  \/ /\ s # None /\ r \in second
     /\ ~(s.prev = token[r] /\ at[r] < s.prevUntil)
     /\ Go(r, "refused")

Get(r) ==
  /\ pc[r] = "get"
  /\ \/ /\ now < cache.until
        /\ got' = [got EXCEPT ![r] = cache.value]
        /\ AfterFind(r, cache.value)
        /\ UNCHANGED faults
     \/ now >= cache.until /\ Go(r, "read") /\ UNCHANGED <<got, faults>>
     \/ Fault("redis") /\ Go(r, "read") /\ UNCHANGED got
  /\ UNCHANGED <<row, live, cache, known, kind, token, second, at, parent, started,
                 history, now>>

\* Rows past their expiry are not found.
Read(r) ==
  /\ pc[r] = "read"
  /\ got' = [got EXCEPT ![r] = IF live THEN row ELSE None]
  /\ Go(r, "fill")
  /\ UNCHANGED <<row, live, cache, known, kind, token, second, at, parent, started,
                 history, now, faults>>

Fill_NoExpiry(r) ==
  /\ pc[r] = "fill"
  /\ cache' = [value |-> got[r], until |-> MaxTime + 1]
  /\ AfterFind(r, got[r])
  /\ UNCHANGED <<row, live, known, request, parent, started, history, now, faults>>

Fill(r) ==
  /\ pc[r] = "fill"
  /\ \/ /\ cache' = [value |-> got[r],
                     until |-> now + IF got[r] = None THEN NullTtl ELSE SessionTtl]
        /\ UNCHANGED faults
     \/ Fault("redis") /\ UNCHANGED cache
  /\ AfterFind(r, got[r])
  /\ UNCHANGED <<row, live, known, request, parent, started, history, now>>

(***************************************************************************)
(* Refresh and logout compare the presented token with what they found.    *)
(***************************************************************************)

Matches(r) == token[r] = got[r].cur
InGrace_Forever(r) == token[r] = got[r].prev
InGrace(r) == token[r] = got[r].prev /\ now < got[r].prevUntil

Decide(r) ==
  /\ pc[r] = "decide"
  /\ at' = [at EXCEPT ![r] = now]
  /\ \/ kind[r] = "refresh" /\ Matches(r) /\ Go(r, "cas")
     \/ kind[r] = "refresh" /\ ~Matches(r) /\ InGrace(r) /\ Go(r, "serve")
     \/ kind[r] = "refresh" /\ ~Matches(r) /\ ~InGrace(r) /\ Go(r, "revokeFamily")
     \/ kind[r] = "skip" /\ (Matches(r) \/ InGrace(r)) /\ Go(r, "serve")
     \/ kind[r] = "skip" /\ ~Matches(r) /\ ~InGrace(r) /\ Go(r, "refused")
     \/ kind[r] = "logout" /\ (Matches(r) \/ InGrace(r)) /\ Go(r, "revokeById")
     \/ kind[r] = "logout" /\ ~Matches(r) /\ ~InGrace(r) /\ Go(r, "revokeFamily")
  /\ UNCHANGED <<row, live, cache, known, kind, token, got, second, parent, started,
                 history, now, faults>>

(***************************************************************************)
(* updateCurrentJtiOptimistic: UPDATE ... WHERE current_jti = presented.   *)
(***************************************************************************)

Rotate(r) ==
  /\ row' = [cur |-> r, prev |-> token[r], prevUntil |-> at[r] + Grace]
  /\ live' = TRUE
  /\ parent' = [parent EXCEPT ![r] = token[r]]
  /\ supersededAt' = [supersededAt EXCEPT ![token[r]] = now]
  /\ Go(r, "reread")

Cas_Unchecked(r) ==
  /\ pc[r] = "cas"
  /\ \/ row # None /\ Rotate(r)
     \/ row = None /\ Go(r, "uncache") /\ UNCHANGED <<row, live, parent, supersededAt>>
  /\ UNCHANGED <<cache, known, request, started, servedAt, revokedAt, now, faults>>

Cas(r) ==
  /\ pc[r] = "cas"
  /\ \/ row # None /\ row.cur = token[r] /\ Rotate(r)
     \/ /\ ~(row # None /\ row.cur = token[r])
        /\ Go(r, "uncache")
        /\ UNCHANGED <<row, live, parent, supersededAt>>
  /\ UNCHANGED <<cache, known, request, started, servedAt, revokedAt, now, faults>>

\* cacheSession: the row is read again, but only its presence counts; what is
\* cached is what this request wrote.
Reread(r) ==
  /\ pc[r] = "reread"
  /\ \/ row # None /\ live /\ Go(r, "recache") /\ UNCHANGED <<cache, faults>>
     \/ ~(row # None /\ live) /\ cache' = Gone /\ Go(r, "serve") /\ UNCHANGED faults
     \/ ~(row # None /\ live) /\ Fault("redis") /\ Go(r, "serve") /\ UNCHANGED cache
  /\ UNCHANGED <<row, live, known, request, parent, started, history, now>>

Recache_Skipped(r) ==
  /\ pc[r] = "recache"
  /\ Go(r, "serve")
  /\ UNCHANGED <<row, live, cache, known, request, parent, started, history, now, faults>>

\* A failed SET is followed by a DEL, which may fail too.
Recache(r) ==
  /\ pc[r] = "recache"
  /\ \/ /\ cache' = [value |-> [cur |-> r, prev |-> token[r], prevUntil |-> at[r] + Grace],
                     until |-> now + SessionTtl]
        /\ UNCHANGED faults
     \/ Fault("redis") /\ cache' \in {cache, Gone}
  /\ Go(r, "serve")
  /\ UNCHANGED <<row, live, known, request, parent, started, history, now>>

Uncache(r) ==
  /\ pc[r] = "uncache"
  /\ \/ cache' = Gone /\ UNCHANGED faults
     \/ Fault("redis") /\ UNCHANGED cache
  /\ second' = second \cup {r}
  /\ Go(r, "get")
  /\ UNCHANGED <<row, live, known, kind, token, got, at, parent, started, history, now>>


\* The access token goes out, and the new refresh token if there is one.
Serve(r) ==
  /\ pc[r] = "serve"
  /\ servedAt' = [servedAt EXCEPT ![r] = now]
  /\ known' = known \cup (IF parent[r] # None THEN {r} ELSE {})
  /\ Go(r, "served")
  /\ UNCHANGED <<row, live, cache, request, parent, started, supersededAt, revokedAt,
                 now, faults>>

(***************************************************************************)
(* Revocations.  Only the one by id deletes the cached copy.               *)
(***************************************************************************)

DeleteRow ==
  /\ row' = None
  /\ revokedAt' = IF row = None THEN revokedAt ELSE now

\* The token does not match: a replay, as far as the request can see.
RevokeFamily(r) ==
  /\ pc[r] = "revokeFamily"
  /\ DeleteRow
  /\ Go(r, IF kind[r] = "logout" THEN "done" ELSE "refused")
  /\ UNCHANGED <<live, cache, known, request, parent, started, servedAt, supersededAt,
                 now, faults>>

RevokeById(r) ==
  /\ pc[r] = "revokeById"
  /\ DeleteRow
  /\ Go(r, "forget")
  /\ UNCHANGED <<live, cache, known, request, parent, started, servedAt, supersededAt,
                 now, faults>>

Forget(r) ==
  /\ pc[r] = "forget"
  /\ \/ cache' = Gone /\ UNCHANGED faults
     \/ Fault("redis") /\ UNCHANGED cache
  /\ Go(r, "done")
  /\ UNCHANGED <<row, live, known, request, parent, started, history, now>>

RevokeAll(r) ==
  /\ pc[r] = "revokeAll"
  /\ DeleteRow
  /\ Go(r, "done")
  /\ UNCHANGED <<live, cache, known, request, parent, started, servedAt, supersededAt,
                 now, faults>>

\* The request dies with its process, or its answer is lost.
Die(r) ==
  /\ pc[r] \notin Closed
  /\ Fault("api")
  /\ Go(r, "dead")
  /\ UNCHANGED <<row, live, cache, known, request, parent, started, history, now>>

Expire ==
  /\ live
  /\ live' = FALSE
  /\ UNCHANGED <<row, cache, known, pc, request, parent, started, history, now, faults>>

Tick ==
  /\ now < MaxTime
  /\ \A r \in Open : now < started[r] + Patience
  /\ now' = now + 1
  /\ UNCHANGED <<row, live, cache, known, pc, request, parent, started, history, faults>>

Step(r) ==
  \/ Begin(r) \/ Get(r) \/ Read(r) \/ Fill(r) \/ Decide(r)
  \/ Cas(r) \/ Reread(r) \/ Recache(r) \/ Uncache(r) \/ Serve(r)
  \/ RevokeFamily(r) \/ RevokeById(r) \/ Forget(r) \/ RevokeAll(r) \/ Die(r)

Next == (\E r \in Requests : Step(r)) \/ Expire \/ Tick

Spec == Init /\ [][Next]_vars

(***************************************************************************)
(* Properties.                                                             *)
(***************************************************************************)

\* A refresh token is exchanged for a new one at most once, however many requests
\* present it at the same time and whatever the cache says.
NoFork ==
  \A x, y \in Requests : parent[x] = parent[y] /\ parent[x] # None => x = y

\* A revoked session may be served from the cache, but no longer than the lifetime
\* of a cached row after the requests that were open at the revocation, or found
\* that row, are over.
RevokedServedBriefly ==
  \A r \in Requests :
    pc[r] = "served" /\ row = None => servedAt[r] <= revokedAt + SessionTtl + 2 * Patience

\* A refresh token that was replaced is good for the grace window, or for as long
\* as a cached row may still name it as the current one.
Longest(a, b) == IF a < b THEN b ELSE a
ReplacedServedBriefly ==
  \A r, x \in Requests :
    pc[r] = "served" /\ x # r /\ parent[x] = token[r]
      => servedAt[r] <= supersededAt[token[r]] + Longest(Grace, SessionTtl + Patience) + Patience

\* What the cache still says of a session that was revoked or rotated is believed for
\* a bounded time only.
StaleServedBriefly == RevokedServedBriefly /\ ReplacedServedBriefly

\* No refresh is about to revoke, as a replay, the token that the session's row
\* names as current: the client that holds it would lose its session.
CurrentTokenIsNoReplay ==
  \A r \in Requests :
    pc[r] = "revokeFamily" /\ kind[r] = "refresh" /\ row # None => row.cur # token[r]
=============================================================================
