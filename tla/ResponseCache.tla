--------------------------- MODULE ResponseCache ---------------------------
(***************************************************************************)
(* The server cache in front of the read routes: jsonWithServerCache       *)
(* (interfaces/http/cache/server-cache.ts), the version counters and the   *)
(* entries it keeps in Redis, and invalidateServerCache, which a write     *)
(* calls once its change is committed (infrastructure/redis/               *)
(* server-cache.ts).                                                       *)
(*                                                                         *)
(* One cached route is followed, chosen at the start among Read; the       *)
(* writes that happen are any of Write.  What a response contains is kept  *)
(* as the revision it was computed from: the number of committed changes   *)
(* to something this route shows.  The counters of the route's domains,    *)
(* read together by one MGET, only grow, so their sum tells one reading    *)
(* from another and stands for them all.                                   *)
(***************************************************************************)
EXTENDS Naturals, FiniteSets

CONSTANTS
  Read,      \* the cached routes: [name, domains, varies, scoped, shows]
  Write,     \* the changes: [name, invalidates, changes]
  Silent,    \* <<write, read>> names: pairs known to announce nothing
  Scope,     \* whose rows a caller may see: a user's own, or an admin's all
  Request,   \* requests to the route, one after another
  Writer     \* the writes of a behaviour, each made once

\* Cardinalities are numbers, and somebody asks.
ASSUME RouteAssumption ==
  /\ \A r \in Read : IsFiniteSet(r.domains)
  /\ Scope # {}

VARIABLES read,      \* the route
          revision,  \* committed changes to what it shows
          version,   \* Redis: the version counters of its domains, summed
          responses,     \* Redis: the cached responses of the route
          requests,
          writers,
          settled    \* the newest change whose write has returned, its invalidation done

cacheVars == <<read, revision, version, responses, requests, writers, settled>>

All == "all"          \* the vary part of a key that has none
Nothing == [rev |-> 0, for |-> "nothing"]

Value == [rev : Nat, for : Scope \union {All, "nothing"}]
Entry == [version : Nat, vary : Scope \union {All}, value : Value]
RequestState ==
  [step : {"idle", "get", "compute", "store", "direct", "answered"},
   scope : Scope, version : Nat, value : Value, owed : Nat]
WriterState ==
  [step : {"idle", "committed", "returned", "broken"},
   left : Nat, owes : BOOLEAN, rev : Nat]

Waiting == [step |-> "idle", scope |-> CHOOSE s \in Scope : TRUE,
            version |-> 0, value |-> Nothing, owed |-> 0]

-----------------------------------------------------------------------------
(* A request                                                               *)

\* Mutant: the key leaves the caller out.
Vary_Shared(s) == All
Vary(s) == IF read.varies THEN s ELSE All

\* The response of this moment: a scoped route filters by who asks.
Computed(s) == [rev |-> revision, for |-> IF read.scoped THEN s ELSE All]

Cached(q) ==
  {e \in responses : /\ e.version = requests[q].version
                 /\ e.vary = Vary(requests[q].scope)}

Idle(q) == requests[q].step \in {"idle", "answered"}

\* The versions of the route's domains, by one MGET; without them, no cache.
GetVersions(q, s) ==
  /\ Idle(q)
  /\ \E next \in {"get", "direct"} :
       requests' = [requests EXCEPT ![q] =
         [step |-> next, scope |-> s, version |-> version,
          value |-> Nothing, owed |-> settled]]
  /\ UNCHANGED <<read, revision, version, responses, writers, settled>>

Move(q, step, value) ==
  /\ requests' = [requests EXCEPT ![q].step = step, ![q].value = value]
  /\ UNCHANGED <<read, revision, version, writers, settled>>

Answer(q, value) ==
  /\ requests' = [requests EXCEPT ![q].step = "answered",
                   ![q].value = value, ![q].version = 0]
  /\ UNCHANGED <<read, revision, version, writers, settled>>

ReadHit(q) ==
  /\ requests[q].step = "get"
  /\ \E e \in Cached(q) : Answer(q, e.value)
  /\ UNCHANGED responses

ReadMiss(q) ==
  /\ requests[q].step = "get"
  /\ Cached(q) = {}
  /\ Move(q, "compute", Nothing)
  /\ UNCHANGED responses

Compute(q) ==
  /\ requests[q].step = "compute"
  /\ Move(q, "store", Computed(requests[q].scope))
  /\ UNCHANGED responses

\* What the computation throws is answered as it is, and nothing is stored.
ComputeFails(q) ==
  /\ requests[q].step = "compute"
  /\ requests' = [requests EXCEPT ![q] = Waiting]
  /\ UNCHANGED <<read, revision, version, responses, writers, settled>>

\* An entry under versions that no request holds and none can read again is
\* forgotten: nothing tells whether it is still there.
Reachable(entries, now) ==
  {e \in entries :
    \/ e.version = now
    \/ \E q \in Request : ~Idle(q) /\ requests[q].version = e.version}

Store(q) ==
  /\ requests[q].step = "store"
  /\ responses' = (responses \ Cached(q)) \union
              {[version |-> requests[q].version,
                vary |-> Vary(requests[q].scope), value |-> requests[q].value]}
  /\ Answer(q, requests[q].value)

\* Redis fails at the GET or the SET: the response is computed directly, in
\* the second case once more.
Bypass(q) ==
  /\ requests[q].step \in {"get", "store"}
  /\ Move(q, "direct", Nothing)
  /\ UNCHANGED responses

Direct(q) ==
  /\ requests[q].step = "direct"
  /\ Answer(q, Computed(requests[q].scope))
  /\ UNCHANGED responses

-----------------------------------------------------------------------------
(* A write                                                                 *)

\* What a write does to a route: whether it changes what the route shows,
\* how many of its domains it announces, whether it has to announce any.
Concerns(op, r) == op.changes \intersect r.shows # {}
Announced(op, r) == op.invalidates \intersect r.domains
EffectOf(op, r) ==
  [concerns |-> Concerns(op, r),
   increments |-> Cardinality(Announced(op, r)),
   owes |-> Concerns(op, r) /\ <<op.name, r.name>> \notin Silent]

Effects == [r \in Read |-> {EffectOf(op, r) : op \in Write}]

\* The change is committed; its domains are still to be announced.
Commit(w, effect) ==
  /\ writers[w].step = "idle"
  /\ effect.concerns \/ effect.increments > 0
  /\ revision' = IF effect.concerns THEN revision + 1 ELSE revision
  /\ writers' = [writers EXCEPT ![w] =
       [step |-> "committed", left |-> effect.increments,
        owes |-> effect.owes, rev |-> revision']]
  /\ UNCHANGED <<read, version, responses, requests, settled>>

\* One of the INCRs of invalidateServerCache arrives, in any order.
Increment(w) ==
  /\ writers[w].step = "committed"
  /\ writers[w].left > 0
  /\ version' = version + 1
  /\ responses' = Reachable(responses, version')
  /\ writers' = [writers EXCEPT ![w].left = @ - 1]
  /\ UNCHANGED <<read, revision, requests, settled>>

\* The invalidation is done and the write answered.
Return(w) ==
  /\ writers[w].step = "committed"
  /\ writers[w].left = 0
  /\ writers' = [writers EXCEPT ![w].step = "returned"]
  /\ settled' = IF writers[w].owes /\ writers[w].rev > settled
                THEN writers[w].rev ELSE settled
  /\ UNCHANGED <<read, revision, version, responses, requests>>

\* An INCR fails, which is only logged; or the process stops, or a step of the
\* write that follows the commit throws, before the invalidation.
Break(w) ==
  /\ writers[w].step = "committed"
  /\ writers[w].left > 0
  /\ writers' = [writers EXCEPT ![w].step = "broken"]
  /\ UNCHANGED <<read, revision, version, responses, requests, settled>>

\* Every entry is stored with a time to live.
ExpireResponse(e) ==
  /\ responses' = responses \ {e}
  /\ UNCHANGED <<read, revision, version, requests, writers, settled>>

-----------------------------------------------------------------------------
CacheInit ==
  /\ read \in Read
  /\ revision = 0
  /\ version = 0
  /\ responses = {}
  /\ requests = [q \in Request |-> Waiting]
  /\ writers = [w \in Writer |-> [step |-> "idle", left |-> 0,
                     owes |-> FALSE, rev |-> 0]]
  /\ settled = 0

Progress(q) ==
  \/ ReadHit(q) \/ ReadMiss(q) \/ Compute(q) \/ ComputeFails(q)
  \/ Store(q) \/ Bypass(q) \/ Direct(q)

CacheNext ==
  \/ \E q \in Request : \E s \in Scope : GetVersions(q, s)
  \/ \E q \in Request : Progress(q)
  \/ \E w \in Writer : \E effect \in Effects[read] : Commit(w, effect)
  \/ \E w \in Writer : Increment(w) \/ Return(w) \/ Break(w)
  \/ \E e \in responses : ExpireResponse(e)

CacheSpec == CacheInit /\ [][CacheNext]_cacheVars

-----------------------------------------------------------------------------
(* Properties                                                              *)

CacheTypeOK ==
  /\ read \in Read
  /\ revision \in Nat
  /\ version \in Nat
  /\ responses \subseteq Entry
  /\ requests \in [Request -> RequestState]
  /\ writers \in [Writer -> WriterState]
  /\ settled \in Nat

Answered(q) == requests[q].step = "answered"

\* Read your writes: a response holds every change whose write had returned
\* when the request began, unless that invalidation failed or the pair of
\* routes is known to announce nothing.
SeesSettledWrites ==
  \A q \in Request : Answered(q) => requests[q].value.rev >= requests[q].owed

\* Nobody is served a response computed for someone else's scope.
OwnScope ==
  \A q \in Request :
    Answered(q) /\ read.scoped => requests[q].value.for = requests[q].scope

=============================================================================
