------------------------------ MODULE CacheProofs ------------------------------
(***************************************************************************)
(* Theorems about the two caches in front of MySQL: what users may do      *)
(* (Permissions) and what the read routes answer (ResponseCache), which    *)
(* share Redis and none of its keys.                                       *)
(*                                                                         *)
(* Permissions, for any users, roles, permissions and predefined roles,    *)
(* any number of requests at once and of failures: nobody becomes          *)
(* administrator because the roles somebody is about to be given were      *)
(* looked at and grant no more by the time they are given, since only a    *)
(* start could change that, and it ends every request (HoldInv, BootInv).  *)
(* That an entry is behind for a reason is inductive given the types.      *)
(*                                                                         *)
(* ResponseCache: a request sees every change announced before it, for any *)
(* routes of which none but the silent pairs forgets to announce; and      *)
(* nobody is served another caller's response, for any routes whose key    *)
(* holds what they filter by.                                              *)
(***************************************************************************)
EXTENDS Permissions, ResponseCache, FiniteSetTheorems, TLAPS

-----------------------------------------------------------------------------
(* Permissions: what requests hold                                         *)

Steps == {"idle", "done", "look", "fill", "grant", "list", "vet", "hold", "announce"}

TaskState == [user : Users \cup {None}, key : Keys \cup {None},
              kind : {None, "check", "signin", "refresh", "assign"},
              value : SUBSET Permissions, got : SUBSET Permissions,
              role : Roles \cup {None}, chosen : SUBSET (Roles \cup Permissions),
              left : SUBSET (Users \X {"authorization", "identity"})]

\* What a request holds when its next step is s.
Fits(s, t) ==
  /\ s \in {"look", "fill"} => t.user \in Users /\ t.key \in Keys
  /\ s \in {"vet", "hold"} => t.user \in Users /\ t.kind = "assign"
  /\ s \in {"look", "fill", "vet", "hold"} /\ t.kind = "assign" => t.chosen \subseteq Roles
  /\ s = "grant" => t.role \in Roles /\ t.chosen \subseteq Permissions \ {AdminPermission}
  /\ s = "list" => t.role \in Roles

\* What TypeOK leaves open: the entries, the steps and what the requests hold.
TypeInv ==
  /\ TypeOK
  /\ cache \in [Users -> [Keys -> (SUBSET Permissions) \cup {None}]]
  /\ step \in [Requests -> Steps] /\ task \in [Requests -> TaskState]
  /\ \A p \in Requests : Fits(step[p], task[p])
  /\ boot \in {"up", "admin", "purge", "templates"}

\* A start goes on alone.
BootInv == ~Up => \A p \in Requests : step[p] \in {"idle", "done"}

\* What was vetted still does not make an administrator.
HoldInv ==
  \A p \in Requests : step[p] = "hold" =>
    \A r \in task[p].chosen : AdminPermission \notin grants[r]

IInv == TypeInv /\ BootInv /\ HoldInv

-----------------------------------------------------------------------------
(* Types                                                                   *)

\* A request that holds nothing fits where it rests.
LEMMA BlankType ==
  /\ Blank \in TaskState
  /\ Fits("done", Blank) /\ Fits("idle", Blank) /\ Fits("announce", Blank)
<1> QED
  BY DEF Blank, TaskState, Fits

\* A request goes on with what fits its next step, and the others stay.
LEMMA GoType ==
  ASSUME TypeInv, NEW p \in Requests, NEW s \in Steps, NEW t \in TaskState, Fits(s, t),
         Go(p, s, t)
  PROVE  /\ step' \in [Requests -> Steps] /\ task' \in [Requests -> TaskState]
         /\ \A q \in Requests : Fits(step'[q], task'[q])
         /\ step'[p] = s /\ task'[p] = t
         /\ \A q \in Requests \ {p} : step'[q] = step[q] /\ task'[q] = task[q]
<1> QED
  BY DEF Go, TypeInv

\* What the tables say is a set of permissions.
LEMMA TruthType ==
  ASSUME TypeInv, NEW u \in Users, NEW k \in Keys
  PROVE  Truth(u, k) \in SUBSET Permissions
<1>1. Rights(u) \subseteq Permissions
  BY DEF Rights, TypeInv, TypeOK
<1> QED
  BY <1>1 DEF Truth, Keys

\* An entry is absent or a set of permissions.
LEMMA EntryType ==
  ASSUME cache \in [Users -> [Keys -> (SUBSET Permissions) \cup {None}]],
         NEW u \in Users, NEW k \in Keys
  PROVE  cache[u][k] = None \/ cache[u][k] \in SUBSET Permissions
<1>1. cache[u] \in [Keys -> (SUBSET Permissions) \cup {None}]
  OBVIOUS
<1>2. cache[u][k] \in (SUBSET Permissions) \cup {None}
  BY <1>1
<1> QED
  BY <1>2

\* So it is after a step.
LEMMA EntryTypeNext ==
  ASSUME cache' \in [Users -> [Keys -> (SUBSET Permissions) \cup {None}]]
  PROVE  \A u \in Users, k \in Keys : cache'[u][k] = None \/ cache'[u][k] \subseteq Permissions
<1> TAKE u \in Users, k \in Keys
<1>1. cache'[u] \in [Keys -> (SUBSET Permissions) \cup {None}]
  OBVIOUS
<1>2. cache'[u][k] \in (SUBSET Permissions) \cup {None}
  BY <1>1
<1> QED
  BY <1>2

\* An answer is taken: the request rests, looks on, remembers it, or is vetted.
LEMMA TakeType ==
  ASSUME TypeInv, NEW p \in Requests, step[p] \in {"look", "fill"},
         NEW value \in SUBSET Permissions, Take(p, task[p].key, value)
  PROVE  /\ step' \in [Requests -> Steps] /\ task' \in [Requests -> TaskState]
         /\ \A q \in Requests : Fits(step'[q], task'[q])
         /\ step'[p] \in {"done", "vet", "look", "fill"}
         /\ \A q \in Requests \ {p} : step'[q] = step[q] /\ task'[q] = task[q]
<1> DEFINE t == task[p]
<1>1. t \in TaskState /\ Fits(step[p], t) /\ t.user \in Users /\ t.key \in Keys
  BY DEF TypeInv, Fits
<1>2. CASE Rest(p)
  BY <1>2, GoType, BlankType DEF Rest, Steps
<1>3. CASE t.kind = "assign" /\ Go(p, "vet", [t EXCEPT !.key = None, !.value = {}])
  <2>1. /\ [t EXCEPT !.key = None, !.value = {}] \in TaskState
        /\ Fits("vet", [t EXCEPT !.key = None, !.value = {}])
    BY <1>1, <1>3 DEF TaskState, Fits
  <2> QED
    BY <1>3, <2>1, GoType DEF Steps
<1>4. CASE Go(p, "look", [t EXCEPT !.key = "perms", !.got = value, !.value = {}])
  <2>1. /\ [t EXCEPT !.key = "perms", !.got = value, !.value = {}] \in TaskState
        /\ Fits("look", [t EXCEPT !.key = "perms", !.got = value, !.value = {}])
    BY <1>1 DEF TaskState, Fits, Keys
  <2> QED
    BY <1>4, <2>1, GoType DEF Steps
<1>5. CASE Go(p, "fill", [t EXCEPT !.key = "identity", !.value = t.got \cup value])
  <2>1. t.got \cup value \in SUBSET Permissions
    BY <1>1 DEF TaskState
  <2>2. /\ [t EXCEPT !.key = "identity", !.value = t.got \cup value] \in TaskState
        /\ Fits("fill", [t EXCEPT !.key = "identity", !.value = t.got \cup value])
    BY <1>1, <2>1 DEF TaskState, Fits, Keys
  <2> QED
    BY <1>5, <2>2, GoType DEF Steps
<1> QED
  BY <1>2, <1>3, <1>4, <1>5 DEF Take

\* A request that begins.
LEMMA AskType ==
  ASSUME TypeInv, NEW p \in Requests, Ask(p)
  PROVE  TypeInv' /\ step[p] = "idle" /\ Up
         /\ step'[p] \in {"look", "grant", "done"}
         /\ \A q \in Requests \ {p} : step'[q] = step[q] /\ task'[q] = task[q]
<1>1. ASSUME NEW u \in Users, NEW kind \in {"check", "signin", "refresh"}, BeginRead(p, u, kind)
      PROVE  TypeInv' /\ step[p] = "idle" /\ Up /\ step'[p] = "look"
             /\ \A q \in Requests \ {p} : step'[q] = step[q] /\ task'[q] = task[q]
  <2> DEFINE t == [Blank EXCEPT !.user = u, !.kind = kind,
                     !.key = IF kind = "refresh" THEN "identity" ELSE "admin"]
  <2>1. t \in TaskState /\ Fits("look", t)
    BY BlankType DEF TaskState, Fits, Keys, Blank
  <2>2. Go(p, "look", t)
    BY <1>1 DEF BeginRead
  <2> HIDE DEF t
  <2> QED
    BY <1>1, <2>1, <2>2, GoType DEF BeginRead, Begin, Steps, tables, TypeInv, TypeOK
<1>2. ASSUME NEW u \in Users, NEW chosen \in SUBSET Roles, BeginSetUserRoles(p, u, chosen)
      PROVE  TypeInv' /\ step[p] = "idle" /\ Up /\ step'[p] = "look"
             /\ \A q \in Requests \ {p} : step'[q] = step[q] /\ task'[q] = task[q]
  <2> DEFINE t == [Blank EXCEPT !.user = u, !.kind = "assign", !.key = "admin",
                                !.chosen = chosen]
  <2>1. t \in TaskState /\ Fits("look", t)
    BY BlankType DEF TaskState, Fits, Keys, Blank
  <2>2. Go(p, "look", t)
    BY <1>2 DEF BeginSetUserRoles
  <2> HIDE DEF t
  <2> QED
    BY <1>2, <2>1, <2>2, GoType DEF BeginSetUserRoles, Begin, Steps, tables, TypeInv, TypeOK
<1>3. ASSUME NEW r \in Roles, NEW chosen \in SUBSET Permissions,
             BeginSetRolePermissions(p, r, chosen)
      PROVE  TypeInv' /\ step[p] = "idle" /\ Up /\ step'[p] = "grant"
             /\ \A q \in Requests \ {p} : step'[q] = step[q] /\ task'[q] = task[q]
  <2> DEFINE t == [Blank EXCEPT !.role = r, !.chosen = chosen]
  <2>1. t \in TaskState /\ Fits("grant", t)
    BY <1>3, BlankType DEF TaskState, Fits, Blank, BeginSetRolePermissions
  <2>2. Go(p, "grant", t)
    BY <1>3 DEF BeginSetRolePermissions
  <2> HIDE DEF t
  <2> QED
    BY <1>3, <2>1, <2>2, GoType
    DEF BeginSetRolePermissions, Begin, Steps, tables, TypeInv, TypeOK
<1>4. ASSUME NEW r \in Roles, DeleteRole(p, r) \/ CreateRole(p, r)
      PROVE  TypeInv' /\ step[p] = "idle" /\ Up /\ step'[p] = "done"
             /\ \A q \in Requests \ {p} : step'[q] = step[q] /\ task'[q] = task[q]
  <2>1. Rest(p) /\ Begin(p) /\ UNCHANGED <<cache, boot>>
    BY <1>4 DEF DeleteRole, CreateRole
  <2>2. /\ step' \in [Requests -> Steps] /\ task' \in [Requests -> TaskState]
        /\ \A q \in Requests : Fits(step'[q], task'[q])
        /\ step'[p] = "done"
        /\ \A q \in Requests \ {p} : step'[q] = step[q] /\ task'[q] = task[q]
    BY <2>1, GoType, BlankType DEF Rest, Steps
  <2>3. CASE DeleteRole(p, r)
    <3>1. live' \subseteq Roles /\ Admin \in live' /\ live' = live \ {r} /\ r # Admin
      BY <2>3 DEF DeleteRole, TypeInv, TypeOK
    <3>2. /\ grants' \in [Roles -> SUBSET Permissions]
          /\ grants'[r] = {} /\ \A x \in Roles \ {r} : grants'[x] = grants[x]
      BY <2>3 DEF DeleteRole, TypeInv, TypeOK
    <3>3. holders' \in [Users -> SUBSET live']
      BY <2>3, <3>1 DEF DeleteRole, TypeInv, TypeOK
    <3>4. excused' \subseteq Users \X Keys
      BY <2>3 DEF DeleteRole, TypeInv, TypeOK
    <3>5. TypeOK'
      BY <2>1, <3>1, <3>2, <3>3, <3>4 DEF TypeInv, TypeOK
    <3> QED
      BY <2>1, <2>2, <3>5 DEF TypeInv, Begin
  <2>4. CASE CreateRole(p, r)
    BY <2>1, <2>2, <2>4 DEF CreateRole, TypeInv, TypeOK, Begin
  <2> QED
    BY <1>4, <2>3, <2>4
<1> QED
  BY <1>1, <1>2, <1>3, <1>4 DEF Ask

\* A request that looks up and remembers an answer.
LEMMA LookType ==
  ASSUME TypeInv, NEW p \in Requests, Hit(p) \/ Miss(p) \/ Fill(p)
  PROVE  TypeInv' /\ step[p] \in {"look", "fill"}
         /\ step'[p] \in {"look", "fill", "vet", "done"}
         /\ \A q \in Requests \ {p} : step'[q] = step[q] /\ task'[q] = task[q]
<1> DEFINE t == task[p]
<1>1. t \in TaskState /\ Fits(step[p], t)
  BY DEF TypeInv
<1>2. CASE Hit(p)
  <2>1. step[p] = "look" /\ t.user \in Users /\ t.key \in Keys
    BY <1>1, <1>2 DEF Hit, Fits
  <2>2. cache[t.user][t.key] \in SUBSET Permissions
    <3>1. cache[t.user][t.key] # None
      BY <1>2 DEF Hit
    <3> QED
      BY <2>1, <3>1, EntryType DEF TypeInv
  <2>3. Take(p, t.key, cache[t.user][t.key])
    BY <1>2 DEF Hit
  <2> QED
    BY <1>2, <2>1, <2>2, <2>3, TakeType DEF Hit, tables, TypeInv, TypeOK
<1>3. CASE Miss(p)
  <2>1. step[p] = "look" /\ t.user \in Users /\ t.key \in Keys
    BY <1>1, <1>3 DEF Miss, Fits
  <2>2. CASE t.key = "identity"
    <3>1. /\ [t EXCEPT !.key = "admin"] \in TaskState
          /\ Fits("look", [t EXCEPT !.key = "admin"])
      BY <1>1, <2>1 DEF TaskState, Fits, Keys
    <3>2. Go(p, "look", [t EXCEPT !.key = "admin"])
      BY <1>3, <2>2 DEF Miss
    <3> QED
      BY <1>3, <2>1, <3>1, <3>2, GoType DEF Miss, tables, Steps, TypeInv, TypeOK
  <2>3. CASE t.key # "identity"
    <3>1. Truth(t.user, t.key) \in SUBSET Permissions
      BY <2>1, TruthType
    <3>2. /\ [t EXCEPT !.value = Truth(t.user, t.key)] \in TaskState
          /\ Fits("fill", [t EXCEPT !.value = Truth(t.user, t.key)])
      BY <1>1, <2>1, <3>1 DEF TaskState, Fits
    <3>3. Go(p, "fill", [t EXCEPT !.value = Truth(t.user, t.key)])
      BY <1>3, <2>3 DEF Miss
    <3> QED
      BY <1>3, <2>1, <3>2, <3>3, GoType DEF Miss, tables, Steps, TypeInv, TypeOK
  <2> QED
    BY <2>2, <2>3
<1>4. CASE Fill(p)
  <2>1. step[p] = "fill" /\ t.user \in Users /\ t.key \in Keys
    BY <1>1, <1>4 DEF Fill, Fits
  <2>2. t.value \in SUBSET Permissions
    BY <1>1 DEF TaskState
  <2>3. cache' \in [Users -> [Keys -> (SUBSET Permissions) \cup {None}]]
    BY <1>4, <2>1, <2>2 DEF Fill, TypeInv
  <2>4. excused' \subseteq Users \X Keys
    BY <1>4, <2>1 DEF Fill, TypeInv, TypeOK
  <2>5. TypeOK'
    <3>1. \A u \in Users, k \in Keys : cache'[u][k] = None \/ cache'[u][k] \subseteq Permissions
      BY <2>3, EntryTypeNext
    <3> QED
      BY <1>4, <2>4, <3>1 DEF Fill, tables, TypeInv, TypeOK
  <2>6. Take(p, t.key, t.value)
    BY <1>4 DEF Fill
  <2> QED
    BY <1>4, <2>1, <2>2, <2>3, <2>5, <2>6, TakeType DEF Fill, TypeInv
<1> QED
  BY <1>2, <1>3, <1>4

\* A request that changes the tables and announces it.
LEMMA ChangeType ==
  ASSUME TypeInv, NEW p \in Requests,
         \/ Grant(p) \/ ListHolders(p) \/ Vet(p) \/ Hold(p) \/ Announce(p) \/ EndAnnounce(p)
  PROVE  TypeInv' /\ step[p] \in {"grant", "list", "vet", "hold", "announce"}
         /\ \A q \in Requests \ {p} : step'[q] = step[q] /\ task'[q] = task[q]
<1> DEFINE t == task[p]
<1>1. t \in TaskState /\ Fits(step[p], t)
  BY DEF TypeInv
<1>2. CASE Grant(p)
  <2>1. step[p] = "grant" /\ t.role \in Roles /\ t.chosen \subseteq Permissions \ {AdminPermission}
    BY <1>1, <1>2 DEF Grant, Fits
  <2>2. CASE t.role \in live
    <3>1. [Blank EXCEPT !.role = t.role] \in TaskState /\ Fits("list", [Blank EXCEPT !.role = t.role])
      BY <2>1, BlankType DEF Blank, TaskState, Fits
    <3>2. Go(p, "list", [Blank EXCEPT !.role = t.role])
      BY <1>2, <2>2 DEF Grant
    <3>3. /\ grants' \in [Roles -> SUBSET Permissions]
          /\ grants'[t.role] = t.chosen
          /\ \A x \in Roles \ {t.role} : grants'[x] = grants[x]
      BY <1>2, <2>1, <2>2 DEF Grant, TypeInv, TypeOK
    <3>4. TypeOK'
      BY <1>2, <2>1, <2>2, <3>3 DEF Grant, TypeInv, TypeOK
    <3> QED
      BY <1>2, <2>1, <3>1, <3>2, <3>4, GoType DEF Grant, Steps, TypeInv
  <2>3. CASE t.role \notin live
    <3>1. Rest(p) /\ UNCHANGED grants
      BY <1>2, <2>3 DEF Grant
    <3> QED
      BY <1>2, <2>1, <3>1, GoType, BlankType DEF Grant, Rest, Steps, TypeInv, TypeOK
  <2> QED
    BY <2>2, <2>3
<1>3. CASE ListHolders(p)
  <2> DEFINE n == [Blank EXCEPT !.left = {u \in Users : t.role \in holders[u]} \X {"authorization"}]
  <2>1. n \in TaskState /\ Fits("announce", n)
    BY BlankType DEF Blank, TaskState, Fits
  <2>2. Go(p, "announce", n)
    BY <1>3 DEF ListHolders
  <2> HIDE DEF n
  <2> QED
    BY <1>3, <2>1, <2>2, GoType DEF ListHolders, tables, Steps, TypeInv, TypeOK
<1>4. CASE Vet(p)
  <2>1. Fits("hold", t)
    BY <1>1, <1>4 DEF Vet, Fits
  <2>2. Rest(p) \/ Go(p, "hold", t)
    BY <1>4 DEF Vet
  <2> QED
    BY <1>1, <1>4, <2>1, <2>2, GoType, BlankType DEF Vet, Rest, tables, Steps, TypeInv, TypeOK
<1>5. CASE Hold(p)
  <2>1. step[p] = "hold" /\ t.user \in Users
    BY <1>1, <1>5 DEF Hold, Fits
  <2>2. CASE t.chosen \subseteq live
    <3> DEFINE n == [Blank EXCEPT !.left = {<<t.user, "authorization">>}]
    <3>1. n \in TaskState /\ Fits("announce", n)
      BY <2>1, BlankType DEF Blank, TaskState, Fits
    <3>2. Go(p, "announce", n) /\ holders' = [holders EXCEPT ![t.user] = t.chosen]
      BY <1>5, <2>2 DEF Hold
    <3>3. holders' \in [Users -> SUBSET live]
      BY <2>1, <2>2, <3>2 DEF TypeInv, TypeOK
    <3> HIDE DEF n
    <3> QED
      BY <1>5, <2>1, <3>1, <3>2, <3>3, GoType DEF Hold, Steps, TypeInv, TypeOK
  <2>3. CASE ~(t.chosen \subseteq live)
    <3>1. Rest(p) /\ UNCHANGED holders
      BY <1>5, <2>3 DEF Hold
    <3> QED
      BY <1>5, <2>1, <3>1, GoType, BlankType DEF Hold, Rest, Steps, TypeInv, TypeOK
  <2> QED
    BY <2>2, <2>3
<1>6. CASE Announce(p)
  <2>1. PICK x \in t.left :
          LET u == x[1]
              gone == {u} \X Cleared(x[2])
              next == IF x[2] = "authorization" THEN {<<u, "identity">>} ELSE {}
          IN  /\ task' = [task EXCEPT ![p].left = (@ \ {x}) \cup next]
              /\ \/ /\ cache' = [cache EXCEPT ![u] = [k \in Keys |->
                         IF k \in Cleared(x[2]) THEN None ELSE cache[u][k]]]
                    /\ excused' = excused \ gone
                 \/ /\ excused' = excused \cup gone
                    /\ UNCHANGED cache
    BY <1>6 DEF Announce
  <2>2. x[1] \in Users /\ x[2] \in {"authorization", "identity"}
    BY <1>1 DEF TaskState
  <2> DEFINE u == x[1]
             next == IF x[2] = "authorization" THEN {<<u, "identity">>} ELSE {}
             left == (t.left \ {x}) \cup next
  <2>3. left \in SUBSET (Users \X {"authorization", "identity"})
    BY <1>1, <2>2 DEF TaskState
  <2>4. task' = [task EXCEPT ![p] = [t EXCEPT !.left = left]]
    BY <2>1
  <2> HIDE DEF left
  <2>5. step[p] = "announce" /\ UNCHANGED <<tables, step, boot>>
    BY <1>6 DEF Announce
  <2>6. [t EXCEPT !.left = left] \in TaskState /\ Fits("announce", [t EXCEPT !.left = left])
    BY <1>1, <2>3 DEF TaskState, Fits
  <2>7. /\ task' \in [Requests -> TaskState]
        /\ \A q \in Requests : Fits(step'[q], task'[q])
        /\ \A q \in Requests \ {p} : step'[q] = step[q] /\ task'[q] = task[q]
    BY <2>4, <2>5, <2>6 DEF TypeInv
  <2>8. cache' \in [Users -> [Keys -> (SUBSET Permissions) \cup {None}]]
    <3>1. [k \in Keys |-> IF k \in Cleared(x[2]) THEN None ELSE cache[u][k]]
            \in [Keys -> (SUBSET Permissions) \cup {None}]
      BY <2>2, EntryType DEF TypeInv
    <3> QED
      BY <2>1, <2>2, <3>1 DEF TypeInv
  <2>9. excused' \subseteq Users \X Keys
    <3>1. {x[1]} \X Cleared(x[2]) \subseteq Users \X Keys
      BY <2>2 DEF Cleared, Keys
    <3> QED
      BY <2>1, <3>1 DEF TypeInv, TypeOK
  <2>10. TypeOK'
    BY <2>5, <2>8, <2>9, EntryTypeNext DEF tables, TypeInv, TypeOK
  <2> QED
    BY <2>5, <2>7, <2>8, <2>10 DEF TypeInv
<1>7. CASE EndAnnounce(p)
  <2>1. step[p] = "announce" /\ Rest(p)
    BY <1>7 DEF EndAnnounce
  <2> QED
    BY <1>7, <2>1, GoType, BlankType DEF EndAnnounce, Rest, tables, Steps, TypeInv, TypeOK
<1> QED
  BY <1>2, <1>3, <1>4, <1>5, <1>6, <1>7

\* What a start puts in order, or the stop before it.
LEMMA BootType ==
  ASSUME TypeInv, Restart \/ Start
  PROVE  TypeInv'
<1>1. CASE Restart
  <2>1. /\ step' \in [Requests -> Steps] /\ task' \in [Requests -> TaskState]
        /\ \A q \in Requests : Fits(step'[q], task'[q])
    <3>1. \A q \in Requests : step'[q] \in {"done", "idle"} /\ task'[q] = Blank
      BY <1>1 DEF Restart, Busy, TypeInv
    <3>2. step' \in [Requests -> Steps] /\ task' \in [Requests -> TaskState]
      BY <1>1, BlankType DEF Restart, TypeInv, Steps
    <3> QED
      BY <3>1, <3>2, BlankType
  <2>2. \A p \in Requests : Owed(p) \subseteq Users \X Keys
    BY DEF Owed, Keys, TypeInv, TaskState
  <2>3. excused' \subseteq Users \X Keys
    BY <1>1, <2>2 DEF Restart, TypeInv, TypeOK
  <2> QED
    BY <1>1, <2>1, <2>3 DEF Restart, tables, TypeInv, TypeOK
<1>2. CASE SyncAdminRole
  <2>1. Reconcile(Admin, {AdminPermission})
    BY <1>2 DEF SyncAdminRole
  <2>2. /\ live' = live /\ grants' \in [Roles -> SUBSET Permissions]
        /\ \A r \in Roles \ {Admin} : grants'[r] = grants[r]
    BY <2>1, PermissionsAssumption DEF Reconcile, TypeInv, TypeOK
  <2>3. excused' \subseteq Users \X Keys
    BY <2>1 DEF Reconcile, TypeInv, TypeOK
  <2> QED
    BY <1>2, <2>2, <2>3 DEF SyncAdminRole, TypeInv, TypeOK
<1>3. CASE PurgeAdmins
  <2>1. holders' \in [Users -> SUBSET live]
    BY <1>3 DEF PurgeAdmins, TypeInv, TypeOK
  <2>2. excused' \subseteq Users \X Keys
    BY <1>3 DEF PurgeAdmins, TypeInv, TypeOK
  <2> QED
    BY <1>3, <2>1, <2>2 DEF PurgeAdmins, TypeInv, TypeOK
<1>4. CASE SyncTemplates
  <2>1. CASE Disordered = {}
    BY <1>4, <2>1 DEF SyncTemplates, TypeInv, TypeOK
  <2>2. ASSUME NEW r \in Disordered, Reconcile(r, Template[r]), UNCHANGED boot
        PROVE  TypeInv'
    <3>1. /\ r \in Roles \ {Admin}
          /\ Template[r] \subseteq Permissions /\ AdminPermission \notin Template[r]
      BY PermissionsAssumption DEF Disordered
    <3>2. /\ live' \subseteq Roles /\ Admin \in live' /\ live \subseteq live' /\ r \in live'
          /\ grants' \in [Roles -> SUBSET Permissions] /\ grants'[r] = Template[r]
          /\ \A x \in Roles \ {r} : grants'[x] = grants[x]
      BY <2>2, <3>1 DEF Reconcile, TypeInv, TypeOK
    <3>3. excused' \subseteq Users \X Keys
      BY <2>2 DEF Reconcile, TypeInv, TypeOK
    <3>4. UNCHANGED <<holders, cache, step, task>>
      BY <1>4 DEF SyncTemplates
    <3>5. holders' \in [Users -> SUBSET live']
      BY <3>2, <3>4 DEF TypeInv, TypeOK
    <3>6. TypeOK'
      BY <3>1, <3>2, <3>3, <3>4, <3>5 DEF TypeInv, TypeOK
    <3> QED
      BY <2>2, <3>4, <3>6 DEF TypeInv
  <2> QED
    BY <1>4, <2>1, <2>2 DEF SyncTemplates
<1> QED
  BY <1>1, <1>2, <1>3, <1>4 DEF Start

\* The time of an entry is over.
LEMMA ExpireType ==
  ASSUME TypeInv, NEW u \in Users, NEW k \in Keys, Expire(u, k)
  PROVE  TypeInv'
<1>1. cache' \in [Users -> [Keys -> (SUBSET Permissions) \cup {None}]]
  BY DEF Expire, TypeInv
<1> QED
  BY <1>1, EntryTypeNext DEF Expire, tables, TypeInv, TypeOK

\* The first state is well typed.
LEMMA InitType == Init => TypeInv
<1> SUFFICES ASSUME Init PROVE TypeInv
  OBVIOUS
<1>1. /\ live \subseteq Roles /\ Admin \in live
      /\ holders \in [Users -> SUBSET live]
  BY PermissionsAssumption DEF Init
<1>2. /\ grants \in [Roles -> SUBSET Permissions]
      /\ \A r \in Roles : grants[r] # {} => r \in live
      /\ \A r \in Roles \ {Admin} : AdminPermission \notin grants[r]
  BY PermissionsAssumption DEF Init
<1>3. /\ cache \in [Users -> [Keys -> (SUBSET Permissions) \cup {None}]]
      /\ \A u \in Users, k \in Keys : cache[u][k] = None
  BY DEF Init
<1>4. /\ step \in [Requests -> Steps] /\ task \in [Requests -> TaskState]
      /\ \A p \in Requests : Fits(step[p], task[p])
  BY BlankType DEF Init, Steps
<1> QED
  BY <1>1, <1>2, <1>3, <1>4 DEF Init, TypeInv, TypeOK

\* Every step keeps the types.
LEMMA StepType ==
  ASSUME TypeInv, [Next]_vars
  PROVE  TypeInv'
<1>1. CASE Next
  BY <1>1, AskType, LookType, ChangeType, BootType, ExpireType DEF Next, Serve
<1>2. CASE UNCHANGED vars
  BY <1>2 DEF vars, TypeInv, TypeOK
<1> QED
  BY <1>1, <1>2

\* Whatever is asked and whatever fails, the state keeps its types: only roles that
\* are there are held and grant anything, and only the Admin role grants the
\* administrator's permission (the transactions of RoleDbRepository).
THEOREM TypeCorrect == Spec => []TypeOK
<1>1. TypeInv => TypeOK
  BY DEF TypeInv
<1> QED
  BY <1>1, InitType, StepType, PTL DEF Spec

-----------------------------------------------------------------------------
(* Administrators                                                          *)

\* A start goes on alone: requests end with the process, and new ones wait.
LEMMA BootStep ==
  ASSUME IInv, [Next]_vars
  PROVE  BootInv'
<1>1. ASSUME NEW p \in Requests, Ask(p)
      PROVE  BootInv'
  <2>1. Up /\ UNCHANGED boot
    BY <1>1, AskType DEF IInv, Ask, BeginRead, BeginSetUserRoles, BeginSetRolePermissions,
       DeleteRole, CreateRole
  <2> QED
    BY <2>1 DEF BootInv, Up
<1>2. ASSUME NEW p \in Requests, Serve(p)
      PROVE  BootInv'
  <2>1. step[p] \notin {"idle", "done"}
    BY <1>2, LookType, ChangeType DEF IInv, Serve
  <2>2. UNCHANGED boot
    BY <1>2 DEF Serve, Hit, Miss, Fill, Grant, ListHolders, Vet, Hold, Announce, EndAnnounce
  <2> QED
    BY <2>1, <2>2 DEF IInv, BootInv, Up
<1>3. CASE Restart
  BY <1>3 DEF Restart, Busy, BootInv
<1>4. CASE Start
  <2>1. ~Up /\ UNCHANGED step
    BY <1>4 DEF Start, SyncAdminRole, PurgeAdmins, SyncTemplates, Up
  <2> QED
    BY <2>1 DEF IInv, BootInv
<1>5. CASE (\E u \in Users, k \in Keys : Expire(u, k)) \/ UNCHANGED vars
  BY <1>5 DEF Expire, vars, IInv, BootInv, Up
<1> QED
  BY <1>1, <1>2, <1>3, <1>4, <1>5 DEF Next

\* While a request is about to give roles to somebody, no role it gives comes to
\* grant the administrator's permission.
LEMMA HoldStep ==
  ASSUME IInv, [Next]_vars
  PROVE  HoldInv'
<1> USE DEF IInv
<1>0. \A q \in Requests : step[q] = "hold" => task[q].chosen \subseteq Roles
  BY DEF TypeInv, Fits
<1>1. ASSUME NEW p \in Requests, Ask(p)
      PROVE  HoldInv'
  <2>1. /\ step'[p] # "hold"
        /\ \A q \in Requests \ {p} : step'[q] = step[q] /\ task'[q] = task[q]
    BY <1>1, AskType
  <2>2. \A r \in Roles : grants'[r] \subseteq grants[r]
    <3>1. grants' = grants \/ \E r \in Roles : grants' = [grants EXCEPT ![r] = {}]
      BY <1>1 DEF Ask, BeginRead, BeginSetUserRoles, BeginSetRolePermissions, DeleteRole,
         CreateRole, tables
    <3> QED
      BY <3>1 DEF TypeInv, TypeOK
  <2> QED
    BY <1>0, <2>1, <2>2 DEF HoldInv
<1>2. ASSUME NEW p \in Requests, Hit(p) \/ Miss(p) \/ Fill(p)
      PROVE  HoldInv'
  <2>1. /\ step'[p] # "hold"
        /\ \A q \in Requests \ {p} : step'[q] = step[q] /\ task'[q] = task[q]
    BY <1>2, LookType
  <2>2. UNCHANGED grants
    BY <1>2 DEF Hit, Miss, Fill, tables
  <2> QED
    BY <2>1, <2>2 DEF HoldInv
<1>3. ASSUME NEW p \in Requests, Grant(p)
      PROVE  HoldInv'
  <2>1. /\ step'[p] \in {"list", "done"}
        /\ \A q \in Requests \ {p} : step'[q] = step[q] /\ task'[q] = task[q]
    BY <1>3, ChangeType DEF Grant, Go, Rest, TypeInv
  <2>2. task[p].role \in Roles /\ AdminPermission \notin task[p].chosen
    BY <1>3 DEF Grant, TypeInv, Fits
  <2>3. grants' = grants \/ grants' = [grants EXCEPT ![task[p].role] = task[p].chosen]
    BY <1>3 DEF Grant
  <2>4. \A r \in Roles : AdminPermission \notin grants[r] => AdminPermission \notin grants'[r]
    BY <2>2, <2>3 DEF TypeInv, TypeOK
  <2> QED
    BY <1>0, <2>1, <2>4 DEF HoldInv
<1>4. ASSUME NEW p \in Requests, Vet(p)
      PROVE  HoldInv'
  <2>1. /\ \A q \in Requests \ {p} : step'[q] = step[q] /\ task'[q] = task[q]
        /\ UNCHANGED grants
    BY <1>4, ChangeType DEF Vet, tables
  <2>2. step'[p] = "hold" =>
          task'[p] = task[p] /\ \A r \in task[p].chosen : AdminPermission \notin grants[r]
    BY <1>4 DEF Vet, Rest, Go, TypeInv
  <2> QED
    BY <2>1, <2>2 DEF HoldInv
<1>5. ASSUME NEW p \in Requests,
             ListHolders(p) \/ Hold(p) \/ Announce(p) \/ EndAnnounce(p)
      PROVE  HoldInv'
  <2>1. \A q \in Requests \ {p} : step'[q] = step[q] /\ task'[q] = task[q]
    BY <1>5, ChangeType
  <2>2. step'[p] # "hold"
    BY <1>5 DEF ListHolders, Hold, Announce, EndAnnounce, Rest, Go, TypeInv
  <2>3. UNCHANGED grants
    BY <1>5 DEF ListHolders, Hold, Announce, EndAnnounce, tables
  <2> QED
    BY <2>1, <2>2, <2>3 DEF HoldInv
<1>6. CASE Restart
  BY <1>6 DEF Restart, Busy, HoldInv
<1>7. CASE Start
  <2>1. ~Up /\ UNCHANGED step
    BY <1>7 DEF Start, SyncAdminRole, PurgeAdmins, SyncTemplates, Up
  <2> QED
    BY <2>1 DEF BootInv, HoldInv
<1>8. CASE (\E u \in Users, k \in Keys : Expire(u, k)) \/ UNCHANGED vars
  BY <1>8 DEF Expire, vars, tables, HoldInv
<1> QED
  BY <1>1, <1>2, <1>3, <1>4, <1>5, <1>6, <1>7, <1>8 DEF Next, Serve

\* The invariant holds at first and after every step.
LEMMA InvHolds == (Init => IInv) /\ (IInv /\ [Next]_vars => IInv')
<1>1. Init => IInv
  <2>1. Init => BootInv /\ HoldInv
    BY DEF Init, BootInv, HoldInv
  <2> QED
    BY <2>1, InitType DEF IInv
<1>2. IInv /\ [Next]_vars => IInv'
  <2>1. ASSUME IInv, [Next]_vars PROVE IInv'
    BY <2>1, StepType, BootStep, HoldStep DEF IInv
  <2> QED
    BY <2>1
<1> QED
  BY <1>1, <1>2

\* Who is administrator holds a role that makes one.
LEMMA Administrator ==
  /\ \A u \in Users : u \in Administrators <=> \E r \in holders[u] : AdminPermission \in grants[r]
  /\ \A u \in Users :
       (u \in Administrators)' <=> \E r \in holders'[u] : AdminPermission \in grants'[r]
<1> QED
  BY DEF Administrators, IsAdminUser, Rights

\* But for a start, steps make nobody administrator.
LEMMA AdminsShrink ==
  ASSUME IInv, [Next]_vars, boot' = boot
  PROVE  Administrators' \subseteq Administrators
<1> USE DEF IInv
<1>0. SUFFICES ASSUME NEW u \in Users, NEW r \in holders'[u], AdminPermission \in grants'[r]
               PROVE  r \in holders[u] /\ AdminPermission \in grants[r]
  BY Administrator DEF Administrators
<1>1. ASSUME UNCHANGED <<grants, holders>>
      PROVE  r \in holders[u] /\ AdminPermission \in grants[r]
  BY <1>0, <1>1
<1>2. ASSUME NEW p \in Requests, Grant(p), grants' # grants
      PROVE  r \in holders[u] /\ AdminPermission \in grants[r]
  <2>1. task[p].role \in Roles /\ AdminPermission \notin task[p].chosen
    BY <1>2 DEF Grant, TypeInv, Fits
  <2>2. grants' = [grants EXCEPT ![task[p].role] = task[p].chosen] /\ UNCHANGED holders
    BY <1>2 DEF Grant
  <2>3. r \in Roles
    BY <1>0, <2>2 DEF TypeInv, TypeOK
  <2> QED
    BY <1>0, <2>1, <2>2, <2>3 DEF TypeInv, TypeOK
<1>3. ASSUME NEW p \in Requests, Hold(p), holders' # holders
      PROVE  r \in holders[u] /\ AdminPermission \in grants[r]
  <2>1. step[p] = "hold" /\ UNCHANGED grants
        /\ holders' = [holders EXCEPT ![task[p].user] = task[p].chosen]
    BY <1>3 DEF Hold
  <2>2. \A x \in task[p].chosen : AdminPermission \notin grants[x]
    BY <2>1 DEF HoldInv
  <2> QED
    BY <1>0, <2>1, <2>2 DEF TypeInv, TypeOK
<1>4. ASSUME NEW p \in Requests, NEW x \in Roles, DeleteRole(p, x)
      PROVE  r \in holders[u] /\ AdminPermission \in grants[r]
  <2>1. r \in holders[u] \ {x} /\ r \in Roles
    BY <1>0, <1>4 DEF DeleteRole, TypeInv, TypeOK
  <2> QED
    BY <1>0, <1>4, <2>1 DEF DeleteRole, TypeInv, TypeOK
<1>5. ASSUME NEW x \in Disordered, Reconcile(x, Template[x]), UNCHANGED holders
      PROVE  r \in holders[u] /\ AdminPermission \in grants[r]
  <2>1. x \in Roles /\ AdminPermission \notin Template[x]
    BY PermissionsAssumption DEF Disordered
  <2>2. r \in Roles
    BY <1>0, <1>5 DEF TypeInv, TypeOK
  <2> QED
    BY <1>0, <1>5, <2>1, <2>2 DEF Reconcile, TypeInv, TypeOK
<1>6. ~SyncAdminRole /\ ~PurgeAdmins
  BY DEF SyncAdminRole, PurgeAdmins
<1>7. ASSUME SyncTemplates
      PROVE  \/ UNCHANGED <<grants, holders>>
             \/ \E x \in Disordered : Reconcile(x, Template[x]) /\ UNCHANGED holders
  BY <1>7 DEF SyncTemplates
<1>8. ASSUME NEW p \in Requests, Ask(p)
      PROVE  \/ UNCHANGED <<grants, holders>>
             \/ \E x \in Roles : DeleteRole(p, x)
  BY <1>8 DEF Ask, BeginRead, BeginSetUserRoles, BeginSetRolePermissions, CreateRole, tables
<1>9. ASSUME NEW p \in Requests, Serve(p)
      PROVE  \/ UNCHANGED <<grants, holders>>
             \/ Grant(p) /\ grants' # grants
             \/ Hold(p) /\ holders' # holders
  BY <1>9 DEF Serve, Hit, Miss, Fill, Grant, ListHolders, Vet, Hold, Announce, EndAnnounce,
     tables
<1>10. ASSUME Restart \/ (\E v \in Users, k \in Keys : Expire(v, k)) \/ UNCHANGED vars
       PROVE  UNCHANGED <<grants, holders>>
  BY <1>10 DEF Restart, Expire, vars, tables
<1> QED
  BY <1>1, <1>2, <1>3, <1>4, <1>5, <1>6, <1>7, <1>8, <1>9, <1>10 DEF Next, Start

\* However role changes, assignments, deletions and look-ups interleave, and whatever
\* the caches say, nobody becomes administrator but by a start of the API
\* (SetUserRolesUseCase, SetRolePermissionsUseCase).
THEOREM NobodyMade == Spec => NobodyIsMadeAdministrator
<1>1. IInv /\ [Next]_vars => [boot' = boot => Administrators' \subseteq Administrators]_vars
  BY AdminsShrink
<1> QED
  BY <1>1, InvHolds, PTL DEF Spec, NobodyIsMadeAdministrator

\* When the start has purged, and from then on, there are not two administrators.
OneInv == boot \in {"up", "templates"} => \A u, v \in Administrators : u = v

\* Every step keeps it so: the purge makes it so, and nothing else makes one.
LEMMA OneStep ==
  ASSUME IInv, OneInv, [Next]_vars
  PROVE  OneInv'
<1> USE DEF IInv
<1>1. CASE boot' = boot
  BY <1>1, AdminsShrink DEF OneInv
<1>2. CASE boot' # boot
  <2>1. Restart \/ Start
    BY <1>2 DEF Next, Ask, Serve, BeginRead, BeginSetUserRoles, BeginSetRolePermissions,
       DeleteRole, CreateRole, Hit, Miss, Fill, Grant, ListHolders, Vet, Hold, Announce,
       EndAnnounce, Expire, vars
  <2>2. CASE Restart \/ SyncAdminRole
    BY <2>2 DEF Restart, SyncAdminRole, OneInv
  <2>3. CASE PurgeAdmins
    <3>1. PICK first \in {u \in Users : Admin \in holders[u]} :
            holders' = [u \in Users |-> IF u \in {v \in Users : Admin \in holders[v]} \ {first}
                                        THEN holders[u] \ {Admin} ELSE holders[u]]
      BY <2>3 DEF PurgeAdmins
    <3>2. ASSUME NEW u \in Users, NEW r \in holders'[u], AdminPermission \in grants'[r]
          PROVE  u = first
      <4>1. r \in holders[u] /\ r \in Roles /\ UNCHANGED grants
        BY <2>3, <3>1 DEF PurgeAdmins, TypeInv, TypeOK
      <4>2. r = Admin
        BY <3>2, <4>1 DEF TypeInv, TypeOK
      <4> QED
        BY <3>1, <4>1, <4>2
    <3>3. \A u \in Administrators' : u = first
      BY <3>2, Administrator DEF Administrators
    <3> QED
      BY <3>3 DEF OneInv
  <2>4. CASE SyncTemplates
    <3>1. boot = "templates" /\ UNCHANGED <<grants, holders>>
      BY <1>2, <2>4 DEF SyncTemplates
    <3> QED
      BY <3>1 DEF OneInv, Administrators, IsAdminUser, Rights
  <2> QED
    BY <2>1, <2>2, <2>3, <2>4 DEF Start
<1> QED
  BY <1>1, <1>2

\* If one user at most holds the Admin role at first, there is one administrator at
\* most whenever the API serves, for any users and any number of starts
\* (ensureAdminUser).
THEOREM OneAdmin ==
  ASSUME \A u, v \in Users : Admin \in Started[u] /\ Admin \in Started[v] => u = v
  PROVE  Spec => []OneAdministrator
<1>1. Init => OneInv
  <2>1. ASSUME Init, NEW u \in Users, NEW r \in holders[u], AdminPermission \in grants[r]
        PROVE  Admin \in Started[u]
    BY <2>1, PermissionsAssumption DEF Init
  <2> QED
    BY <2>1, Administrator DEF OneInv, Administrators, Init
<1>2. OneInv => OneAdministrator
  <2> SUFFICES ASSUME OneInv, Up PROVE Cardinality(Administrators) <= 1
    BY DEF OneAdministrator
  <2>1. CASE Administrators = {}
    BY <2>1, FS_EmptySet
  <2>2. ASSUME NEW u \in Administrators
        PROVE  Cardinality(Administrators) <= 1
    <3>1. Administrators = {u}
      BY DEF OneInv, Up
    <3> QED
      BY <3>1, FS_Singleton
  <2> QED
    BY <2>1, <2>2
<1>3. IInv /\ OneInv /\ [Next]_vars => OneInv'
  BY OneStep
<1> QED
  BY <1>1, <1>2, <1>3, InvHolds, PTL DEF Spec

-----------------------------------------------------------------------------
(* Entries that are behind                                                 *)

\* What a request owes at step s, with t in memory, while h says who holds what.
Owes(u, k, s, t, h) ==
  \/ s = "list" /\ t.role \in h[u]
  \/ /\ s = "announce"
     /\ \E x \in t.left : x[1] = u /\ (x[2] = "identity" => k = "identity")

\* The entries a request is still to delete, before and after a step.
LEMMA OwedMeans ==
  ASSUME NEW p \in Requests, NEW u \in Users, NEW k \in Keys
  PROVE  /\ <<u, k>> \in Owed(p) <=> Owes(u, k, step[p], task[p], holders)
         /\ (<<u, k>> \in Owed(p))' <=> Owes(u, k, step'[p], task'[p], holders')
<1> QED
  BY DEF Owed, Owes, Keys

\* What the tables say of a user whose roles are and grant the same is the same.
LEMMA TruthStays ==
  ASSUME NEW u \in Users, NEW k \in Keys,
         holders'[u] = holders[u], \A r \in holders[u] : grants'[r] = grants[r]
  PROVE  Truth(u, k)' = Truth(u, k)
<1>1. Rights(u)' = Rights(u)
  BY DEF Rights
<1> QED
  BY <1>1 DEF Truth

\* An entry is as the tables say, excused, or owed.
Accounted(u, k) ==
  \/ cache[u][k] \in {None, Truth(u, k)}
  \/ <<u, k>> \in excused
  \/ \E p \in Requests : <<u, k>> \in Owed(p)

\* A step that leaves alone a user's roles, what they grant and the entry, and what
\* excuses it, leaves the entry accounted for.
LEMMA AccountedStays ==
  ASSUME NEW u \in Users, NEW k \in Keys, Accounted(u, k),
         holders'[u] = holders[u], \A r \in holders[u] : grants'[r] = grants[r],
         cache'[u][k] = cache[u][k],
         <<u, k>> \in excused => <<u, k>> \in excused',
         \A p \in Requests : <<u, k>> \in Owed(p) =>
           <<u, k>> \in excused' \/ \E q \in Requests : (<<u, k>> \in Owed(q))'
  PROVE  Accounted(u, k)'
<1> QED
  BY TruthStays DEF Accounted

\* What the other requests owe, they still owe.
LEMMA OthersOwe ==
  ASSUME NEW p \in Requests, NEW u \in Users, NEW k \in Keys,
         \A q \in Requests \ {p} : step'[q] = step[q] /\ task'[q] = task[q],
         holders'[u] = holders[u],
         <<u, k>> \in Owed(p) => (<<u, k>> \in Owed(p))'
  PROVE  \A q \in Requests : <<u, k>> \in Owed(q) => (<<u, k>> \in Owed(q))'
<1> TAKE q \in Requests
<1>1. CASE q = p
  BY <1>1
<1>2. CASE q # p
  BY <1>2, OwedMeans DEF Owes
<1> QED
  BY <1>1, <1>2

\* A request that begins: only a deleted role is left unannounced, and excused.
LEMMA AskAccounted ==
  ASSUME TypeInv, NEW p \in Requests, Ask(p), NEW u \in Users, NEW k \in Keys, Accounted(u, k)
  PROVE  Accounted(u, k)'
<1>1. /\ step[p] = "idle"
      /\ \A q \in Requests \ {p} : step'[q] = step[q] /\ task'[q] = task[q]
  BY AskType
<1>2. <<u, k>> \notin Owed(p)
  BY <1>1, OwedMeans DEF Owes
<1>3. CASE UNCHANGED <<grants, holders, cache, excused>>
  BY <1>1, <1>2, <1>3, OthersOwe, AccountedStays
<1>4. ASSUME NEW r \in Roles, DeleteRole(p, r)
      PROVE  Accounted(u, k)'
  <2>1. CASE r \in holders[u]
    BY <1>4, <2>1 DEF DeleteRole, Accounted
  <2>2. CASE r \notin holders[u]
    <3>1. /\ holders'[u] = holders[u] /\ UNCHANGED cache /\ excused \subseteq excused'
          /\ \A x \in holders[u] : grants'[x] = grants[x]
      BY <1>4, <2>2 DEF DeleteRole, TypeInv, TypeOK
    <3> QED
      BY <1>1, <1>2, <3>1, OthersOwe, AccountedStays
  <2> QED
    BY <2>1, <2>2
<1> QED
  BY <1>3, <1>4 DEF Ask, BeginRead, BeginSetUserRoles, BeginSetRolePermissions, CreateRole, tables

\* A look-up leaves the entries; one that is filled is right or excused.
LEMMA LookAccounted ==
  ASSUME TypeInv, NEW p \in Requests, Hit(p) \/ Miss(p) \/ Fill(p),
         NEW u \in Users, NEW k \in Keys, Accounted(u, k)
  PROVE  Accounted(u, k)'
<1>1. /\ step[p] \in {"look", "fill"}
      /\ \A q \in Requests \ {p} : step'[q] = step[q] /\ task'[q] = task[q]
  BY LookType
<1>2. <<u, k>> \notin Owed(p)
  BY <1>1, OwedMeans DEF Owes
<1>3. UNCHANGED <<grants, holders>>
  BY DEF Hit, Miss, Fill, tables
<1>4. CASE UNCHANGED <<cache, excused>>
  BY <1>1, <1>2, <1>3, <1>4, OthersOwe, AccountedStays
<1>5. ASSUME Fill(p), cache' = [cache EXCEPT ![task[p].user][task[p].key] = task[p].value],
             excused' = IF task[p].value = Truth(task[p].user, task[p].key)
                        THEN excused \ {<<task[p].user, task[p].key>>}
                        ELSE excused \cup {<<task[p].user, task[p].key>>}
      PROVE  Accounted(u, k)'
  <2>1. CASE u = task[p].user /\ k = task[p].key
    <3>1. cache'[u][k] = task[p].value
      BY <1>5, <2>1 DEF TypeInv
    <3>2. Truth(u, k)' = Truth(u, k)
      BY <1>3, TruthStays
    <3> QED
      BY <1>5, <2>1, <3>1, <3>2 DEF Accounted
  <2>2. CASE ~(u = task[p].user /\ k = task[p].key)
    <3>1. cache'[u][k] = cache[u][k]
      BY <1>5, <2>2 DEF TypeInv
    <3>2. <<u, k>> \in excused => <<u, k>> \in excused'
      BY <1>5, <2>2
    <3> QED
      BY <1>1, <1>2, <1>3, <3>1, <3>2, OthersOwe, AccountedStays
  <2> QED
    BY <2>1, <2>2
<1> QED
  BY <1>4, <1>5 DEF Hit, Miss, Fill

\* A change is owed to everybody it concerns until it is announced.
LEMMA ChangeAccounted ==
  ASSUME TypeInv, NEW p \in Requests, Grant(p) \/ ListHolders(p) \/ Vet(p) \/ Hold(p),
         NEW u \in Users, NEW k \in Keys, Accounted(u, k)
  PROVE  Accounted(u, k)'
<1>1. \A q \in Requests \ {p} : step'[q] = step[q] /\ task'[q] = task[q]
  BY ChangeType
<1>2. UNCHANGED <<cache, excused>>
  BY DEF Grant, ListHolders, Vet, Hold
<1>3. CASE Grant(p)
  <2>1. <<u, k>> \notin Owed(p)
    BY <1>3, OwedMeans DEF Owes, Grant
  <2>2. CASE task[p].role \in live /\ task[p].role \in holders[u]
    <3>1. step'[p] = "list" /\ task'[p].role = task[p].role /\ UNCHANGED holders
      BY <1>3, <2>2 DEF Grant, Go, Blank, TypeInv
    <3>2. (<<u, k>> \in Owed(p))'
      BY <2>2, <3>1, OwedMeans DEF Owes
    <3> QED
      BY <3>2 DEF Accounted
  <2>3. CASE ~(task[p].role \in live /\ task[p].role \in holders[u])
    <3>1. UNCHANGED holders /\ \A r \in holders[u] : grants'[r] = grants[r]
      BY <1>3, <2>3 DEF Grant, TypeInv, TypeOK
    <3> QED
      BY <1>1, <1>2, <2>1, <3>1, OthersOwe, AccountedStays
  <2> QED
    BY <2>2, <2>3
<1>4. CASE ListHolders(p)
  <2>1. /\ step[p] = "list" /\ step'[p] = "announce"
        /\ task'[p].left = {v \in Users : task[p].role \in holders[v]} \X {"authorization"}
        /\ UNCHANGED <<grants, holders>>
    BY <1>4 DEF ListHolders, Go, Blank, tables, TypeInv
  <2>2. <<u, k>> \in Owed(p) => (<<u, k>> \in Owed(p))'
    <3> SUFFICES ASSUME <<u, k>> \in Owed(p) PROVE (<<u, k>> \in Owed(p))'
      OBVIOUS
    <3>1. task[p].role \in holders[u]
      BY <2>1, OwedMeans DEF Owes
    <3>2. <<u, "authorization">> \in task'[p].left
      BY <2>1, <3>1
    <3> QED
      BY <2>1, <3>2, OwedMeans DEF Owes
  <2> QED
    BY <1>1, <1>2, <2>1, <2>2, OthersOwe, AccountedStays
<1>5. CASE Vet(p)
  <2>1. <<u, k>> \notin Owed(p) /\ UNCHANGED <<grants, holders>>
    BY <1>5, OwedMeans DEF Owes, Vet, tables
  <2> QED
    BY <1>1, <1>2, <2>1, OthersOwe, AccountedStays
<1>6. CASE Hold(p)
  <2>1. <<u, k>> \notin Owed(p) /\ UNCHANGED grants
    BY <1>6, OwedMeans DEF Owes, Hold
  <2>2. CASE task[p].chosen \subseteq live /\ u = task[p].user
    <3>1. step'[p] = "announce" /\ <<u, "authorization">> \in task'[p].left
      BY <1>6, <2>2 DEF Hold, Go, Blank, TypeInv
    <3>2. (<<u, k>> \in Owed(p))'
      BY <3>1, OwedMeans DEF Owes
    <3> QED
      BY <3>2 DEF Accounted
  <2>3. CASE ~(task[p].chosen \subseteq live /\ u = task[p].user)
    <3>1. holders'[u] = holders[u]
      BY <1>6, <2>3 DEF Hold, TypeInv, TypeOK
    <3> QED
      BY <1>1, <1>2, <2>1, <3>1, OthersOwe, AccountedStays
  <2> QED
    BY <2>2, <2>3
<1> QED
  BY <1>3, <1>4, <1>5, <1>6

\* An announcement deletes what it owes, or excuses it.
LEMMA AnnounceAccounted ==
  ASSUME TypeInv, NEW p \in Requests, Announce(p) \/ EndAnnounce(p),
         NEW u \in Users, NEW k \in Keys, Accounted(u, k)
  PROVE  Accounted(u, k)'
<1>1. /\ step[p] = "announce" /\ UNCHANGED <<grants, holders>>
      /\ \A q \in Requests \ {p} : step'[q] = step[q] /\ task'[q] = task[q]
  BY ChangeType DEF Announce, EndAnnounce, tables
<1>2. CASE EndAnnounce(p)
  <2>1. task[p].left = {} /\ UNCHANGED <<cache, excused>>
    BY <1>2 DEF EndAnnounce
  <2>2. <<u, k>> \notin Owed(p)
    BY <1>1, <2>1, OwedMeans DEF Owes
  <2> QED
    BY <1>1, <2>1, <2>2, OthersOwe, AccountedStays
<1>3. CASE Announce(p)
  <2>1. PICK x \in task[p].left :
          LET v == x[1]
              gone == {v} \X Cleared(x[2])
              next == IF x[2] = "authorization" THEN {<<v, "identity">>} ELSE {}
          IN  /\ task' = [task EXCEPT ![p].left = (@ \ {x}) \cup next]
              /\ \/ /\ cache' = [cache EXCEPT ![v] = [key \in Keys |->
                         IF key \in Cleared(x[2]) THEN None ELSE cache[v][key]]]
                    /\ excused' = excused \ gone
                 \/ /\ excused' = excused \cup gone
                    /\ UNCHANGED cache
    BY <1>3 DEF Announce
  <2> DEFINE next == IF x[2] = "authorization" THEN {<<x[1], "identity">>} ELSE {}
  <2>2. x[1] \in Users /\ x[2] \in {"authorization", "identity"}
    BY DEF TypeInv, TaskState
  <2>3. step'[p] = "announce" /\ task'[p].left = (task[p].left \ {x}) \cup next
    BY <1>1, <1>3, <2>1 DEF Announce, TypeInv, TaskState
  <2>4. CASE u = x[1] /\ k \in Cleared(x[2])
    <3>1. CASE <<u, k>> \in excused'
      BY <3>1 DEF Accounted
    <3>2. CASE <<u, k>> \notin excused'
      <4>1. cache' = [cache EXCEPT ![x[1]] = [key \in Keys |->
                        IF key \in Cleared(x[2]) THEN None ELSE cache[x[1]][key]]]
        BY <2>1, <2>4, <3>2
      <4>2. cache'[u][k] = None
        BY <2>2, <2>4, <4>1 DEF TypeInv
      <4> QED
        BY <4>2 DEF Accounted
    <3> QED
      BY <3>1, <3>2
  <2>5. CASE ~(u = x[1] /\ k \in Cleared(x[2]))
    <3>1. cache'[u][k] = cache[u][k]
      BY <2>1, <2>2, <2>5 DEF TypeInv
    <3>2. <<u, k>> \in excused => <<u, k>> \in excused'
      BY <2>1, <2>5
    <3>3. <<u, k>> \in Owed(p) => (<<u, k>> \in Owed(p))'
      <4> SUFFICES ASSUME <<u, k>> \in Owed(p) PROVE (<<u, k>> \in Owed(p))'
        OBVIOUS
      <4>1. PICK y \in task[p].left : y[1] = u /\ (y[2] = "identity" => k = "identity")
        BY <1>1, OwedMeans DEF Owes
      <4>2. CASE y # x
        BY <2>3, <4>1, <4>2, OwedMeans DEF Owes
      <4>3. CASE y = x
        <5>1. x[2] = "authorization" /\ k = "identity"
          BY <2>2, <2>5, <4>1, <4>3 DEF Cleared, Keys
        <5>2. <<u, "identity">> \in task'[p].left
          BY <2>3, <4>1, <4>3, <5>1
        <5> QED
          BY <2>3, <5>1, <5>2, OwedMeans DEF Owes
      <4> QED
        BY <4>2, <4>3
    <3> QED
      BY <1>1, <3>1, <3>2, <3>3, OthersOwe, AccountedStays
  <2> QED
    BY <2>4, <2>5
<1> QED
  BY <1>2, <1>3

\* A stop excuses what was owed, and a start what it puts in order.
LEMMA BootAccounted ==
  ASSUME TypeInv, Restart \/ Start, NEW u \in Users, NEW k \in Keys, Accounted(u, k)
  PROVE  Accounted(u, k)'
<1>1. CASE Restart
  <2>1. /\ UNCHANGED <<grants, holders, cache>> /\ excused \subseteq excused'
        /\ \A p \in Requests : <<u, k>> \in Owed(p) => <<u, k>> \in excused'
    BY <1>1 DEF Restart, tables
  <2> QED
    BY <2>1, AccountedStays
<1>2. ASSUME NEW r \in Roles, NEW chosen, Reconcile(r, chosen),
             UNCHANGED <<holders, cache, step, task>>
      PROVE  Accounted(u, k)'
  <2>1. CASE r \in holders[u] /\ grants[r] # chosen
    BY <1>2, <2>1 DEF Reconcile, Accounted
  <2>2. CASE ~(r \in holders[u] /\ grants[r] # chosen)
    <3>1. /\ \A x \in holders[u] : grants'[x] = grants[x]
          /\ excused \subseteq excused'
      BY <1>2, <2>2 DEF Reconcile, TypeInv, TypeOK
    <3>2. \A p \in Requests : <<u, k>> \in Owed(p) => (<<u, k>> \in Owed(p))'
      BY <1>2, OwedMeans
    <3> QED
      BY <1>2, <3>1, <3>2, AccountedStays
  <2> QED
    BY <2>1, <2>2
<1>3. CASE PurgeAdmins
  <2>1. PICK first \in {v \in Users : Admin \in holders[v]} :
          /\ holders' = [v \in Users |-> IF v \in {w \in Users : Admin \in holders[w]} \ {first}
                                         THEN holders[v] \ {Admin} ELSE holders[v]]
          /\ excused' = excused \cup ({w \in Users : Admin \in holders[w]} \ {first}) \X Keys
    BY <1>3 DEF PurgeAdmins
  <2>2. UNCHANGED <<grants, cache, step, task>>
    BY <1>3 DEF PurgeAdmins
  <2>3. CASE u \in {w \in Users : Admin \in holders[w]} \ {first}
    BY <2>1, <2>3 DEF Accounted
  <2>4. CASE u \notin {w \in Users : Admin \in holders[w]} \ {first}
    <3>1. holders'[u] = holders[u] /\ excused \subseteq excused'
      BY <2>1, <2>4
    <3>2. \A p \in Requests : <<u, k>> \in Owed(p) => (<<u, k>> \in Owed(p))'
      BY <2>2, <3>1, OwedMeans DEF Owes
    <3> QED
      BY <2>2, <3>1, <3>2, AccountedStays
  <2> QED
    BY <2>3, <2>4
<1>4. CASE SyncAdminRole
  BY <1>2, <1>4, PermissionsAssumption DEF SyncAdminRole
<1>5. CASE SyncTemplates
  <2>1. CASE UNCHANGED <<grants, excused>>
    <3>1. UNCHANGED <<holders, cache, step, task>>
      BY <1>5 DEF SyncTemplates
    <3>2. \A p \in Requests : <<u, k>> \in Owed(p) => (<<u, k>> \in Owed(p))'
      BY <3>1, OwedMeans
    <3> QED
      BY <2>1, <3>1, <3>2, AccountedStays
  <2>2. ASSUME NEW r \in Disordered, Reconcile(r, Template[r])
        PROVE  Accounted(u, k)'
    BY <1>2, <1>5, <2>2, PermissionsAssumption DEF SyncTemplates, Disordered
  <2> QED
    BY <1>5, <2>1, <2>2 DEF SyncTemplates
<1> QED
  BY <1>1, <1>3, <1>4, <1>5 DEF Start

\* An entry whose time is over is absent, and the others stay.
LEMMA ExpireAccounted ==
  ASSUME TypeInv, NEW v \in Users, NEW key \in Keys, Expire(v, key),
         NEW u \in Users, NEW k \in Keys, Accounted(u, k)
  PROVE  Accounted(u, k)'
<1>1. CASE u = v /\ k = key
  <2>1. cache'[u][k] = None
    BY <1>1 DEF Expire, TypeInv
  <2> QED
    BY <2>1 DEF Accounted
<1>2. CASE ~(u = v /\ k = key)
  <2>1. /\ cache'[u][k] = cache[u][k] /\ UNCHANGED <<grants, holders, step, task>>
        /\ <<u, k>> \in excused => <<u, k>> \in excused'
    BY <1>2 DEF Expire, tables, TypeInv
  <2>2. \A p \in Requests : <<u, k>> \in Owed(p) => (<<u, k>> \in Owed(p))'
    BY <2>1, OwedMeans
  <2> QED
    BY <2>1, <2>2, AccountedStays
<1> QED
  BY <1>1, <1>2

\* Whatever the interleaving of look-ups, changes and announcements, and whatever
\* fails, an entry of the caches is behind the tables only for a reason named: a
\* change being announced, an announcement that failed or never was, or a reading
\* older than a change (CachedAuthorizationRepository, invalidateUserPermissions).
THEOREM BehindForAReason == Spec => []BehindOnlyWhenExcused
<1>1. BehindOnlyWhenExcused <=> \A u \in Users, k \in Keys : Accounted(u, k)
  BY DEF BehindOnlyWhenExcused, Accounted
<1>2. Init => BehindOnlyWhenExcused
  BY DEF Init, BehindOnlyWhenExcused
<1>3. TypeInv /\ BehindOnlyWhenExcused /\ [Next]_vars => BehindOnlyWhenExcused'
  <2> SUFFICES ASSUME TypeInv, BehindOnlyWhenExcused, [Next]_vars,
                      NEW u \in Users, NEW k \in Keys
               PROVE  Accounted(u, k)'
    BY DEF BehindOnlyWhenExcused, Accounted
  <2>1. Accounted(u, k)
    BY <1>1
  <2>2. CASE Next
    BY <2>1, <2>2, AskAccounted, LookAccounted, ChangeAccounted, AnnounceAccounted,
       BootAccounted, ExpireAccounted
    DEF Next, Serve
  <2>3. CASE UNCHANGED vars
    BY <2>1, <2>3 DEF vars, Accounted, Truth, Rights, Owed
  <2> QED
    BY <2>2, <2>3
<1> QED
  BY <1>2, <1>3, InitType, StepType, PTL DEF Spec

-----------------------------------------------------------------------------
(* ResponseCache: the tables of routes                                     *)

\* A write that changes what a read shows announces one of its domains, unless
\* the pair is listed (the domains handed to invalidateServerCache).
SilentIsComplete ==
  \A op \in Write, r \in Read :
    Concerns(op, r) /\ <<op.name, r.name>> \notin Silent
      => Announced(op, r) # {}

\* A handler that passes the caller's scope on puts it into the key
\* (varyByOwner).
ScopedVaries == \A r \in Read : r.scoped => r.varies = TRUE

-----------------------------------------------------------------------------
(* Types                                                                   *)

Effect == [concerns : BOOLEAN, increments : Nat, owes : BOOLEAN]

\* What a write does to a route is a number of increments and two answers.
LEMMA EffectType ==
  ASSUME NEW r \in Read, NEW effect \in Effects[r]
  PROVE  effect \in Effect
<1>1. PICK op \in Write : effect = EffectOf(op, r)
  BY DEF Effects
<1>2. IsFiniteSet(r.domains)
  BY RouteAssumption
<1>3. IsFiniteSet(Announced(op, r))
  BY <1>2, FS_Subset DEF Announced
<1>4. Cardinality(Announced(op, r)) \in Nat
  BY <1>3, FS_CardinalityType
<1>5. Concerns(op, r) \in BOOLEAN
  BY DEF Concerns
<1> QED
  BY <1>1, <1>4, <1>5 DEF EffectOf, Effect

\* A write that owes an announcement makes at least one increment.
LEMMA OwingIncrements ==
  ASSUME SilentIsComplete, NEW r \in Read, NEW effect \in Effects[r], effect.owes
  PROVE  effect.increments > 0
<1>1. PICK op \in Write : effect = EffectOf(op, r)
  BY DEF Effects
<1>2. Announced(op, r) # {}
  BY <1>1 DEF SilentIsComplete, EffectOf
<1>3. IsFiniteSet(Announced(op, r))
  BY RouteAssumption, FS_Subset DEF Announced
<1>4. Cardinality(Announced(op, r)) \in Nat /\ Cardinality(Announced(op, r)) # 0
  BY <1>2, <1>3, FS_CardinalityType, FS_EmptySet
<1> QED
  BY <1>1, <1>4 DEF EffectOf

\* The states of a request are closed under the two ways to move it.
LEMMA MoveType ==
  ASSUME CacheTypeOK, NEW q \in Request, NEW value \in Value,
         NEW next \in {"idle", "get", "compute", "store", "direct", "answered"},
         NEW v \in Nat
  PROVE  /\ [requests EXCEPT ![q].step = next, ![q].value = value]
              \in [Request -> RequestState]
         /\ [requests EXCEPT ![q].step = next, ![q].value = value,
                             ![q].version = v]
              \in [Request -> RequestState]
<1>1. requests[q] \in RequestState
  BY DEF CacheTypeOK
<1>2. /\ [requests[q] EXCEPT !.step = next, !.value = value] \in RequestState
      /\ [requests[q] EXCEPT !.step = next, !.value = value, !.version = v]
           \in RequestState
  BY <1>1 DEF RequestState
<1> QED
  BY <1>2 DEF CacheTypeOK

\* What is computed is a value.
LEMMA ComputedType ==
  ASSUME CacheTypeOK, NEW s \in Scope
  PROVE  Computed(s) \in Value /\ Vary(s) \in Scope \union {All}
<1> QED
  BY DEF CacheTypeOK, Computed, Value, Vary

\* A request that waits is a request.
LEMMA WaitingType == Waiting \in RequestState
<1>1. (CHOOSE s \in Scope : TRUE) \in Scope
  BY RouteAssumption
<1> QED
  BY <1>1 DEF Waiting, RequestState, Nothing, Value

\* Every step of a request keeps the types.
LEMMA ProgressType ==
  ASSUME CacheTypeOK, NEW q \in Request, Progress(q)
  PROVE  CacheTypeOK'
<1>1. requests[q] \in RequestState
  BY DEF CacheTypeOK
<1>2. requests[q].scope \in Scope /\ requests[q].value \in Value
      /\ requests[q].version \in Nat
  BY <1>1 DEF RequestState
<1>3. Nothing \in Value /\ 0 \in Nat
  BY DEF Nothing, Value
<1>4. Computed(requests[q].scope) \in Value
      /\ Vary(requests[q].scope) \in Scope \union {All}
  BY <1>2, ComputedType, Zenon
<1>5. CASE ReadHit(q)
  <2>1. PICK e \in Cached(q) : Answer(q, e.value)
    BY <1>5 DEF ReadHit
  <2>2. e.value \in Value
    BY <2>1 DEF Cached, CacheTypeOK, Entry
  <2> QED
    BY <1>5, <2>1, <2>2, MoveType, Zenon, <1>3 DEF ReadHit, Answer, CacheTypeOK
<1>6. CASE ReadMiss(q)
  BY <1>6, MoveType, Zenon, <1>3 DEF ReadMiss, Move, CacheTypeOK
<1>7. CASE Compute(q)
  BY <1>7, MoveType, Zenon, <1>4 DEF Compute, Move, CacheTypeOK
<1>8. CASE ComputeFails(q)
  BY <1>8, WaitingType DEF ComputeFails, CacheTypeOK
<1>9. CASE Store(q)
  <2>1. [version |-> requests[q].version, vary |-> Vary(requests[q].scope),
         value |-> requests[q].value] \in Entry
    BY <1>2, <1>4 DEF Entry
  <2>2. responses' \subseteq Entry
    BY <1>9, <2>1 DEF Store, CacheTypeOK
  <2> QED
    BY <1>9, <2>2, MoveType, Zenon, <1>2, <1>3 DEF Store, Answer, CacheTypeOK
<1>10. CASE Bypass(q)
  BY <1>10, MoveType, Zenon, <1>3 DEF Bypass, Move, CacheTypeOK
<1>11. CASE Direct(q)
  BY <1>11, MoveType, Zenon, <1>3, <1>4 DEF Direct, Answer, CacheTypeOK
<1> QED
  BY <1>5, <1>6, <1>7, <1>8, <1>9, <1>10, <1>11 DEF Progress

\* Every step keeps the types.
LEMMA CacheStepType ==
  ASSUME CacheTypeOK, [CacheNext]_cacheVars
  PROVE  CacheTypeOK'
<1>1. ASSUME NEW q \in Request, NEW s \in Scope, GetVersions(q, s)
      PROVE  CacheTypeOK'
  <2>1. PICK next \in {"get", "direct"} :
          requests' = [requests EXCEPT ![q] =
            [step |-> next, scope |-> s, version |-> version,
             value |-> Nothing, owed |-> settled]]
    BY <1>1 DEF GetVersions
  <2>2. [step |-> next, scope |-> s, version |-> version,
         value |-> Nothing, owed |-> settled] \in RequestState
    BY DEF RequestState, CacheTypeOK, Nothing, Value
  <2> QED
    BY <1>1, <2>1, <2>2 DEF GetVersions, CacheTypeOK
<1>2. ASSUME NEW q \in Request, Progress(q)
      PROVE  CacheTypeOK'
  BY <1>2, ProgressType
<1>3. ASSUME NEW w \in Writer, NEW effect \in Effects[read], Commit(w, effect)
      PROVE  CacheTypeOK'
  <2>1. effect \in Effect
    BY EffectType DEF CacheTypeOK
  <2>2. revision' \in Nat
    BY <1>3 DEF Commit, CacheTypeOK
  <2>3. [step |-> "committed", left |-> effect.increments,
         owes |-> effect.owes, rev |-> revision'] \in WriterState
    BY <2>1, <2>2 DEF WriterState, Effect
  <2> QED
    BY <1>3, <2>2, <2>3 DEF Commit, CacheTypeOK
<1>4. ASSUME NEW w \in Writer, Increment(w) PROVE CacheTypeOK'
  <2>1. writers[w] \in WriterState
    BY DEF CacheTypeOK
  <2>2. [writers[w] EXCEPT !.left = writers[w].left - 1] \in WriterState
    BY <1>4, <2>1 DEF Increment, WriterState
  <2>3. writers' = [writers EXCEPT ![w] = [writers[w] EXCEPT !.left = writers[w].left - 1]]
    BY <1>4 DEF Increment, CacheTypeOK
  <2> QED
    BY <1>4, <2>2, <2>3 DEF Increment, CacheTypeOK, Reachable
<1>5. ASSUME NEW w \in Writer, Return(w) PROVE CacheTypeOK'
  <2>1. writers[w] \in WriterState
    BY DEF CacheTypeOK
  <2>2. [writers[w] EXCEPT !.step = "returned"] \in WriterState
        /\ writers[w].rev \in Nat
    BY <2>1 DEF WriterState
  <2> QED
    BY <1>5, <2>2 DEF Return, CacheTypeOK
<1>6. ASSUME NEW w \in Writer, Break(w) PROVE CacheTypeOK'
  <2>1. writers[w] \in WriterState
    BY DEF CacheTypeOK
  <2>2. [writers[w] EXCEPT !.step = "broken"] \in WriterState
    BY <2>1 DEF WriterState
  <2> QED
    BY <1>6, <2>2 DEF Break, CacheTypeOK
<1>7. ASSUME NEW e \in responses, ExpireResponse(e) PROVE CacheTypeOK'
  BY <1>7 DEF ExpireResponse, CacheTypeOK
<1>8. CASE UNCHANGED cacheVars
  BY <1>8 DEF cacheVars, CacheTypeOK
<1> QED
  BY <1>1, <1>2, <1>3, <1>4, <1>5, <1>6, <1>7, <1>8 DEF CacheNext

\* The first state is well typed.
LEMMA CacheInitType == CacheInit => CacheTypeOK
<1> QED
  BY WaitingType DEF CacheInit, CacheTypeOK, WriterState

\* Whatever the routes and the writes are, the state keeps its types
\* (jsonWithServerCache, invalidateServerCache).
THEOREM CacheTypeCorrect == CacheSpec => []CacheTypeOK
<1> QED
  BY CacheInitType, CacheStepType, PTL DEF CacheSpec

-----------------------------------------------------------------------------
(* Read your writes                                                        *)

InFlight(q) == requests[q].step \in {"get", "compute", "store"}
Holds(q) == requests[q].step = "store"

\* Whatever has version v, in the cache or about to be, holds revision n.
AllHold(v, n) ==
  /\ \A e \in responses : e.version = v => e.value.rev >= n
  /\ \A q \in Request :
       Holds(q) /\ requests[q].version = v => requests[q].value.rev >= n

\* Versions only grow, so nothing has one that is still to come.
VersionsPast ==
  /\ \A e \in responses : e.version <= version
  /\ \A q \in Request : InFlight(q) => requests[q].version <= version

SettledIsPast ==
  /\ settled <= revision
  /\ \A q \in Request : requests[q].owed <= settled
  /\ \A w \in Writer : writers[w].rev <= revision

\* What the next request may be given holds what is settled.
CurrentHoldsSettled == AllHold(version, settled)

\* What a request may be given holds what it is owed.
GivenHoldsOwed ==
  \A q \in Request :
    InFlight(q) => AllHold(requests[q].version, requests[q].owed)

\* A write whose increments have all arrived is held by what is current.
AnnouncedIsHeld ==
  \A w \in Writer :
    (writers[w].step = "committed" /\ writers[w].owes /\ writers[w].left = 0)
      => AllHold(version, writers[w].rev)

CacheInv ==
  /\ CacheTypeOK
  /\ VersionsPast
  /\ SettledIsPast
  /\ CurrentHoldsSettled
  /\ GivenHoldsOwed
  /\ AnnouncedIsHeld
  /\ SeesSettledWrites

\* Nothing is cached, asked for or written at first.
LEMMA CacheInitInv == CacheInit => CacheInv
<1> SUFFICES ASSUME CacheInit PROVE CacheInv
  OBVIOUS
<1>1. CacheTypeOK
  BY CacheInitType
<1>2. \A q \in Request : requests[q] = Waiting
  BY DEF CacheInit
<1>3. \A w \in Writer : writers[w].step = "idle" /\ writers[w].rev = 0
  BY DEF CacheInit
<1> QED
  BY <1>1, <1>2, <1>3 DEF CacheInit, CacheInv, VersionsPast, SettledIsPast,
     CurrentHoldsSettled, GivenHoldsOwed, AnnouncedIsHeld, SeesSettledWrites,
     AllHold, Holds, InFlight, Waiting, Nothing, Answered

\* The types of what the steps compare.
LEMMA Numbers ==
  ASSUME CacheTypeOK
  PROVE  /\ version \in Nat /\ revision \in Nat /\ settled \in Nat
         /\ \A e \in responses : e.version \in Nat /\ e.value.rev \in Nat
         /\ \A q \in Request :
              /\ requests[q].version \in Nat /\ requests[q].owed \in Nat
              /\ requests[q].value.rev \in Nat /\ requests[q].scope \in Scope
         /\ \A w \in Writer : writers[w].rev \in Nat /\ writers[w].left \in Nat
<1>1. \A e \in responses : e \in Entry
  BY DEF CacheTypeOK
<1>2. \A q \in Request : requests[q] \in RequestState
  BY DEF CacheTypeOK
<1>3. \A w \in Writer : writers[w] \in WriterState
  BY DEF CacheTypeOK
<1>4. \A e \in responses : e.version \in Nat /\ e.value.rev \in Nat
  BY <1>1 DEF Entry, Value
<1>5. \A q \in Request :
        /\ requests[q].version \in Nat /\ requests[q].owed \in Nat
        /\ requests[q].value.rev \in Nat /\ requests[q].scope \in Scope
  BY <1>2 DEF RequestState, Value
<1>6. \A w \in Writer : writers[w].rev \in Nat /\ writers[w].left \in Nat
  BY <1>3 DEF WriterState
<1> QED
  BY <1>4, <1>5, <1>6 DEF CacheTypeOK

\* How a step changes a request: it stays in flight as it was, or it is over.
LEMMA ProgressRequests ==
  ASSUME CacheTypeOK, NEW q \in Request, Progress(q)
  PROVE  /\ UNCHANGED <<read, revision, version, writers, settled>>
         /\ \A p \in Request : p # q => requests'[p] = requests[p]
         /\ requests'[q].owed \in {0, requests[q].owed}
         /\ InFlight(q)' =>
              InFlight(q) /\ requests'[q].version = requests[q].version
                /\ requests'[q].owed = requests[q].owed
         /\ Holds(q)' => requests'[q].value = Computed(requests[q].scope)
<1>1. requests[q] \in RequestState
  BY DEF CacheTypeOK
<1>2. requests[q] = [step |-> requests[q].step, scope |-> requests[q].scope,
        version |-> requests[q].version, value |-> requests[q].value,
        owed |-> requests[q].owed]
  BY <1>1 DEF RequestState
<1>3. DOMAIN requests = Request
  BY DEF CacheTypeOK
<1>4. CASE ReadHit(q) \/ Direct(q) \/ Store(q)
  <2>1. PICK value : Answer(q, value)
    BY <1>4 DEF ReadHit, Direct, Store
  <2>2. requests'[q] = [requests[q] EXCEPT !.step = "answered", !.value = value,
                                           !.version = 0]
        /\ \A p \in Request : p # q => requests'[p] = requests[p]
    BY <2>1, <1>3 DEF Answer
  <2>3. requests'[q].step = "answered" /\ requests'[q].owed = requests[q].owed
    BY <2>2, <1>1 DEF RequestState
  <2>4. ~InFlight(q)' /\ ~Holds(q)'
    BY <2>3 DEF InFlight, Holds
  <2> QED
    BY <2>1, <2>2, <2>3, <2>4, <1>4 DEF Answer
<1>5. CASE ReadMiss(q) \/ Bypass(q) \/ Compute(q)
  <2>1. PICK next, value : Move(q, next, value) /\ next \in {"compute", "direct", "store"}
          /\ (next = "store" => value = Computed(requests[q].scope))
          /\ InFlight(q)
    BY <1>5 DEF ReadMiss, Bypass, Compute, InFlight
  <2>2. requests'[q] = [requests[q] EXCEPT !.step = next, !.value = value]
        /\ \A p \in Request : p # q => requests'[p] = requests[p]
    BY <2>1, <1>3 DEF Move
  <2>3. /\ requests'[q].step = next /\ requests'[q].value = value
        /\ requests'[q].owed = requests[q].owed
        /\ requests'[q].version = requests[q].version
    BY <2>2, <1>1 DEF RequestState
  <2> QED
    BY <2>1, <2>2, <2>3, <1>5 DEF Move, Holds
<1>6. CASE ComputeFails(q)
  <2>1. requests'[q] = Waiting
        /\ \A p \in Request : p # q => requests'[p] = requests[p]
    BY <1>6, <1>3 DEF ComputeFails
  <2> QED
    BY <1>6, <2>1 DEF ComputeFails, Waiting, InFlight, Holds
<1> QED
  BY <1>4, <1>5, <1>6 DEF Progress

\* What a step of a request adds, to the cache or to what is about to be
\* cached, is no older than what its version held already.
LEMMA KeepsHolding ==
  ASSUME CacheTypeOK, NEW q \in Request, Progress(q),
         NEW v \in Nat, NEW n \in Nat, n <= revision, AllHold(v, n)
  PROVE  AllHold(v, n)'
<1>1. /\ \A p \in Request : p # q => requests'[p] = requests[p]
      /\ InFlight(q)' => requests'[q].version = requests[q].version
      /\ Holds(q)' => requests'[q].value = Computed(requests[q].scope)
  BY ProgressRequests
<1>2. ASSUME NEW e \in responses', e.version = v
      PROVE  e.value.rev >= n
  <2>1. CASE e \in responses
    BY <2>1, <1>2 DEF AllHold
  <2>2. CASE e \notin responses
    <3>1. Store(q)
      BY <2>2 DEF Progress, ReadHit, ReadMiss, Compute, ComputeFails, Bypass, Direct
    <3>2. e.version = requests[q].version /\ e.value = requests[q].value
          /\ Holds(q)
      BY <3>1, <2>2 DEF Store, Holds
    <3> QED
      BY <3>2, <1>2 DEF AllHold
  <2> QED
    BY <2>1, <2>2
<1>3. ASSUME NEW p \in Request, Holds(p)', requests'[p].version = v
      PROVE  requests'[p].value.rev >= n
  <2>1. CASE p # q
    BY <2>1, <1>1, <1>3 DEF Holds, AllHold
  <2>2. CASE p = q
    <3>1. requests'[q].value.rev = revision
      BY <2>2, <1>1, <1>3 DEF Computed
    <3> QED
      BY <3>1, <2>2, Numbers
  <2> QED
    BY <2>1, <2>2
<1> QED
  BY <1>2, <1>3 DEF AllHold

\* A request that is answered is given what it is owed.
LEMMA AnswerIsOwed ==
  ASSUME CacheInv, NEW q \in Request, Progress(q)
  PROVE  SeesSettledWrites'
<1> USE DEF CacheInv
<1>1. \A p \in Request : p # q => requests'[p] = requests[p]
  BY ProgressRequests
<1>2. requests[q] \in RequestState /\ DOMAIN requests = Request
  BY DEF CacheTypeOK
<1>3. ASSUME NEW value, Answer(q, value), value.rev >= requests[q].owed
      PROVE  requests'[q].value.rev >= requests'[q].owed
  <2>1. requests'[q] = [requests[q] EXCEPT !.step = "answered", !.value = value,
                                           !.version = 0]
    BY <1>3, <1>2 DEF Answer
  <2> QED
    BY <2>1, <1>2, <1>3 DEF RequestState
<1>4. CASE ReadHit(q)
  <2>1. PICK e \in Cached(q) : Answer(q, e.value)
    BY <1>4 DEF ReadHit
  <2>2. e.value.rev >= requests[q].owed
    BY <1>4, <2>1 DEF ReadHit, Cached, GivenHoldsOwed, InFlight, AllHold
  <2> QED
    BY <2>1, <2>2, <1>1, <1>3 DEF SeesSettledWrites, Answered
<1>5. CASE Store(q)
  <2>1. requests[q].value.rev >= requests[q].owed
    BY <1>5 DEF Store, GivenHoldsOwed, InFlight, AllHold, Holds
  <2> QED
    BY <1>5, <2>1, <1>1, <1>3 DEF Store, SeesSettledWrites, Answered
<1>6. CASE Direct(q)
  <2>1. Computed(requests[q].scope).rev = revision
    BY DEF Computed
  <2>2. revision >= requests[q].owed
    BY Numbers DEF SettledIsPast
  <2> QED
    BY <1>6, <2>1, <2>2, <1>1, <1>3 DEF Direct, SeesSettledWrites, Answered
<1>7. CASE ReadMiss(q) \/ Bypass(q) \/ Compute(q) \/ ComputeFails(q)
  <2>1. requests'[q].step # "answered"
    BY <1>7, <1>2 DEF ReadMiss, Bypass, Compute, ComputeFails, Move, Waiting, RequestState
  <2> QED
    BY <2>1, <1>1 DEF SeesSettledWrites, Answered
<1> QED
  BY <1>4, <1>5, <1>6, <1>7 DEF Progress

\* A step of a request preserves the invariant.
LEMMA ProgressInv ==
  ASSUME CacheInv, NEW q \in Request, Progress(q)
  PROVE  CacheInv'
<1> USE DEF CacheInv
<1>1. /\ UNCHANGED <<read, revision, version, writers, settled>>
      /\ \A p \in Request : p # q => requests'[p] = requests[p]
      /\ requests'[q].owed \in {0, requests[q].owed}
      /\ InFlight(q)' =>
           InFlight(q) /\ requests'[q].version = requests[q].version
             /\ requests'[q].owed = requests[q].owed
  BY ProgressRequests
<1>2. CacheTypeOK'
  BY ProgressType
<1>3. \A p \in Request :
        /\ requests'[p].owed <= settled
        /\ InFlight(p)' => InFlight(p) /\ requests'[p].version = requests[p].version
                             /\ requests'[p].owed = requests[p].owed
  BY <1>1, Numbers DEF SettledIsPast, InFlight
<1>4. VersionsPast'
  <2>1. \A e \in responses' : e.version <= version
    BY Numbers DEF Progress, ReadHit, ReadMiss, Compute, ComputeFails, Store, Bypass,
       Direct, Cached, VersionsPast, InFlight
  <2> QED
    BY <2>1, <1>1, <1>3 DEF VersionsPast
<1>5. SettledIsPast'
  BY <1>1, <1>3 DEF SettledIsPast
<1>6. CurrentHoldsSettled'
  <2>1. AllHold(version, settled)'
    <3>1. \A v, n \in Nat : n <= revision /\ AllHold(v, n) => AllHold(v, n)'
      BY KeepsHolding
    <3> QED
      BY <3>1, <1>1, Numbers DEF CurrentHoldsSettled, SettledIsPast, AllHold
  <2> QED
    BY <2>1 DEF CurrentHoldsSettled
<1>7. GivenHoldsOwed'
  <2> SUFFICES ASSUME NEW p \in Request, InFlight(p)'
               PROVE  AllHold(requests[p].version, requests[p].owed)'
    BY DEF GivenHoldsOwed
  <2>1. requests[p].owed <= revision
    BY Numbers DEF SettledIsPast
  <2>2. \A v, n \in Nat : n <= revision /\ AllHold(v, n) => AllHold(v, n)'
    BY KeepsHolding
  <2>3. AllHold(requests[p].version, requests[p].owed)
    BY <1>3 DEF GivenHoldsOwed
  <2> QED
    BY <2>1, <2>2, <2>3, <1>3, Numbers DEF AllHold
<1>8. AnnouncedIsHeld'
  <2> SUFFICES ASSUME NEW w \in Writer, writers[w].step = "committed",
                      writers[w].owes, writers[w].left = 0
               PROVE  AllHold(version, writers[w].rev)'
    BY <1>1 DEF AnnouncedIsHeld
  <2>1. AllHold(version, writers[w].rev) /\ writers[w].rev <= revision
    BY DEF AnnouncedIsHeld, SettledIsPast
  <2>2. \A v, n \in Nat : n <= revision /\ AllHold(v, n) => AllHold(v, n)'
    BY KeepsHolding
  <2> QED
    BY <2>1, <2>2, <1>1, Numbers DEF AllHold
<1>9. SeesSettledWrites'
  BY AnswerIsOwed
<1> QED
  BY <1>2, <1>4, <1>5, <1>6, <1>7, <1>8, <1>9

\* With the requests in place and the cache no larger, what holds goes on to.
LEMMA FewerHolding ==
  ASSUME NEW v, NEW n, responses' \subseteq responses, UNCHANGED requests, AllHold(v, n)
  PROVE  AllHold(v, n)'
<1> QED
  BY DEF AllHold, Holds

\* A request that begins is given the versions of now, which hold what is
\* settled.
LEMMA GetVersionsInv ==
  ASSUME CacheInv, NEW q \in Request, NEW s \in Scope, GetVersions(q, s)
  PROVE  CacheInv'
<1> USE DEF CacheInv
<1>1. CacheTypeOK'
  BY CacheStepType DEF CacheNext
<1>2. /\ UNCHANGED <<revision, version, responses, writers, settled>>
      /\ \A p \in Request : p # q => requests'[p] = requests[p]
      /\ requests'[q].version = version /\ requests'[q].owed = settled
      /\ requests'[q].step \in {"get", "direct"}
  BY DEF GetVersions, CacheTypeOK
<1>3. ASSUME NEW v, NEW n, AllHold(v, n) PROVE AllHold(v, n)'
  BY <1>2, <1>3 DEF AllHold, Holds
<1>4. VersionsPast'
  BY <1>2, Numbers DEF VersionsPast, InFlight
<1>5. SettledIsPast'
  BY <1>2, Numbers DEF SettledIsPast
<1>6. CurrentHoldsSettled'
  <2>1. AllHold(version, settled)'
    BY <1>3, <1>2 DEF CurrentHoldsSettled, AllHold
  <2> QED
    BY <2>1 DEF CurrentHoldsSettled
<1>7. GivenHoldsOwed'
  <2> SUFFICES ASSUME NEW p \in Request, InFlight(p)'
               PROVE  AllHold(requests[p].version, requests[p].owed)'
    BY DEF GivenHoldsOwed
  <2>1. CASE p = q
    BY <2>1, <1>2, <1>6 DEF CurrentHoldsSettled, AllHold
  <2>2. CASE p # q
    <3>1. AllHold(requests[p].version, requests[p].owed)
      BY <2>2, <1>2 DEF GivenHoldsOwed, InFlight
    <3> QED
      BY <3>1, <2>2, <1>2, <1>3 DEF AllHold
  <2> QED
    BY <2>1, <2>2
<1>8. AnnouncedIsHeld'
  BY <1>2, <1>3 DEF AnnouncedIsHeld, AllHold
<1>9. SeesSettledWrites'
  BY <1>2 DEF SeesSettledWrites, Answered
<1> QED
  BY <1>1, <1>4, <1>5, <1>6, <1>7, <1>8, <1>9

\* A commit that owes an announcement has an increment to make first.
LEMMA CommitInv ==
  ASSUME SilentIsComplete, CacheInv, NEW w \in Writer, NEW effect \in Effects[read],
         Commit(w, effect)
  PROVE  CacheInv'
<1> USE DEF CacheInv
<1>1. CacheTypeOK'
  BY CacheStepType DEF CacheNext
<1>2. /\ UNCHANGED <<version, responses, requests, settled>>
      /\ revision <= revision'
      /\ writers'[w].left = effect.increments /\ writers'[w].owes = effect.owes
      /\ writers'[w].rev = revision'
      /\ \A x \in Writer : x # w => writers'[x] = writers[x]
  BY Numbers DEF Commit, CacheTypeOK
<1>3. ~effect.owes \/ effect.increments # 0
  BY OwingIncrements DEF CacheTypeOK
<1>4. SettledIsPast'
  <2>1. settled' <= revision'
    BY <1>2, <1>1, Numbers DEF SettledIsPast, CacheTypeOK
  <2>2. \A x \in Writer : writers'[x].rev <= revision'
    BY <1>2, <1>1, Numbers DEF SettledIsPast, CacheTypeOK
  <2> QED
    BY <1>2, <2>1, <2>2 DEF SettledIsPast
<1>5. AnnouncedIsHeld'
  BY <1>2, <1>3 DEF AnnouncedIsHeld, AllHold, Holds
<1>6. VersionsPast' /\ SeesSettledWrites'
  BY <1>2 DEF VersionsPast, SeesSettledWrites, InFlight, Answered
<1>7. CurrentHoldsSettled' /\ GivenHoldsOwed'
  BY <1>2 DEF CurrentHoldsSettled, GivenHoldsOwed, AllHold, InFlight, Holds
<1> QED
  BY <1>1, <1>4, <1>5, <1>6, <1>7

\* An increment makes a version that nothing has yet.
LEMMA IncrementInv ==
  ASSUME CacheInv, NEW w \in Writer, Increment(w)
  PROVE  CacheInv'
<1> USE DEF CacheInv
<1>1. CacheTypeOK'
  BY CacheStepType DEF CacheNext
<1>2. /\ UNCHANGED <<revision, requests, settled>>
      /\ version' = version + 1
      /\ responses' \subseteq responses
  BY DEF Increment, Reachable
<1>3. writers[w] \in WriterState
  BY DEF CacheTypeOK
<1>4. \A x \in Writer : writers'[x].rev = writers[x].rev
  BY <1>3 DEF Increment, CacheTypeOK, WriterState
<1>5. \A n : AllHold(version, n)'
  BY <1>2, Numbers DEF AllHold, VersionsPast, InFlight, Holds
<1>6. VersionsPast'
  BY <1>2, Numbers DEF VersionsPast, InFlight
<1>7. SettledIsPast'
  BY <1>2, <1>4 DEF SettledIsPast
<1>8. CurrentHoldsSettled'
  BY <1>5 DEF CurrentHoldsSettled, AllHold
<1>9. GivenHoldsOwed'
  BY <1>2 DEF GivenHoldsOwed, AllHold, InFlight, Holds
<1>10. AnnouncedIsHeld'
  BY <1>5 DEF AnnouncedIsHeld, AllHold
<1>11. SeesSettledWrites'
  BY <1>2 DEF SeesSettledWrites, Answered
<1> QED
  BY <1>1, <1>6, <1>7, <1>8, <1>9, <1>10, <1>11

\* What a write settles, what is current holds already.
LEMMA ReturnInv ==
  ASSUME CacheInv, NEW w \in Writer, Return(w)
  PROVE  CacheInv'
<1> USE DEF CacheInv
<1>1. CacheTypeOK'
  BY CacheStepType DEF CacheNext
<1>2. UNCHANGED <<revision, version, responses, requests>>
  BY DEF Return
<1>3. writers[w] \in WriterState
  BY DEF CacheTypeOK
<1>4. /\ writers'[w].step = "returned" /\ writers'[w].rev = writers[w].rev
      /\ \A x \in Writer : x # w => writers'[x] = writers[x]
  BY <1>3 DEF Return, CacheTypeOK, WriterState
<1>5. settled <= settled' /\ settled' <= revision
  BY Numbers DEF Return, SettledIsPast
<1>6. AllHold(version, settled')
  BY DEF Return, AnnouncedIsHeld, CurrentHoldsSettled
<1>7. SettledIsPast'
  BY <1>1, <1>2, <1>4, <1>5, Numbers DEF SettledIsPast, CacheTypeOK
<1>8. CurrentHoldsSettled'
  BY <1>2, <1>6 DEF CurrentHoldsSettled, AllHold, Holds
<1>9. AnnouncedIsHeld'
  BY <1>2, <1>4 DEF AnnouncedIsHeld, AllHold, Holds
<1>10. VersionsPast' /\ SeesSettledWrites' /\ GivenHoldsOwed'
  BY <1>2 DEF VersionsPast, SeesSettledWrites, GivenHoldsOwed, AllHold,
     InFlight, Holds, Answered
<1> QED
  BY <1>1, <1>7, <1>8, <1>9, <1>10

\* A broken write settles nothing.
LEMMA BreakInv ==
  ASSUME CacheInv, NEW w \in Writer, Break(w)
  PROVE  CacheInv'
<1> USE DEF CacheInv
<1>1. CacheTypeOK'
  BY CacheStepType DEF CacheNext
<1>2. UNCHANGED <<revision, version, responses, requests, settled>>
  BY DEF Break
<1>3. writers[w] \in WriterState
  BY DEF CacheTypeOK
<1>4. /\ writers'[w].step = "broken" /\ writers'[w].rev = writers[w].rev
      /\ \A x \in Writer : x # w => writers'[x] = writers[x]
  BY <1>3 DEF Break, CacheTypeOK, WriterState
<1>5. SettledIsPast'
  BY <1>2, <1>4 DEF SettledIsPast
<1>6. AnnouncedIsHeld'
  BY <1>2, <1>4 DEF AnnouncedIsHeld, AllHold, Holds
<1>7. VersionsPast' /\ SeesSettledWrites' /\ GivenHoldsOwed' /\ CurrentHoldsSettled'
  BY <1>2 DEF VersionsPast, SeesSettledWrites, GivenHoldsOwed,
     CurrentHoldsSettled, AllHold, InFlight, Holds, Answered
<1> QED
  BY <1>1, <1>5, <1>6, <1>7

\* Expiry only takes away.
LEMMA ExpireInv ==
  ASSUME CacheInv, NEW e \in responses, ExpireResponse(e)
  PROVE  CacheInv'
<1> USE DEF CacheInv
<1>1. CacheTypeOK'
  BY CacheStepType DEF CacheNext
<1>2. UNCHANGED <<revision, version, requests, writers, settled>>
      /\ responses' \subseteq responses
  BY DEF ExpireResponse
<1>3. VersionsPast' /\ SettledIsPast' /\ SeesSettledWrites'
  BY <1>2 DEF VersionsPast, SettledIsPast, SeesSettledWrites, InFlight, Answered
<1>4. CurrentHoldsSettled' /\ GivenHoldsOwed' /\ AnnouncedIsHeld'
  BY <1>2 DEF CurrentHoldsSettled, GivenHoldsOwed, AnnouncedIsHeld, AllHold,
     InFlight, Holds
<1> QED
  BY <1>1, <1>3, <1>4

\* Every step preserves the invariant.
LEMMA CacheStepInv ==
  ASSUME SilentIsComplete, CacheInv, [CacheNext]_cacheVars
  PROVE  CacheInv'
<1>1. CASE UNCHANGED cacheVars
  BY <1>1, CacheStepType DEF cacheVars, CacheInv, VersionsPast, SettledIsPast, SeesSettledWrites,
     CurrentHoldsSettled, GivenHoldsOwed, AnnouncedIsHeld, AllHold, InFlight,
     Holds, Answered
<1> QED
  BY <1>1, GetVersionsInv, ProgressInv, CommitInv, IncrementInv, ReturnInv,
     BreakInv, ExpireInv DEF CacheNext

\* However requests, writes, expiries and failing commands interleave, and
\* whatever the routes are, provided a write announces a domain of each route
\* it changes (the pairs known not to excepted): a response holds every change
\* whose write had returned when its request began (jsonWithServerCache reads
\* the versions before anything else, invalidateServerCache follows the commit).
THEOREM ReadsYourWrites ==
  ASSUME SilentIsComplete
  PROVE  CacheSpec => []SeesSettledWrites
<1>1. CacheInv => SeesSettledWrites
  BY DEF CacheInv
<1> QED
  BY <1>1, CacheInitInv, CacheStepInv, PTL DEF CacheSpec

-----------------------------------------------------------------------------
(* Nobody is served another caller's response                              *)

\* What is cached, and about to be, is for the caller in its key.
Labelled ==
  read.scoped =>
    /\ \A e \in responses : e.value.for = e.vary
    /\ \A q \in Request :
         Holds(q) => requests[q].value.for = requests[q].scope

ScopeInv == CacheTypeOK /\ Labelled /\ OwnScope

\* A step of a request keeps the callers apart.
LEMMA ProgressScope ==
  ASSUME ScopedVaries, ScopeInv, NEW q \in Request, Progress(q)
  PROVE  Labelled' /\ OwnScope'
<1> USE DEF ScopeInv
<1>1. /\ UNCHANGED read
      /\ \A p \in Request : p # q => requests'[p] = requests[p]
  BY ProgressRequests
<1>2. requests[q] \in RequestState /\ DOMAIN requests = Request
  BY DEF CacheTypeOK
<1>3. SUFFICES ASSUME read.scoped = TRUE PROVE Labelled' /\ OwnScope'
  <2>1. CASE ~read.scoped
    BY <2>1, <1>1 DEF Labelled, OwnScope
  <2>2. CASE read.scoped
    <3>1. Labelled /\ OwnScope
      OBVIOUS
    <3> QED
      BY <2>2, <1>3
  <2> QED
    BY <2>1, <2>2
<1>4. \A s : Vary(s) = s
  BY <1>3 DEF Vary, ScopedVaries, CacheTypeOK
<1>5. \A s : Computed(s).for = s
  BY <1>3 DEF Computed
<1>6. ASSUME NEW value, Answer(q, value), value.for = requests[q].scope
      PROVE  /\ requests'[q].value.for = requests'[q].scope
             /\ ~Holds(q)'
  <2>1. requests'[q] = [requests[q] EXCEPT !.step = "answered", !.value = value,
                                           !.version = 0]
    BY <1>6, <1>2 DEF Answer
  <2> QED
    BY <2>1, <1>2, <1>6 DEF RequestState, Holds
<1>7. CASE ReadHit(q)
  <2>1. PICK e \in Cached(q) : Answer(q, e.value)
    BY <1>7 DEF ReadHit
  <2>2. e.value.for = requests[q].scope
    BY <2>1, <1>3, <1>4 DEF Cached, Labelled
  <2> QED
    BY <1>7, <2>1, <2>2, <1>1, <1>6 DEF ReadHit, Labelled, OwnScope, Answered, Holds
<1>8. CASE Store(q)
  <2>1. requests[q].value.for = requests[q].scope
    BY <1>8, <1>3 DEF Store, Labelled, Holds
  <2>2. \A e \in responses' : e.value.for = e.vary
    BY <1>8, <2>1, <1>3, <1>4 DEF Store, Labelled
  <2> QED
    BY <1>8, <2>1, <2>2, <1>1, <1>6 DEF Store, Labelled, OwnScope, Answered, Holds
<1>9. CASE Direct(q)
  BY <1>9, <1>1, <1>5, <1>6 DEF Direct, Labelled, OwnScope, Answered, Holds
<1>10. CASE Compute(q)
  <2>1. requests'[q] = [requests[q] EXCEPT !.step = "store",
                          !.value = Computed(requests[q].scope)]
    BY <1>10, <1>2 DEF Compute, Move
  <2>2. requests'[q].step = "store" /\ requests'[q].scope = requests[q].scope
        /\ requests'[q].value.for = requests[q].scope
    BY <2>1, <1>2, <1>5 DEF RequestState
  <2> QED
    BY <1>10, <2>2, <1>1 DEF Compute, Labelled, OwnScope, Answered, Holds
<1>11. CASE ReadMiss(q) \/ Bypass(q) \/ ComputeFails(q)
  <2>1. requests'[q].step \notin {"answered", "store"} /\ UNCHANGED responses
    BY <1>11, <1>2 DEF ReadMiss, Bypass, ComputeFails, Move, Waiting, RequestState
  <2> QED
    BY <2>1, <1>1 DEF Labelled, OwnScope, Answered, Holds
<1> QED
  BY <1>7, <1>8, <1>9, <1>10, <1>11 DEF Progress

\* Every step keeps the callers apart.
LEMMA StepScope ==
  ASSUME ScopedVaries, ScopeInv, [CacheNext]_cacheVars
  PROVE  ScopeInv'
<1>1. CacheTypeOK'
  BY CacheStepType DEF ScopeInv
<1>2. ASSUME NEW q \in Request, NEW s \in Scope, GetVersions(q, s)
      PROVE  Labelled' /\ OwnScope'
  <2>1. /\ UNCHANGED <<read, responses>>
        /\ \A p \in Request : p # q => requests'[p] = requests[p]
        /\ requests'[q].step \in {"get", "direct"}
    BY <1>2 DEF GetVersions, ScopeInv, CacheTypeOK
  <2> QED
    BY <2>1 DEF ScopeInv, Labelled, OwnScope, Answered, Holds
<1>3. ASSUME NEW q \in Request, Progress(q)
      PROVE  Labelled' /\ OwnScope'
  BY <1>3, ProgressScope
<1>4. responses' \subseteq responses /\ read' = read /\ requests' = requests
        => Labelled' /\ OwnScope'
  BY DEF ScopeInv, Labelled, OwnScope, Answered, Holds
<1>5. CASE \E w \in Writer : \E effect \in Effects[read] : Commit(w, effect)
  BY <1>5, <1>1, <1>4 DEF ScopeInv, Commit
<1>6. CASE \E w \in Writer : Increment(w) \/ Return(w) \/ Break(w)
  BY <1>6, <1>1, <1>4 DEF ScopeInv, Increment, Return, Break, Reachable
<1>7. CASE \E e \in responses : ExpireResponse(e)
  BY <1>7, <1>1, <1>4 DEF ScopeInv, ExpireResponse
<1>8. CASE UNCHANGED cacheVars
  BY <1>8, <1>1, <1>4 DEF ScopeInv, cacheVars
<1> QED
  BY <1>1, <1>2, <1>3, <1>5, <1>6, <1>7, <1>8 DEF CacheNext, ScopeInv

\* Provided every handler that filters by its caller puts the caller into the
\* key (varyByOwner): nobody is served a response computed for somebody else
\* (jsonWithServerCache, buildServerCacheKey).
THEOREM OwnScopeHolds ==
  ASSUME ScopedVaries
  PROVE  CacheSpec => []OwnScope
<1>1. CacheInit => ScopeInv
  <2> SUFFICES ASSUME CacheInit PROVE ScopeInv
    OBVIOUS
  <2>1. \A q \in Request : requests[q].step = "idle"
    BY DEF CacheInit, Waiting
  <2> QED
    BY <2>1, CacheInitType DEF CacheInit, ScopeInv, Labelled, OwnScope, Answered, Holds
<1>2. ScopeInv => OwnScope
  BY DEF ScopeInv
<1> QED
  BY <1>1, <1>2, StepScope, PTL DEF CacheSpec

=============================================================================
