------------------------------ MODULE Permissions ------------------------------
(***************************************************************************)
(* What users may do: roles with their permissions, users with their       *)
(* roles, and the three Redis entries of a user that remember the answer:  *)
(* whether they are administrator, what they may do (60 seconds each), and *)
(* both together for the tokens of a session (300 seconds).                *)
(*                                                                         *)
(* Setting the permissions of a role or the roles of a user announces it:  *)
(* the entries of everybody concerned are deleted, one after the other and *)
(* after the commit.  Deleting a role, and the start of the API, which     *)
(* puts the roles it knows in order, announce nothing.  That sessions are  *)
(* revoked as well is in AuthSessions.                                     *)
(***************************************************************************)
EXTENDS Naturals, FiniteSets

CONSTANTS Requests,         \* API requests; each is served once
          Users,
          Roles,
          Permissions,      \* with the administrator's among them
          Admin,            \* the role with that name
          AdminPermission,
          Template,         \* the predefined roles -> what they grant
          Started,          \* who holds which roles at first
          None,
          MaxOverlap,       \* bound: requests at work at once
          MaxFaults         \* bound: failed commands, lost requests and restarts

Keys == {"admin", "perms", "identity"}

ASSUME PermissionsAssumption ==
  /\ AdminPermission \in Permissions
  /\ Admin \in Roles /\ DOMAIN Template \subseteq Roles \ {Admin}
  /\ \A r \in DOMAIN Template : Template[r] \subseteq Permissions \ {AdminPermission}
  /\ Started \in [Users -> SUBSET Roles]
  /\ None \notin Users \cup Roles \cup Keys
  /\ \A answer \in SUBSET Permissions : answer # None
  /\ MaxOverlap \in Nat /\ MaxFaults \in Nat

VARIABLES live,      \* the roles there are
          grants,    \* role -> its permissions
          holders,   \* user -> their roles
          cache,     \* user -> key -> a set of permissions, or None
          step,      \* what each request does next
          task,      \* what each request holds in memory
          boot,      \* how far the start of the API is
          faults,
          excused    \* history: <<user, key>> that something left behind

vars == <<live, grants, holders, cache, step, task, boot, faults, excused>>
tables == <<live, grants, holders>>

Rights(u) == UNION {grants[r] : r \in holders[u]}
IsAdminUser(u) == AdminPermission \in Rights(u)
Administrators == {u \in Users : IsAdminUser(u)}

\* What an entry should say.
Truth(u, k) ==
  CASE k = "admin" -> Rights(u) \cap {AdminPermission}
    [] k = "perms" -> Rights(u) \ {AdminPermission}
    [] k = "identity" -> Rights(u)

Blank == [user |-> None, kind |-> None, key |-> None, value |-> {}, got |-> {},
          role |-> None, chosen |-> {}, left |-> {}]

Up == boot = "up"
Busy == {p \in Requests : step[p] \notin {"idle", "done"}}
Begin(p) == Up /\ step[p] = "idle" /\ Cardinality(Busy) < MaxOverlap
Go(p, s, t) == step' = [step EXCEPT ![p] = s] /\ task' = [task EXCEPT ![p] = t]
Rest(p) == Go(p, "done", Blank)

-----------------------------------------------------------------------------
(* Asking                                                                  *)

\* A permission is checked, somebody signs in, or a session is refreshed.
BeginRead(p, u, kind) ==
  /\ Begin(p)
  /\ Go(p, "look", [Blank EXCEPT !.user = u, !.kind = kind,
                     !.key = IF kind = "refresh" THEN "identity" ELSE "admin"])
  /\ UNCHANGED <<tables, cache, boot, faults, excused>>

\* An administrator passes any check, and keeps their roles; the token of a
\* refreshed session is made of both answers, which are then remembered together.
Take(p, k, value) ==
  LET t == task[p]
      enough == \/ k = "identity"
                \/ k = "admin" /\ value # {} /\ t.kind \in {"check", "assign"}
                \/ k = "perms" /\ t.kind # "refresh"
  IN  \/ enough /\ Rest(p)
      \/ /\ ~enough /\ k = "admin" /\ t.kind = "assign"
         /\ Go(p, "vet", [t EXCEPT !.key = None, !.value = {}])
      \/ /\ ~enough /\ k = "admin" /\ t.kind # "assign"
         /\ Go(p, "look", [t EXCEPT !.key = "perms", !.got = value, !.value = {}])
      \/ /\ ~enough /\ k = "perms"
         /\ Go(p, "fill", [t EXCEPT !.key = "identity", !.value = t.got \cup value])

\* The entry answers.
Hit(p) ==
  LET u == task[p].user
      k == task[p].key
  IN  /\ step[p] = "look"
      /\ cache[u][k] # None
      /\ Take(p, k, cache[u][k])
      /\ UNCHANGED <<tables, cache, boot, faults, excused>>

\* There was no entry, or it could not be read: the database answers.
Miss(p) ==
  LET t == task[p]
  IN  /\ step[p] = "look"
      /\ IF t.key = "identity"
         THEN Go(p, "look", [t EXCEPT !.key = "admin"])
         ELSE Go(p, "fill", [t EXCEPT !.value = Truth(t.user, t.key)])
      /\ UNCHANGED <<tables, cache, boot, faults, excused>>

\* The answer is remembered, if that succeeds; what was read before a change and is
\* written after it leaves the entry behind.
Fill(p) ==
  LET t == task[p]
      entry == <<t.user, t.key>>
  IN  /\ step[p] = "fill"
      /\ \/ /\ cache' = [cache EXCEPT ![t.user][t.key] = t.value]
            /\ excused' = IF t.value = Truth(t.user, t.key) THEN excused \ {entry}
                          ELSE excused \cup {entry}
            /\ UNCHANGED faults
         \/ /\ faults < MaxFaults /\ faults' = faults + 1
            /\ UNCHANGED <<cache, excused>>
      /\ Take(p, t.key, t.value)
      /\ UNCHANGED <<tables, boot>>

\* The time of an entry is over.
Expire(u, k) ==
  /\ cache[u][k] # None
  /\ cache' = [cache EXCEPT ![u][k] = None]
  /\ excused' = excused \ {<<u, k>>}
  /\ UNCHANGED <<tables, step, task, boot, faults>>

-----------------------------------------------------------------------------
(* Changing                                                                *)

\* PUT /roles/:id/permissions: any role, and any permissions but the administrator's.
BeginSetRolePermissions(p, r, chosen) ==
  /\ Begin(p)
  /\ r \in live
  /\ AdminPermission \notin chosen
  /\ Go(p, "grant", [Blank EXCEPT !.role = r, !.chosen = chosen])
  /\ UNCHANGED <<tables, cache, boot, faults, excused>>

\* One transaction; a role that is gone takes no permissions.
Grant(p) ==
  LET t == task[p]
  IN  /\ step[p] = "grant"
      /\ IF t.role \in live
         THEN /\ grants' = [grants EXCEPT ![t.role] = t.chosen]
              /\ Go(p, "list", [Blank EXCEPT !.role = t.role])
         ELSE Rest(p) /\ UNCHANGED grants
      /\ UNCHANGED <<live, holders, cache, boot, faults, excused>>

\* Mutant: nobody is told.
ListHolders_Nobody(p) ==
  /\ step[p] = "list"
  /\ Go(p, "announce", Blank)
  /\ UNCHANGED <<tables, cache, boot, faults, excused>>

\* Whom it concerns: those who hold the role by now.
ListHolders(p) ==
  LET concerned == {u \in Users : task[p].role \in holders[u]}
  IN  /\ step[p] = "list"
      /\ Go(p, "announce", [Blank EXCEPT !.left = concerned \X {"authorization"}])
      /\ UNCHANGED <<tables, cache, boot, faults, excused>>

\* PUT /users/:id/roles: whether the user is administrator is looked up first, as for
\* any check; then what the roles grant, which must not be the administrator's.
BeginSetUserRoles(p, u, chosen) ==
  /\ Begin(p)
  /\ Go(p, "look", [Blank EXCEPT !.user = u, !.kind = "assign", !.key = "admin",
                                 !.chosen = chosen])
  /\ UNCHANGED <<tables, cache, boot, faults, excused>>

\* Mutant: any role can be given to anybody.
Vet_Nothing(p) ==
  /\ step[p] = "vet"
  /\ Go(p, "hold", task[p])
  /\ UNCHANGED <<tables, cache, boot, faults, excused>>

Vet(p) ==
  /\ step[p] = "vet"
  /\ IF \E r \in task[p].chosen : AdminPermission \in grants[r]
     THEN Rest(p)
     ELSE Go(p, "hold", task[p])
  /\ UNCHANGED <<tables, cache, boot, faults, excused>>

\* One transaction; a role that is gone cannot be held.
Hold(p) ==
  LET t == task[p]
  IN  /\ step[p] = "hold"
      /\ IF t.chosen \subseteq live
         THEN /\ holders' = [holders EXCEPT ![t.user] = t.chosen]
              /\ Go(p, "announce", [Blank EXCEPT !.left = {<<t.user, "authorization">>}])
         ELSE Rest(p) /\ UNCHANGED holders
      /\ UNCHANGED <<live, grants, cache, boot, faults, excused>>

Cleared(stage) == IF stage = "authorization" THEN {"admin", "perms"} ELSE {"identity"}

\* The next of somebody's entries are deleted; when that fails it is logged, and the
\* rest goes on.
Announce(p) ==
  /\ step[p] = "announce"
  /\ \E x \in task[p].left :
       LET u == x[1]
           gone == {u} \X Cleared(x[2])
           next == IF x[2] = "authorization" THEN {<<u, "identity">>} ELSE {}
       IN  /\ task' = [task EXCEPT ![p].left = (@ \ {x}) \cup next]
           /\ \/ /\ cache' = [cache EXCEPT ![u] = [k \in Keys |->
                      IF k \in Cleared(x[2]) THEN None ELSE cache[u][k]]]
                 /\ excused' = excused \ gone
                 /\ UNCHANGED faults
              \/ /\ faults < MaxFaults /\ faults' = faults + 1
                 /\ excused' = excused \cup gone
                 /\ UNCHANGED cache
  /\ UNCHANGED <<tables, step, boot>>

EndAnnounce(p) ==
  /\ step[p] = "announce" /\ task[p].left = {}
  /\ Rest(p)
  /\ UNCHANGED <<tables, cache, boot, faults, excused>>

\* DELETE /roles/:id: not the administrator's; who held it does not any more, and
\* nobody is told.
DeleteRole(p, r) ==
  /\ Begin(p)
  /\ r \in live \ {Admin}
  /\ live' = live \ {r}
  /\ grants' = [grants EXCEPT ![r] = {}]
  /\ holders' = [u \in Users |-> holders[u] \ {r}]
  /\ excused' = excused \cup {u \in Users : r \in holders[u]} \X Keys
  /\ Rest(p)
  /\ UNCHANGED <<cache, boot, faults>>

\* POST /roles: a role that grants nothing.
CreateRole(p, r) ==
  /\ Begin(p)
  /\ r \notin live
  /\ live' = live \cup {r}
  /\ Rest(p)
  /\ UNCHANGED <<grants, holders, cache, boot, faults, excused>>

-----------------------------------------------------------------------------
(* The start of the API                                                    *)

\* Whose entries a request was still to delete.
Owed(p) ==
  CASE step[p] = "list" -> {u \in Users : task[p].role \in holders[u]} \X Keys
    [] step[p] = "announce" -> UNION {
         {x[1]} \X (IF x[2] = "identity" THEN {"identity"} ELSE Keys) : x \in task[p].left}
    [] OTHER -> {}

\* The process stops, with all its requests, and starts again.
Restart ==
  /\ faults < MaxFaults /\ faults' = faults + 1
  /\ boot' = "admin"
  /\ step' = [p \in Requests |-> IF p \in Busy THEN "done" ELSE step[p]]
  /\ task' = [p \in Requests |-> Blank]
  /\ excused' = excused \cup UNION {Owed(p) : p \in Requests}
  /\ UNCHANGED <<tables, cache>>

\* What a role grants is put in order, and nobody is told.
Reconcile(r, permissions) ==
  /\ live' = live \cup {r}
  /\ grants' = [grants EXCEPT ![r] = permissions]
  /\ excused' = IF grants[r] = permissions THEN excused
                ELSE excused \cup {u \in Users : r \in holders[u]} \X Keys

\* The Admin role grants the administrator's permission and nothing else.
SyncAdminRole ==
  /\ boot = "admin" /\ boot' = "purge"
  /\ Reconcile(Admin, {AdminPermission})
  /\ UNCHANGED <<holders, cache, step, task, faults>>

\* Mutant: whoever has the role keeps it.
PurgeAdmins_None ==
  /\ boot = "purge" /\ boot' = "templates"
  /\ UNCHANGED <<tables, cache, step, task, faults, excused>>

\* The first who has the role keeps it, the others lose it.  When nobody has it the
\* configured account is made again; here it is there, and the start does not go on.
PurgeAdmins ==
  LET having == {u \in Users : Admin \in holders[u]}
  IN  /\ boot = "purge" /\ boot' = "templates"
      /\ \E first \in having :
           /\ holders' = [u \in Users |-> IF u \in having \ {first} THEN holders[u] \ {Admin}
                                         ELSE holders[u]]
           /\ excused' = excused \cup (having \ {first}) \X Keys
      /\ UNCHANGED <<live, grants, cache, step, task, faults>>

Disordered == {r \in DOMAIN Template : r \notin live \/ grants[r] # Template[r]}

SyncTemplates ==
  /\ boot = "templates"
  /\ IF Disordered = {}
     THEN boot' = "up" /\ UNCHANGED <<live, grants, excused>>
     ELSE UNCHANGED boot /\ \E r \in Disordered : Reconcile(r, Template[r])
  /\ UNCHANGED <<holders, cache, step, task, faults>>

-----------------------------------------------------------------------------
Init ==
  /\ live = {Admin} \cup DOMAIN Template \cup UNION {Started[u] : u \in Users}
  /\ grants = [r \in Roles |-> IF r = Admin THEN {AdminPermission}
                               ELSE IF r \in DOMAIN Template THEN Template[r] ELSE {}]
  /\ holders = Started
  /\ cache = [u \in Users |-> [k \in Keys |-> None]]
  /\ step = [p \in Requests |-> "idle"] /\ task = [p \in Requests |-> Blank]
  /\ boot = "up" /\ faults = 0 /\ excused = {}

Ask(p) ==
  \/ \E u \in Users :
       \/ \E kind \in {"check", "signin", "refresh"} : BeginRead(p, u, kind)
       \/ \E chosen \in SUBSET Roles : BeginSetUserRoles(p, u, chosen)
  \/ \E r \in Roles :
       \/ \E chosen \in SUBSET Permissions : BeginSetRolePermissions(p, r, chosen)
       \/ DeleteRole(p, r) \/ CreateRole(p, r)

Serve(p) ==
  \/ Hit(p) \/ Miss(p) \/ Fill(p)
  \/ Grant(p) \/ ListHolders(p) \/ Vet(p) \/ Hold(p)
  \/ Announce(p) \/ EndAnnounce(p)

Start == SyncAdminRole \/ PurgeAdmins \/ SyncTemplates

Next ==
  \/ \E p \in Requests : Ask(p) \/ Serve(p)
  \/ \E u \in Users, k \in Keys : Expire(u, k)
  \/ Restart
  \/ Start

Spec == Init /\ [][Next]_vars

-----------------------------------------------------------------------------
(* Properties                                                              *)

\* Only roles that are there are held and grant anything, and only the Admin role
\* grants the administrator's permission.
TypeOK ==
  /\ live \subseteq Roles /\ Admin \in live
  /\ grants \in [Roles -> SUBSET Permissions]
  /\ holders \in [Users -> SUBSET live]
  /\ \A u \in Users, k \in Keys : cache[u][k] = None \/ cache[u][k] \subseteq Permissions
  /\ \A r \in Roles : grants[r] # {} => r \in live
  /\ \A r \in Roles \ {Admin} : AdminPermission \notin grants[r]
  /\ excused \subseteq Users \X Keys

\* An entry says what the tables say, unless the change is still being announced,
\* the announcement failed, the entry was written from an older reading, or the
\* change was one that announces nothing (CachedAuthorizationRepository,
\* RedisAuthIdentityCache, invalidateUserPermissions).
BehindOnlyWhenExcused ==
  \A u \in Users, k \in Keys :
    cache[u][k] \in {None, Truth(u, k)} \/ <<u, k>> \in excused
      \/ \E p \in Requests : <<u, k>> \in Owed(p)

\* While the API serves there is at most one administrator, even when the Admin role
\* was emptied, given to others and put in order again (ensureAdminUser).
OneAdministrator == Up => Cardinality(Administrators) <= 1

\* Nobody becomes administrator but by a start of the API (SetUserRolesUseCase,
\* SetRolePermissionsUseCase).
NobodyIsMadeAdministrator ==
  [][boot' = boot => Administrators' \subseteq Administrators]_vars

=============================================================================
