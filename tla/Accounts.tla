------------------------------- MODULE Accounts -------------------------------
(***************************************************************************)
(* The accounts: rows of users, their passwords and invitations, under     *)
(* requests that create, invite, accept, edit, ban and delete, under the   *)
(* start of the API, which makes the administrator and imports the people  *)
(* of the HTSHADOW file, and under the watcher that follows that file.     *)
(*                                                                         *)
(* A person of HTSHADOW has an account without an invitation and without a *)
(* password of its own.  A request reads, decides and writes with no lock  *)
(* between: every await another process can come between ends a step.      *)
(* Sessions are in AuthSessions, what a user owns in Playlists, Schedules  *)
(* and ContentFiles: here only whether there is anything.  Roles other     *)
(* than the administrator's are in Permissions.                            *)
(***************************************************************************)
EXTENDS Naturals, FiniteSets

CONSTANTS Requests,        \* API requests; each is served once
          Names,           \* usernames
          AdminName,       \* the administrator's, of the environment
          Shadow,          \* those that may be in the HTSHADOW file
          Emails,
          Earlier,         \* those one of whom an invitation may have made an account
                           \* for, with its password or cut short before it
          None,
          MaxUsers,        \* bound: accounts ever made
          MaxInvitations,  \* bound: invitations ever made
          MaxOverlap,      \* bound: requests at work at once
          MaxEdits,        \* bound: changes of the file
          MaxFaults        \* bound: failed statements and crashes

Users == 1..MaxUsers
Invitations == 1..MaxInvitations

Row == [name : Names, email : Emails \cup {None}, invited : BOOLEAN,
        active : BOOLEAN, banned : BOOLEAN]
Invitation == [email : Emails, by : Users, accepted : BOOLEAN, revoked : BOOLEAN,
               expired : BOOLEAN, account : Users \cup {None}]

ASSUME AccountsAssumption ==
  /\ AdminName \in Names /\ Shadow \subseteq Names \ {AdminName}
  /\ Earlier \subseteq Names \ {AdminName}
  /\ None \notin Names \cup Emails \cup Users \cup Row \cup Invitation
  /\ MaxUsers \in Nat \ {0} /\ MaxInvitations \in Nat
  /\ MaxOverlap \in Nat /\ MaxEdits \in Nat /\ MaxFaults \in Nat

VARIABLES users,        \* user -> row, or None
          madeUsers,    \* how many accounts were ever made
          admins,       \* who has the Admin role
          passwords,    \* who has a password here
          owners,       \* who owns contents, playlists or schedules
          invitations,  \* invitation -> row, or None
          madeInvitations,
          step,         \* what each request does next
          task,         \* what each request holds in memory
          boot,         \* the start of the API
          file,         \* the names in the HTSHADOW file
          watch,        \* the watcher of that file
          edits,        \* changes of the file so far
          faults        \* failed statements and crashes so far

\* History: whom the last decision on it barred; rows read and since written by
\* another; accounts whose row a request wrote from an old reading; accounts
\* renamed; addresses invited by two requests at once; a name of the file that
\* no pass of the watcher is going to see to.
VARIABLES barred, stale, overwritten, renamed, crowded, missed

rows == <<users, madeUsers, admins, passwords, owners, invitations, madeInvitations>>
past == <<barred, stale, overwritten, renamed, crowded, missed>>
vars == <<rows, step, task, boot, file, watch, edits, faults, past>>

Blank == [user |-> None, name |-> None, email |-> None, change |-> None,
          row |-> None, invitation |-> None]   \* a task that holds nothing

\* The watcher when it is not running.
Off == [step |-> "off", seen |-> {}, names |-> {}, wildfire |-> {}, add |-> {}, drop |-> {}]

There(u) == users[u] # None
Present == {u \in Users : There(u)}
Taken == {users[u].name : u \in Present}
Reachable == {users[u].email : u \in Present} \ {None}
IsDcismUser(u) == ~users[u].invited /\ u \notin admins

Up == boot.step = "up"
Busy == {p \in Requests : step[p] \notin {"idle", "done"}}
Begin(p) == Up /\ step[p] = "idle" /\ Cardinality(Busy) < MaxOverlap
Go(p, s, t) == step' = [step EXCEPT ![p] = s] /\ task' = [task EXCEPT ![p] = t]
Rest(p) == Go(p, "done", Blank)

\* What no action of a request touches.
Elsewhere == <<boot, file, watch, edits>>

-----------------------------------------------------------------------------
(* Making and removing an account                                          *)

\* The unique indexes on username and email.
Free(name, email) == name \notin Taken /\ email \notin Reachable

Register(name, email, invited) ==
  /\ madeUsers < MaxUsers
  /\ madeUsers' = madeUsers + 1
  /\ users' = [users EXCEPT ![madeUsers + 1] =
       [name |-> name, email |-> email, invited |-> invited,
        active |-> TRUE, banned |-> FALSE]]

\* Mutant: invitations do not refer to who sent them.
Referred_Owners(u) == u \in owners

\* Rows that refer to a user are deleted with it, or refuse the deletion.
Referred(u) ==
  \/ u \in owners
  \/ \E i \in Invitations : invitations[i] # None /\ invitations[i].by = u

Remove(u) ==
  /\ users' = [users EXCEPT ![u] = None]
  /\ admins' = admins \ {u}
  /\ passwords' = passwords \ {u}
  /\ barred' = barred \ {u}
  /\ overwritten' = overwritten \ {u}
  /\ renamed' = renamed \ {u}

\* A name of the file that no account has any more.
GivenUp(name) == missed' = (missed \/ name \in file \cup watch.seen)

\* POST /users: look for the name and the address, then insert.
BeginCreate(p, name, email) ==
  /\ Begin(p)
  /\ Free(name, email)
  /\ Go(p, "create", [Blank EXCEPT !.name = name, !.email = email])
  /\ UNCHANGED <<rows, Elsewhere, faults, past>>

Create(p) ==
  /\ step[p] = "create"
  /\ IF Free(task[p].name, task[p].email)
     THEN Register(task[p].name, task[p].email, FALSE)
     ELSE UNCHANGED <<users, madeUsers>>
  /\ Rest(p)
  /\ UNCHANGED <<admins, passwords, owners, invitations, madeInvitations,
                 Elsewhere, faults, past>>

-----------------------------------------------------------------------------
(* Changing an account: the row is read, and then written as a whole       *)

BeginChange(p, u, change, value) ==
  Go(p, "load", [Blank EXCEPT !.user = u, !.change = change,
                              !.name = IF change = "rename" THEN value ELSE None,
                              !.email = IF change = "address" THEN value ELSE None])

\* PATCH /users/:id.  The administrator's account only the administrator may
\* edit, who changes neither name nor state; nor does anybody change the name or
\* the address of somebody whom HTSHADOW names.
UpdateUser(p, u, change, value) ==
  /\ Begin(p)
  /\ There(u)
  /\ \/ change = "rename" /\ value \notin Taken /\ u \notin admins /\ ~IsDcismUser(u)
     \/ change = "address" /\ value \notin Reachable /\ ~IsDcismUser(u)
     \/ change \in {"activate", "deactivate"} /\ value = None /\ u \notin admins
  /\ BeginChange(p, u, change, value)
  /\ UNCHANGED <<rows, Elsewhere, faults, past>>

\* A session is refreshed: the row says that the user may go on, and is told
\* when they were seen.
RefreshSession(p, u) ==
  /\ Begin(p)
  /\ There(u)
  /\ users[u].active /\ ~users[u].banned
  /\ BeginChange(p, u, "seen", None)
  /\ UNCHANGED <<rows, Elsewhere, faults, past>>

\* Profile and avatar: an access token is good for its time, whatever became of
\* the account.
UpdateProfile(p, u, change, value) ==
  /\ Begin(p)
  /\ There(u)
  /\ \/ change = "seen" /\ value = None
     \/ change = "address" /\ value \notin Reachable /\ ~IsDcismUser(u)
  /\ BeginChange(p, u, change, value)
  /\ UNCHANGED <<rows, Elsewhere, faults, past>>

\* PUT /users/:id/status, by the administrator and not about themselves: what the
\* user owns goes first.
BeginBan(p, u) ==
  /\ Begin(p)
  /\ admins # {} /\ u \notin admins
  /\ There(u)
  /\ Go(p, "clean", [Blank EXCEPT !.user = u, !.change = "ban"])
  /\ UNCHANGED <<rows, Elsewhere, faults, past>>

BeginUnban(p, u) ==
  /\ Begin(p)
  /\ admins # {}
  /\ There(u)
  /\ BeginChange(p, u, "unban", None)
  /\ UNCHANGED <<rows, Elsewhere, faults, past>>

\* Refused when another user depends on it, or cut short by what refuses.
CleanUp(p) ==
  /\ step[p] = "clean"
  /\ \/ /\ owners' = owners \ {task[p].user}
        /\ Go(p, IF task[p].change = "ban" THEN "load" ELSE "delete", task[p])
     \/ /\ task[p].user \in owners
        /\ Rest(p)
        /\ UNCHANGED owners
  /\ UNCHANGED <<users, madeUsers, admins, passwords, invitations, madeInvitations,
                 Elsewhere, faults, past>>

Load(p) ==
  /\ step[p] = "load"
  /\ IF There(task[p].user)
     THEN Go(p, "save", [task[p] EXCEPT !.row = users[task[p].user]])
     ELSE Rest(p)
  /\ stale' = stale \ {p}
  /\ UNCHANGED <<rows, Elsewhere, faults, barred, overwritten, renamed, crowded, missed>>

\* Mutant: what an update does not mention is not banned.
Changed_Unbanning(row, change, name, email) ==
  [row EXCEPT !.name = IF change = "rename" THEN name ELSE row.name,
              !.email = IF change = "address" THEN email ELSE row.email,
              !.banned = (change = "ban"),
              !.active = CASE change \in {"activate", "unban"} -> TRUE
                           [] change \in {"deactivate", "ban"} -> FALSE
                           [] OTHER -> row.active]

Changed(row, change, name, email) ==
  [row EXCEPT !.name = IF change = "rename" THEN name ELSE row.name,
              !.email = IF change = "address" THEN email ELSE row.email,
              !.banned = CASE change = "ban" -> TRUE
                           [] change = "unban" -> FALSE
                           [] OTHER -> row.banned,
              !.active = CASE change \in {"activate", "unban"} -> TRUE
                           [] change \in {"deactivate", "ban"} -> FALSE
                           [] OTHER -> row.active]

\* The history of a row that was written.
Written(p, u) ==
  LET t == task[p]
      decides == t.change \in {"ban", "unban"}
  IN  /\ stale' = (stale \ {p}) \cup
           {q \in Requests \ {p} : step[q] = "save" /\ task[q].user = u}
      /\ barred' = CASE t.change = "ban" -> barred \cup {u}
                     [] t.change = "unban" -> barred \ {u}
                     [] OTHER -> barred
      /\ overwritten' = CASE decides -> overwritten \ {u}
                          [] ~decides /\ p \in stale -> overwritten \cup {u}
                          [] OTHER -> overwritten
      /\ renamed' = IF users'[u].name = users[u].name THEN renamed ELSE renamed \cup {u}
      /\ IF users'[u].name = users[u].name THEN UNCHANGED missed ELSE GivenUp(users[u].name)
      /\ UNCHANGED crowded

Save(p) ==
  LET u == task[p].user
      row == Changed(task[p].row, task[p].change, task[p].name, task[p].email)
      clash == \E x \in Present \ {u} :
                 users[x].name = row.name \/ row.email \in {users[x].email} \ {None}
  IN  /\ step[p] = "save"
      /\ IF There(u) /\ ~clash
         THEN /\ users' = [users EXCEPT ![u] = row]
              /\ Written(p, u)
         ELSE UNCHANGED <<users, past>>
      /\ Rest(p)
      /\ UNCHANGED <<madeUsers, admins, passwords, owners, invitations,
                     madeInvitations, Elsewhere, faults>>

-----------------------------------------------------------------------------
(* Deleting an account                                                     *)

\* DELETE /users/:id: neither an administrator's nor one of HTSHADOW.
BeginDelete(p, u) ==
  /\ Begin(p)
  /\ There(u)
  /\ u \notin admins /\ ~IsDcismUser(u)
  /\ Go(p, "clean", [Blank EXCEPT !.user = u])
  /\ UNCHANGED <<rows, Elsewhere, faults, past>>

\* DELETE /auth/profile: one's own, at once.
BeginDeleteOwn(p, u) ==
  /\ Begin(p)
  /\ There(u)
  /\ ~IsDcismUser(u)
  /\ Go(p, "delete", [Blank EXCEPT !.user = u])
  /\ UNCHANGED <<rows, Elsewhere, faults, past>>

Delete(p) ==
  LET u == task[p].user
  IN  /\ step[p] = "delete"
      /\ IF There(u) /\ ~Referred(u)
         THEN Remove(u) /\ GivenUp(users[u].name)
         ELSE UNCHANGED <<users, admins, passwords, past>>
      /\ Rest(p)
      /\ UNCHANGED <<madeUsers, owners, invitations, madeInvitations, Elsewhere,
                     faults, stale, crowded>>

\* An account that can sign in comes to own something.
Own(u) ==
  /\ Up /\ There(u) /\ u \notin owners
  /\ u \in passwords \/ IsDcismUser(u)
  /\ owners' = owners \cup {u}
  /\ UNCHANGED <<users, madeUsers, admins, passwords, invitations, madeInvitations,
                 step, task, Elsewhere, faults, past>>

-----------------------------------------------------------------------------
(* Invitations                                                             *)

Open(i) ==
  /\ invitations[i] # None
  /\ ~invitations[i].accepted /\ ~invitations[i].revoked /\ ~invitations[i].expired

\* POST /auth/invitations: nobody may have the address; then the expired ones go,
\* the open ones of the address are revoked, and the new one is inserted.
BeginInvite(p, by, email) ==
  /\ Begin(p)
  /\ There(by)
  /\ email \notin Reachable
  /\ Go(p, "clear", [Blank EXCEPT !.user = by, !.email = email])
  /\ UNCHANGED <<rows, Elsewhere, faults, past>>

\* POST /auth/invitations/:id/resend: the same for the address of that one, in
\* whatever state it is.
ResendInvitation(p, by, i) ==
  /\ invitations[i] # None
  /\ BeginInvite(p, by, invitations[i].email)

\* Mutant: the open invitations of the address stay open.
Cleared_Kept(email) ==
  [i \in Invitations |->
     IF invitations[i] # None /\ invitations[i].expired THEN None ELSE invitations[i]]

Cleared(email) ==
  [i \in Invitations |->
     CASE invitations[i] # None /\ invitations[i].expired -> None
       [] Open(i) /\ invitations[i].email = email -> [invitations[i] EXCEPT !.revoked = TRUE]
       [] OTHER -> invitations[i]]

ClearInvitations(p) ==
  /\ step[p] = "clear"
  /\ invitations' = Cleared(task[p].email)
  /\ Go(p, "insert", task[p])
  /\ UNCHANGED <<users, madeUsers, admins, passwords, owners, madeInvitations,
                 Elsewhere, faults, past>>

InsertInvitation(p) ==
  LET t == task[p]
      alike == {q \in Requests \ {p} : step[q] = "insert" /\ task[q].email = t.email}
  IN  /\ step[p] = "insert"
      /\ IF There(t.user)
         THEN /\ madeInvitations < MaxInvitations
              /\ madeInvitations' = madeInvitations + 1
              /\ invitations' = [invitations EXCEPT ![madeInvitations + 1] =
                   [email |-> t.email, by |-> t.user, accepted |-> FALSE, revoked |-> FALSE,
                    expired |-> FALSE, account |-> None]]
              /\ crowded' = IF alike = {} THEN crowded ELSE crowded \cup {t.email}
         ELSE UNCHANGED <<invitations, madeInvitations, crowded>>
      /\ Rest(p)
      /\ UNCHANGED <<users, madeUsers, admins, passwords, owners, Elsewhere, faults,
                     barred, stale, overwritten, renamed, missed>>

\* DELETE /auth/invitations/:id.
DeleteInvitation(p, i) ==
  /\ Begin(p)
  /\ invitations[i] # None
  /\ invitations' = [invitations EXCEPT ![i] = None]
  /\ Rest(p)
  /\ UNCHANGED <<users, madeUsers, admins, passwords, owners, madeInvitations,
                 Elsewhere, faults, past>>

\* The clock passes an invitation's end.
Expire(i) ==
  /\ invitations[i] # None /\ ~invitations[i].expired
  /\ invitations' = [invitations EXCEPT ![i].expired = TRUE]
  /\ UNCHANGED <<users, madeUsers, admins, passwords, owners, madeInvitations,
                 step, task, Elsewhere, faults, past>>

\* POST /auth/invitations/accept: the account, then its password, then the mark.
BeginAccept(p, i, name) ==
  /\ Begin(p)
  /\ Open(i)
  /\ Free(name, invitations[i].email)
  /\ Go(p, "enroll", [Blank EXCEPT !.invitation = i, !.name = name,
                                   !.email = invitations[i].email])
  /\ UNCHANGED <<rows, Elsewhere, faults, past>>

\* Mutant: the invitation is marked before the password is set.
Enroll_Marking(p) ==
  LET t == task[p]
      u == madeUsers + 1
  IN  /\ step[p] = "enroll"
      /\ IF Free(t.name, t.email)
         THEN /\ Register(t.name, t.email, TRUE)
              /\ Go(p, "password", [t EXCEPT !.user = u])
              /\ invitations' = IF invitations[t.invitation] = None THEN invitations
                   ELSE [invitations EXCEPT ![t.invitation].accepted = TRUE,
                                            ![t.invitation].account = u]
         ELSE Rest(p) /\ UNCHANGED <<users, madeUsers, invitations>>
      /\ UNCHANGED <<admins, passwords, owners, madeInvitations, Elsewhere, faults, past>>

Enroll(p) ==
  LET t == task[p]
  IN  /\ step[p] = "enroll"
      /\ IF Free(t.name, t.email)
         THEN /\ Register(t.name, t.email, TRUE)
              /\ Go(p, "password", [t EXCEPT !.user = madeUsers + 1, !.email = None])
         ELSE Rest(p) /\ UNCHANGED <<users, madeUsers>>
      /\ UNCHANGED <<admins, passwords, owners, invitations, madeInvitations,
                     Elsewhere, faults, past>>

\* The password goes to whoever has the name by now, and cannot be a second one.
SetPassword(p) ==
  LET named == {u \in Present : users[u].name = task[p].name}
  IN  /\ step[p] = "password"
      /\ IF named # {} /\ named \cap passwords = {}
         THEN /\ passwords' = passwords \cup named
              /\ Go(p, "mark", [Blank EXCEPT !.user = task[p].user,
                                             !.invitation = task[p].invitation])
         ELSE Rest(p) /\ UNCHANGED passwords
      /\ UNCHANGED <<users, madeUsers, admins, owners, invitations, madeInvitations,
                     Elsewhere, faults, past>>

\* In the row only that it was accepted: by which account is history.
Mark(p) ==
  LET i == task[p].invitation
  IN  /\ step[p] = "mark"
      /\ invitations' = IF invitations[i] = None THEN invitations
           ELSE [invitations EXCEPT ![i].accepted = TRUE, ![i].account = task[p].user]
      /\ Rest(p)
      /\ UNCHANGED <<users, madeUsers, admins, passwords, owners, madeInvitations,
                     Elsewhere, faults, past>>

\* A statement fails, and with it the request.
Fail(p) ==
  /\ p \in Busy
  /\ faults < MaxFaults /\ faults' = faults + 1
  /\ Rest(p)
  /\ stale' = stale \ {p}
  /\ UNCHANGED <<rows, Elsewhere, barred, overwritten, renamed, crowded, missed>>

-----------------------------------------------------------------------------
(* The start of the API.  What looks like a transaction is none: each      *)
(* statement commits by itself.                                            *)

At(s) == boot' = [boot EXCEPT !.step = s]
Quiet == <<owners, invitations, madeInvitations, step, task, file, edits, faults,
           barred, stale, overwritten, renamed, crowded>>

\* HTSHADOW is read, and the administrator looked for.
Boot ==
  /\ boot.step = "down"
  /\ boot' = [step |-> IF admins = {} THEN "create" ELSE "purge", names |-> file,
              user |-> None]
  /\ UNCHANGED <<users, madeUsers, admins, passwords, watch, missed, Quiet>>

\* Somebody else's account with the administrator's name ends the start.
CreateAdmin ==
  /\ boot.step = "create"
  /\ IF AdminName \in Taken
     THEN At("down") /\ UNCHANGED <<users, madeUsers>>
     ELSE /\ Register(AdminName, None, FALSE)
          /\ boot' = [boot EXCEPT !.step = "role", !.user = madeUsers + 1]
  /\ UNCHANGED <<admins, passwords, watch, missed, Quiet>>

GiveAdminRole ==
  /\ boot.step = "role"
  /\ admins' = admins \cup {boot.user}
  /\ At("password")
  /\ UNCHANGED <<users, madeUsers, passwords, watch, missed, Quiet>>

SetAdminPassword ==
  /\ boot.step = "password"
  /\ passwords' = passwords \cup {boot.user}
  /\ At("purge")
  /\ UNCHANGED <<users, madeUsers, admins, watch, missed, Quiet>>

\* Nobody but the administrator keeps the role.
PurgeAdmins ==
  /\ boot.step = "purge"
  /\ \E a \in admins : admins' = {a}
  /\ At("import")
  /\ UNCHANGED <<users, madeUsers, passwords, watch, missed, Quiet>>

Unknown == boot.names \ Taken

ImportOne ==
  /\ boot.step = "import"
  /\ \E n \in Unknown : Register(n, None, FALSE)
  /\ UNCHANGED <<admins, passwords, boot, watch, missed, Quiet>>

\* An invited account left without a password gets the one of the file, if there is
\* any by its name; and the watcher starts from the file as it is now.
FinishBoot ==
  /\ boot.step = "import" /\ Unknown = {}
  /\ passwords' = passwords \cup {u \in Present : users[u].invited
                                     /\ users[u].name \in boot.names}
  /\ boot' = [step |-> "up", names |-> {}, user |-> None]
  /\ watch' = [Off EXCEPT !.step = "idle", !.seen = file]
  /\ missed' = (file # boot.names)
  /\ UNCHANGED <<users, madeUsers, admins, Quiet>>

\* The process dies, and every request with it.
Crash ==
  /\ boot.step # "down"
  /\ faults < MaxFaults /\ faults' = faults + 1
  /\ boot' = [step |-> "down", names |-> {}, user |-> None]
  /\ watch' = Off
  /\ step' = [p \in Requests |-> IF p \in Busy THEN "done" ELSE step[p]]
  /\ task' = [p \in Requests |-> Blank]
  /\ stale' = {}
  /\ UNCHANGED <<rows, file, edits, barred, overwritten, renamed, crowded, missed>>

-----------------------------------------------------------------------------
(* The watcher of HTSHADOW                                                 *)

Still == <<owners, invitations, madeInvitations, step, task, boot, file, edits,
           stale, crowded>>
Kept == <<barred, overwritten, renamed>>
Relax == watch' = [Off EXCEPT !.step = "idle", !.seen = watch.seen]

\* Somebody changes the file.
Edit(names) ==
  /\ edits < MaxEdits /\ edits' = edits + 1
  /\ names # file
  /\ file' = names
  /\ UNCHANGED <<rows, step, task, boot, watch, faults, past>>

\* The file differs from when it was last looked at: it counts as seen from now on,
\* whatever becomes of the pass.
Notice ==
  /\ watch.step = "idle" /\ file # watch.seen
  /\ watch' = [watch EXCEPT !.step = "read", !.seen = file]
  /\ missed' = FALSE
  /\ UNCHANGED <<users, madeUsers, admins, passwords, faults, Kept, Still>>

\* The file is read, and then who has a password here.
Read ==
  /\ watch.step = "read"
  /\ watch' = [watch EXCEPT !.step = "list", !.names = file, !.wildfire = passwords]
  /\ missed' = (missed \/ file # watch.seen)
  /\ UNCHANGED <<users, madeUsers, admins, passwords, faults, Kept, Still>>

Dcism == {u \in Present : ~users[u].invited /\ u \notin watch.wildfire}

\* Mutant: too many removals call off the additions as well.
List_AllOrNothing ==
  LET gone == {u \in Dcism : users[u].name \notin watch.names}
  IN  /\ watch.step = "list"
      /\ watch' = [watch EXCEPT !.step = "apply",
                     !.add = IF 2 * Cardinality(gone) > Cardinality(Dcism) THEN {}
                             ELSE watch.names \ Taken,
                     !.drop = IF 2 * Cardinality(gone) > Cardinality(Dcism) THEN {} ELSE gone]
      /\ UNCHANGED <<users, madeUsers, admins, passwords, faults, missed, Kept, Still>>

\* All users: who is new, and who has left the file, unless that were more than half.
List ==
  LET gone == {u \in Dcism : users[u].name \notin watch.names}
  IN  /\ watch.step = "list"
      /\ watch' = [watch EXCEPT !.step = "apply", !.add = watch.names \ Taken,
                     !.drop = IF 2 * Cardinality(gone) > Cardinality(Dcism) THEN {} ELSE gone]
      /\ UNCHANGED <<users, madeUsers, admins, passwords, faults, missed, Kept, Still>>

\* One account more; a name taken meanwhile ends the pass.
Add ==
  /\ watch.step = "apply"
  /\ \E n \in watch.add :
       IF n \in Taken
       THEN Relax /\ missed' = TRUE /\ UNCHANGED <<users, madeUsers>>
       ELSE /\ Register(n, None, FALSE)
            /\ watch' = [watch EXCEPT !.add = @ \ {n}]
            /\ UNCHANGED missed
  /\ UNCHANGED <<admins, passwords, faults, Kept, Still>>

\* One account less, after all additions; one that others refer to ends the pass.
Drop ==
  /\ watch.step = "apply" /\ watch.add = {}
  /\ \E u \in watch.drop :
       IF Referred(u)
       THEN Relax /\ missed' = TRUE /\ UNCHANGED <<users, admins, passwords, Kept>>
       ELSE /\ Remove(u)
            /\ watch' = [watch EXCEPT !.drop = @ \ {u}]
            /\ IF There(u) THEN GivenUp(users[u].name) ELSE UNCHANGED missed
  /\ UNCHANGED <<madeUsers, faults, Still>>

EndPass ==
  /\ watch.step = "apply" /\ watch.add = {} /\ watch.drop = {}
  /\ Relax
  /\ UNCHANGED <<users, madeUsers, admins, passwords, faults, missed, Kept, Still>>

\* A statement of the pass fails: that is logged, and the file stays seen.
FailPass ==
  /\ watch.step \in {"read", "list", "apply"}
  /\ faults < MaxFaults /\ faults' = faults + 1
  /\ Relax
  /\ missed' = TRUE
  /\ UNCHANGED <<users, madeUsers, admins, passwords, Kept, Still>>

Pass == Notice \/ Read \/ List \/ Add \/ Drop \/ EndPass \/ FailPass

-----------------------------------------------------------------------------
Init ==
  /\ \/ /\ users = [u \in Users |-> None]
        /\ madeUsers = 0 /\ passwords = {}
     \/ /\ \E name \in Earlier :
            users = [u \in Users |-> IF u = 1 THEN
                       [name |-> name, email |-> None, invited |-> TRUE,
                        active |-> TRUE, banned |-> FALSE] ELSE None]
        /\ madeUsers = 1 /\ passwords \in {{}, {1}}
  /\ admins = {} /\ owners = {}
  /\ invitations = [i \in Invitations |-> None] /\ madeInvitations = 0
  /\ step = [p \in Requests |-> "idle"] /\ task = [p \in Requests |-> Blank]
  /\ boot = [step |-> "down", names |-> {}, user |-> None]
  /\ file \in SUBSET Shadow
  /\ watch = Off
  /\ edits = 0 /\ faults = 0
  /\ barred = {} /\ stale = {} /\ overwritten = {} /\ renamed = {} /\ crowded = {}
  /\ missed = FALSE

\* What a request asks for.
Ask(p) ==
  \/ \E name \in Names, email \in Emails : BeginCreate(p, name, email)
  \/ \E u \in Users :
       \/ \E name \in Names : UpdateUser(p, u, "rename", name)
       \/ \E change \in {"activate", "deactivate"} : UpdateUser(p, u, change, None)
       \/ \E email \in Emails : UpdateUser(p, u, "address", email)
                               \/ UpdateProfile(p, u, "address", email)
       \/ UpdateProfile(p, u, "seen", None) \/ RefreshSession(p, u)
       \/ BeginBan(p, u) \/ BeginUnban(p, u)
       \/ BeginDelete(p, u) \/ BeginDeleteOwn(p, u)
       \/ \E email \in Emails : BeginInvite(p, u, email)
       \/ \E i \in Invitations : ResendInvitation(p, u, i)
  \/ \E i \in Invitations :
       DeleteInvitation(p, i) \/ \E name \in Names : BeginAccept(p, i, name)

\* What it goes on with.
Serve(p) ==
  \/ Create(p) \/ CleanUp(p) \/ Load(p) \/ Save(p) \/ Delete(p)
  \/ ClearInvitations(p) \/ InsertInvitation(p)
  \/ Enroll(p) \/ SetPassword(p) \/ Mark(p) \/ Fail(p)

Startup ==
  \/ Boot \/ CreateAdmin \/ GiveAdminRole \/ SetAdminPassword \/ PurgeAdmins
  \/ ImportOne \/ FinishBoot \/ Crash

Next ==
  \/ \E p \in Requests : Ask(p) \/ Serve(p)
  \/ \E u \in Users : Own(u)
  \/ \E i \in Invitations : Expire(i)
  \/ \E names \in SUBSET Shadow : Edit(names)
  \/ Startup
  \/ Pass

Spec == Init /\ [][Next]_vars

-----------------------------------------------------------------------------
(* Properties                                                              *)

\* Every row refers to accounts that are there, no two accounts share a name or an
\* address, and a request holds what its step needs.
TypeOK ==
  /\ users \in [Users -> Row \cup {None}]
  /\ invitations \in [Invitations -> Invitation \cup {None}]
  /\ admins \cup passwords \cup owners \subseteq Present
  /\ \A i \in Invitations : invitations[i] # None => There(invitations[i].by)
  /\ \A u, v \in Present : u # v =>
       /\ users[u].name # users[v].name
       /\ users[u].email = users[v].email => users[u].email = None
  /\ \A p \in Requests : step[p] = "save" => task[p].row \in Row
  /\ barred \cup overwritten \cup renamed \subseteq Users

\* An account is banned exactly when the last decision on it says so, unless a
\* request wrote back what it had read before that decision: neither another edit
\* nor a session refreshed lifts a ban (PUT /users/:id/status, UserDbRepository.update).
DecisionSticks ==
  \A u \in Present \ overwritten : users[u].banned <=> u \in barred

\* Inviting an address again closes the invitation before: two are open together
\* only when two requests invited it at once (CreateInvitationUseCase).
OneOpenInvitation ==
  \A i, j \in Invitations :
    Open(i) /\ Open(j) /\ invitations[i].email = invitations[j].email
      => i = j \/ invitations[i].email \in crowded

\* An invitation counts as accepted only when who accepted it can sign in: wherever
\* the acceptance is cut short, the invitation does not say accepted, unless the
\* account was renamed before it had its password (AcceptInvitationUseCase).
AcceptedCanSignIn ==
  \A i \in Invitations :
    invitations[i] # None /\ invitations[i].accepted =>
      LET u == invitations[i].account
      IN  u \in Present \ renamed => u \in passwords

\* Once the watcher rests on the file as it is, everybody in it has an account,
\* unless a pass failed or was overtaken, or the account was removed or renamed
\* since (startHtshadowFileWatcher).
CaughtUp ==
  watch.step = "idle" /\ file = watch.seen /\ ~missed => file \subseteq Taken

\* Whatever happens to accounts and invitations: the rows refer to each other, names
\* and addresses are one account's, and an address has one open invitation.
Inv == TypeOK /\ OneOpenInvitation
=============================================================================
