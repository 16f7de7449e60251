--------------------------- MODULE AccountsProofs ---------------------------
(* Theorems about Accounts for any number of requests, names, addresses,   *)
(* accounts and invitations, any changes of the HTSHADOW file and any       *)
(* failures and crashes.                                                    *)
EXTENDS Accounts, TLAPS

(***************************************************************************)
(* The rows, what refers to them, and what the processes hold.             *)
(***************************************************************************)

Changes == {None, "rename", "address", "activate", "deactivate", "seen", "ban", "unban"}
Task == [user : Users \cup {None}, name : Names \cup {None}, email : Emails \cup {None},
         change : Changes, row : Row \cup {None}, invitation : Invitations \cup {None}]
Steps == {"idle", "done", "create", "load", "save", "clean", "delete", "clear", "insert",
          "enroll", "password", "mark"}

\* Accounts are numbered in the order they are made.
RowsInv ==
  /\ users \in [Users -> Row \cup {None}]
  /\ madeUsers \in 0..MaxUsers
  /\ \A u \in Users : There(u) => u <= madeUsers

UniqueInv ==
  \A u, v \in Present : u # v =>
    /\ users[u].name # users[v].name
    /\ users[u].email = users[v].email => users[u].email = None

RefsInv ==
  /\ admins \subseteq Present /\ passwords \subseteq Present
  /\ owners \subseteq Present /\ barred \subseteq Present
  /\ overwritten \subseteq Users /\ renamed \subseteq Users
  /\ \A i \in Invitations : invitations[i] # None => There(invitations[i].by)

InvitationsInv ==
  /\ invitations \in [Invitations -> Invitation \cup {None}]
  /\ madeInvitations \in Nat
  /\ \A i \in Invitations :
       invitations[i] # None => invitations[i].account \in (1..madeUsers) \cup {None}

\* What a task holds at a step, when m accounts were made.
Holds(s, t, m) ==
  /\ s = "create" => t.name \in Names /\ t.email \in Emails
  /\ s \in {"load", "save"} => /\ t.user \in Users
                               /\ t.change = "rename" => t.name \in Names
                               /\ t.change = "address" => t.email \in Emails
  /\ s = "save" => t.row \in Row /\ t.user \in 1..m
  /\ s \in {"clean", "delete"} => t.user \in Users
  /\ s \in {"clear", "insert"} => t.user \in Users /\ t.email \in Emails
  /\ s = "enroll" => t.email \in Emails
  /\ s \in {"enroll", "password"} => t.name \in Names
  /\ s \in {"enroll", "password", "mark"} => t.invitation \in Invitations
  /\ s \in {"password", "mark"} => t.user \in 1..m

TasksInv ==
  /\ step \in [Requests -> Steps] /\ task \in [Requests -> Task]
  /\ \A p \in Requests : Holds(step[p], task[p], madeUsers)

\* Nothing is served, and nothing watched, unless the API is up; the account that is
\* being made the administrator's is there.
StartInv ==
  /\ boot \in [step : {"down", "create", "role", "password", "purge", "import", "up"},
               names : SUBSET Names, user : Users \cup {None}]
  /\ boot.step \in {"role", "password"} => boot.user \in Present
  /\ watch \in [step : {"off", "idle", "read", "list", "apply"}, seen : SUBSET Names,
                names : SUBSET Names, wildfire : SUBSET Users, add : SUBSET Names,
                drop : SUBSET Users]
  /\ file \in SUBSET Shadow
  /\ ~Up => watch.step = "off" /\ Busy = {}

DatabaseInv == RowsInv /\ UniqueInv /\ RefsInv /\ InvitationsInv
TypeInv == DatabaseInv /\ TasksInv /\ StartInv

(***************************************************************************)
(* What the other properties rest on.                                      *)
(***************************************************************************)

\* A request about to write a row that nobody wrote since holds that row.
SaveInv ==
  /\ DecisionSticks
  /\ \A p \in Requests :
       step[p] = "save" /\ p \notin stale /\ There(task[p].user)
         => task[p].row = users[task[p].user]

\* A request about to insert an invitation finds none open for its address.
ClearedInv ==
  /\ OneOpenInvitation
  /\ \A p \in Requests, i \in Invitations :
       step[p] = "insert" /\ Open(i) /\ invitations[i].email = task[p].email
         => task[p].email \in crowded

\* The account a request enrolled has the name it asked for until it has its password,
\* and its password when the invitation is marked.
EnrolledInv ==
  /\ AcceptedCanSignIn
  /\ \A p \in Requests :
       task[p].user \in Present \ renamed =>
         /\ step[p] = "password" => users[task[p].user].name = task[p].name
         /\ step[p] = "mark" => task[p].user \in passwords

\* What the watcher has yet to add is all that is missing of the file as it saw it.
WatchInv ==
  ~missed =>
    /\ watch.step = "idle" => watch.seen \subseteq Taken
    /\ watch.step = "list" => watch.names = watch.seen
    /\ watch.step = "apply" => watch.seen \subseteq Taken \cup watch.add

(***************************************************************************)
(* What steps do to the rows.                                              *)
(***************************************************************************)

\* An absent row, invitation, name, address or user is none of those that are there.
LEMMA NoneApart ==
  /\ None \notin Row /\ None \notin Invitation /\ None \notin Names
  /\ None \notin Emails /\ None \notin Users
  /\ Shadow \subseteq Names /\ AdminName \in Names /\ Earlier \subseteq Names
  /\ MaxUsers \in Nat /\ MaxUsers >= 1
  /\ Users = 1..MaxUsers
BY AccountsAssumption DEF Users

\* A row that is there is a row.
LEMMA RowThere ==
  ASSUME RowsInv, NEW u \in Users
  PROVE  /\ There(u) <=> users[u] \in Row
         /\ There(u) => u \in 1..madeUsers
         /\ There(u) <=> u \in Present
BY NoneApart DEF RowsInv, There, Present

\* What does not touch the rows leaves who is there and which names are taken.
LEMMA SameRows ==
  ASSUME RowsInv, UniqueInv, UNCHANGED <<users, madeUsers>>
  PROVE  RowsInv' /\ UniqueInv' /\ Present' = Present /\ Taken' = Taken
<1>1. Present' = Present
  BY DEF Present, There
<1>2. Taken' = Taken
  BY <1>1 DEF Taken
<1>3. RowsInv'
  BY DEF RowsInv, There
<1>4. UniqueInv'
  BY <1>1 DEF UniqueInv
<1>5. QED
  BY <1>1, <1>2, <1>3, <1>4

\* A new account under a free name and address: all others stay as they were.
LEMMA RegisterFacts ==
  ASSUME RowsInv, UniqueInv, NEW name \in Names, NEW email \in Emails \cup {None},
         NEW invited \in BOOLEAN, name \notin Taken, email \notin Reachable,
         Register(name, email, invited)
  PROVE  /\ RowsInv' /\ UniqueInv'
         /\ madeUsers' = madeUsers + 1
         /\ madeUsers + 1 \in Users /\ madeUsers + 1 \notin Present
         /\ Present' = Present \cup {madeUsers + 1}
         /\ \A v \in Users \ {madeUsers + 1} : users'[v] = users[v]
         /\ users'[madeUsers + 1].name = name
         /\ users'[madeUsers + 1].banned = FALSE
         /\ Taken' = Taken \cup {name}
<1> DEFINE new == madeUsers + 1
           row == [name |-> name, email |-> email, invited |-> invited,
                   active |-> TRUE, banned |-> FALSE]
<1>1. new \in Users /\ new \notin Present /\ madeUsers' = new
  BY NoneApart DEF Register, RowsInv, Present, There
<1>2. row \in Row /\ row # None /\ row.name = name /\ row.email = email /\ row.banned = FALSE
  <2>1. row \in Row
    BY DEF Row
  <2>2. row # None
    BY <2>1, NoneApart
  <2>3. QED
    BY <2>1, <2>2
<1>3. users' = [users EXCEPT ![new] = row]
  BY DEF Register
<1> HIDE DEF row
<1>4. users'[new] = row /\ \A v \in Users \ {new} : users'[v] = users[v]
  BY <1>1, <1>3 DEF RowsInv
<1>5. Present' = Present \cup {new}
  BY <1>1, <1>2, <1>4 DEF Present, There
<1>6. Taken' = Taken \cup {name}
  BY <1>1, <1>2, <1>4, <1>5 DEF Taken, Present
<1>7. RowsInv'
  <2>1. users' \in [Users -> Row \cup {None}]
    BY <1>2, <1>3 DEF RowsInv
  <2>2. madeUsers' \in 0..MaxUsers
    BY <1>1, NoneApart DEF RowsInv
  <2>3. \A u \in Users : users'[u] # None => u <= madeUsers'
    BY <1>1, <1>4, NoneApart DEF RowsInv, There
  <2>4. QED
    BY <2>1, <2>2, <2>3 DEF RowsInv, There
<1>8. UniqueInv'
  <2> SUFFICES ASSUME NEW u \in Present', NEW v \in Present', u # v
               PROVE  /\ users'[u].name # users'[v].name
                      /\ users'[u].email = users'[v].email => users'[u].email = None
    BY DEF UniqueInv
  <2>1. \A w \in Present : /\ users'[w] = users[w] /\ users[w].name # name
                           /\ users[w].email = email => email = None
    BY <1>1, <1>4 DEF Taken, Reachable, Present
  <2>2. CASE u \in Present /\ v \in Present
    BY <2>1, <2>2 DEF UniqueInv
  <2>3. CASE u = new \/ v = new
    BY <1>1, <1>2, <1>4, <1>5, <2>1, <2>3
  <2>4. QED
    BY <1>5, <2>2, <2>3
<1>9. QED
  BY <1>1, <1>2, <1>4, <1>5, <1>6, <1>7, <1>8

\* An account removed: all others stay as they were.
LEMMA RemoveFacts ==
  ASSUME RowsInv, UniqueInv, NEW u \in Users, Remove(u), UNCHANGED madeUsers
  PROVE  /\ RowsInv' /\ UniqueInv'
         /\ Present' = Present \ {u}
         /\ \A v \in Users \ {u} : users'[v] = users[v]
         /\ There(u) => Taken \ {users[u].name} \subseteq Taken'
         /\ ~There(u) => Taken' = Taken
<1>1. users'[u] = None /\ \A v \in Users \ {u} : users'[v] = users[v]
  BY DEF Remove, RowsInv
<1>2. Present' = Present \ {u}
  BY <1>1 DEF Present, There
<1>3. RowsInv'
  BY <1>1 DEF Remove, RowsInv, There
<1>4. UniqueInv'
  BY <1>1, <1>2 DEF UniqueInv, Present
<1>5. \A v \in Present : v # u => users[v].name \in Taken'
  BY <1>1, <1>2 DEF Taken, Present
<1>6. There(u) => Taken \ {users[u].name} \subseteq Taken'
  BY <1>5 DEF Taken
<1>7. ~There(u) => Taken' = Taken
  BY <1>1, <1>2 DEF Taken, Present
<1>8. QED
  BY <1>1, <1>2, <1>3, <1>4, <1>6, <1>7

\* A row written over one that is there, its name and address nobody else's.
LEMMA WriteFacts ==
  ASSUME RowsInv, UniqueInv, NEW u \in Users, There(u), NEW row \in Row,
         \A x \in Present \ {u} :
           users[x].name # row.name /\ row.email \notin {users[x].email} \ {None},
         users' = [users EXCEPT ![u] = row], UNCHANGED madeUsers
  PROVE  /\ RowsInv' /\ UniqueInv' /\ Present' = Present
         /\ users'[u] = row
         /\ \A v \in Users \ {u} : users'[v] = users[v]
         /\ Taken \ {users[u].name} \subseteq Taken'
         /\ row.name = users[u].name => Taken' = Taken
<1>1. users'[u] = row /\ \A v \in Users \ {u} : users'[v] = users[v]
  BY DEF RowsInv
<1>2. Present' = Present
  BY <1>1, NoneApart DEF Present, There
<1>3. RowsInv'
  BY <1>1, <1>2 DEF RowsInv, There
<1>4. UniqueInv'
  <2> SUFFICES ASSUME NEW v \in Present, NEW w \in Present, v # w
               PROVE  /\ users'[v].name # users'[w].name
                      /\ users'[v].email = users'[w].email => users'[v].email = None
    BY <1>2 DEF UniqueInv
  <2>1. CASE v = u
    BY <1>1, <2>1 DEF Present
  <2>2. CASE w = u
    BY <1>1, <2>2 DEF Present
  <2>3. CASE v # u /\ w # u
    BY <1>1, <2>3 DEF UniqueInv, Present
  <2>4. QED
    BY <2>1, <2>2, <2>3
<1>5. \A v \in Present : v # u => users[v].name \in Taken'
  BY <1>1, <1>2 DEF Taken, Present
<1>6. Taken \ {users[u].name} \subseteq Taken'
  BY <1>5 DEF Taken
<1>7. row.name = users[u].name => Taken' = Taken
  BY <1>1, <1>2 DEF Taken, Present
<1>8. QED
  BY <1>1, <1>2, <1>3, <1>4, <1>6, <1>7

(***************************************************************************)
(* What steps do to the tasks.                                             *)
(***************************************************************************)

\* What a task holds it still holds when more accounts were made.
LEMMA HoldsLater ==
  ASSUME NEW s, NEW t, NEW m \in Nat, NEW n \in Nat, m <= n, Holds(s, t, m)
  PROVE  Holds(s, t, n)
<1>1. \A x \in 1..m : x \in 1..n
  OBVIOUS
<1>2. QED
  BY <1>1 DEF Holds

\* A request that goes on leaves what every other request holds.
LEMMA GoFacts ==
  ASSUME TasksInv, NEW p \in Requests, NEW s, NEW t, Go(p, s, t)
  PROVE  /\ step'[p] = s /\ task'[p] = t
         /\ \A q \in Requests \ {p} : step'[q] = step[q] /\ task'[q] = task[q]
BY DEF TasksInv, Go

\* A request may go on to a step whose needs it holds.
LEMMA GoTasks ==
  ASSUME TasksInv, NEW p \in Requests, NEW s \in Steps, NEW t \in Task, Go(p, s, t),
         madeUsers \in Nat, madeUsers' \in Nat, madeUsers <= madeUsers',
         Holds(s, t, madeUsers')
  PROVE  TasksInv'
<1>1. step' \in [Requests -> Steps] /\ task' \in [Requests -> Task]
  BY DEF TasksInv, Go
<1>2. ASSUME NEW q \in Requests
      PROVE  Holds(step'[q], task'[q], madeUsers')
  <2>1. CASE q = p
    BY <2>1, GoFacts
  <2>2. CASE q # p
    <3>1. step'[q] = step[q] /\ task'[q] = task[q]
      BY <2>2, GoFacts
    <3>2. Holds(step[q], task[q], madeUsers)
      BY DEF TasksInv
    <3>3. Holds(step[q], task[q], madeUsers')
      BY <3>2, HoldsLater
    <3>4. QED
      BY <3>1, <3>3
  <2>3. QED
    BY <2>1, <2>2
<1>3. QED
  BY <1>1, <1>2 DEF TasksInv

\* What no request does leaves the tasks.
LEMMA SameTasks ==
  ASSUME TasksInv, UNCHANGED <<step, task>>,
         madeUsers \in Nat, madeUsers' \in Nat, madeUsers <= madeUsers'
  PROVE  TasksInv'
<1>1. \A q \in Requests : Holds(step[q], task[q], madeUsers')
  BY HoldsLater DEF TasksInv
<1>2. QED
  BY <1>1 DEF TasksInv

\* A task that holds nothing, and a step that needs nothing.
LEMMA BlankHolds ==
  /\ Blank \in Task
  /\ \A m : Holds("done", Blank, m)
BY DEF Blank, Task, Changes, Holds

\* A request that ends holds nothing.
LEMMA RestTasks ==
  ASSUME TasksInv, NEW p \in Requests, Rest(p),
         madeUsers \in Nat, madeUsers' \in Nat, madeUsers <= madeUsers'
  PROVE  TasksInv'
<1>1. Go(p, "done", Blank) /\ "done" \in Steps
  BY DEF Rest, Steps
<1>2. QED
  BY <1>1, BlankHolds, GoTasks

\* A request at work means that the API is up.
LEMMA AtWork ==
  ASSUME StartInv, NEW p \in Requests, step[p] \notin {"idle", "done"}
  PROVE  Up
BY DEF StartInv, Busy

\* While the API is up, a request does nothing to its start.
LEMMA StartStays ==
  ASSUME StartInv, Up, UNCHANGED Elsewhere
  PROVE  StartInv'
BY DEF StartInv, Elsewhere, Up

\* What a request begins with: it read what it needed, and wrote nothing.
Asked(p) ==
  \E s \in {"create", "load", "clean", "delete", "clear", "enroll"}, t \in Task :
    /\ Go(p, s, t) /\ Holds(s, t, madeUsers)
    /\ Begin(p)
    /\ UNCHANGED <<rows, Elsewhere, faults, past>>

\* A change begins with a load.
LEMMA BeginsChange ==
  ASSUME NEW p \in Requests, NEW u \in Users, NEW change \in Changes, NEW value,
         change = "rename" => value \in Names, change = "address" => value \in Emails,
         BeginChange(p, u, change, value), Begin(p),
         UNCHANGED <<rows, Elsewhere, faults, past>>
  PROVE  Asked(p)
<1> DEFINE t == [Blank EXCEPT !.user = u, !.change = change,
                              !.name = IF change = "rename" THEN value ELSE None,
                              !.email = IF change = "address" THEN value ELSE None]
<1>1. Go(p, "load", t)
  BY DEF BeginChange
<1>2. t \in Task
  BY DEF Blank, Task
<1>3. Holds("load", t, madeUsers)
  BY DEF Blank, Holds
<1>4. QED
  BY <1>1, <1>2, <1>3 DEF Asked

\* Every request but the deletion of an invitation begins so.
LEMMA AskShape ==
  ASSUME TypeInv, NEW p \in Requests, Ask(p)
  PROVE  Asked(p) \/ \E i \in Invitations : DeleteInvitation(p, i)
<1>1. ASSUME NEW name \in Names, NEW email \in Emails, BeginCreate(p, name, email)
      PROVE  Asked(p)
  <2> DEFINE t == [Blank EXCEPT !.name = name, !.email = email]
  <2>1. t \in Task /\ Holds("create", t, madeUsers)
    BY DEF Blank, Task, Changes, Holds
  <2>2. QED
    BY <1>1, <2>1 DEF BeginCreate, Asked
<1>2. ASSUME NEW u \in Users, NEW name \in Names, UpdateUser(p, u, "rename", name)
      PROVE  Asked(p)
  BY <1>2, BeginsChange DEF UpdateUser, Changes
<1>3. ASSUME NEW u \in Users, NEW change \in {"activate", "deactivate"},
             UpdateUser(p, u, change, None)
      PROVE  Asked(p)
  BY <1>3, BeginsChange, NoneApart DEF UpdateUser, Changes
<1>4. ASSUME NEW u \in Users, NEW email \in Emails,
             UpdateUser(p, u, "address", email) \/ UpdateProfile(p, u, "address", email)
      PROVE  Asked(p)
  BY <1>4, BeginsChange DEF UpdateUser, UpdateProfile, Changes
<1>5. ASSUME NEW u \in Users, UpdateProfile(p, u, "seen", None) \/ RefreshSession(p, u)
      PROVE  Asked(p)
  BY <1>5, BeginsChange DEF UpdateProfile, RefreshSession, Changes
<1>6. ASSUME NEW u \in Users, BeginBan(p, u)
      PROVE  Asked(p)
  <2> DEFINE t == [Blank EXCEPT !.user = u, !.change = "ban"]
  <2>1. t \in Task /\ Holds("clean", t, madeUsers)
    BY DEF Blank, Task, Changes, Holds
  <2>2. QED
    BY <1>6, <2>1 DEF BeginBan, Asked
<1>7. ASSUME NEW u \in Users, BeginUnban(p, u)
      PROVE  Asked(p)
  BY <1>7, BeginsChange DEF BeginUnban, Changes
<1>8. ASSUME NEW u \in Users, BeginDelete(p, u) \/ BeginDeleteOwn(p, u)
      PROVE  Asked(p)
  <2> DEFINE t == [Blank EXCEPT !.user = u]
  <2>1. t \in Task /\ Holds("clean", t, madeUsers) /\ Holds("delete", t, madeUsers)
    BY DEF Blank, Task, Changes, Holds
  <2>2. QED
    BY <1>8, <2>1 DEF BeginDelete, BeginDeleteOwn, Asked
<1>9. ASSUME NEW u \in Users, NEW email \in Emails, BeginInvite(p, u, email)
      PROVE  Asked(p)
  <2> DEFINE t == [Blank EXCEPT !.user = u, !.email = email]
  <2>1. t \in Task /\ Holds("clear", t, madeUsers)
    BY DEF Blank, Task, Changes, Holds
  <2>2. QED
    BY <1>9, <2>1 DEF BeginInvite, Asked
<1>10. ASSUME NEW i \in Invitations, invitations[i] # None
       PROVE  invitations[i] \in Invitation /\ invitations[i].email \in Emails
  BY <1>10 DEF TypeInv, DatabaseInv, InvitationsInv, Invitation
<1>11. ASSUME NEW u \in Users, NEW i \in Invitations, ResendInvitation(p, u, i)
       PROVE  Asked(p)
  BY <1>9, <1>10, <1>11 DEF ResendInvitation
<1>12. ASSUME NEW i \in Invitations, NEW name \in Names, BeginAccept(p, i, name)
       PROVE  Asked(p)
  <2> DEFINE t == [Blank EXCEPT !.invitation = i, !.name = name,
                                !.email = invitations[i].email]
  <2>1. invitations[i].email \in Emails
    BY <1>10, <1>12 DEF BeginAccept, Open
  <2>2. t \in Task /\ Holds("enroll", t, madeUsers)
    BY <2>1 DEF Blank, Task, Changes, Holds
  <2>3. QED
    BY <1>12, <2>2 DEF BeginAccept, Asked
<1>13. QED
  BY <1>1, <1>2, <1>3, <1>4, <1>5, <1>6, <1>7, <1>8, <1>9, <1>11, <1>12 DEF Ask

(***************************************************************************)
(* Types, references and what is held are kept: requests.                  *)
(***************************************************************************)

\* The database stays typed when no row changes.
LEMMA SameDatabase ==
  ASSUME DatabaseInv, UNCHANGED rows, UNCHANGED <<barred, overwritten, renamed>>
  PROVE  DatabaseInv' /\ Present' = Present /\ Taken' = Taken /\ madeUsers' = madeUsers
         /\ madeUsers \in Nat
<1>1. UNCHANGED <<users, madeUsers, admins, passwords, owners, invitations, madeInvitations>>
  BY DEF rows
<1>2. RowsInv' /\ UniqueInv' /\ Present' = Present /\ Taken' = Taken
  BY <1>1, SameRows DEF DatabaseInv
<1>3. RefsInv' /\ InvitationsInv'
  BY <1>1, <1>2 DEF DatabaseInv, RefsInv, InvitationsInv, There
<1>4. QED
  BY <1>1, <1>2, <1>3 DEF DatabaseInv, RowsInv

\* And when an account is made.
LEMMA RegisterDatabase ==
  ASSUME DatabaseInv, NEW name \in Names, NEW email \in Emails \cup {None},
         NEW invited \in BOOLEAN, name \notin Taken, email \notin Reachable,
         Register(name, email, invited),
         UNCHANGED <<admins, passwords, owners, invitations, madeInvitations, barred,
                     overwritten, renamed>>
  PROVE  /\ DatabaseInv'
         /\ madeUsers \in Nat /\ madeUsers' = madeUsers + 1
         /\ madeUsers + 1 \in Users
         /\ Present' = Present \cup {madeUsers + 1}
<1>1. RowsInv /\ UniqueInv
  BY DEF DatabaseInv
<1>2. /\ RowsInv' /\ UniqueInv' /\ madeUsers' = madeUsers + 1 /\ madeUsers + 1 \in Users
      /\ Present' = Present \cup {madeUsers + 1}
  BY <1>1, RegisterFacts
<1>3. madeUsers \in Nat
  BY <1>1 DEF RowsInv
<1>4. RefsInv'
  <2>1. \A u \in Users : There(u) => There(u)'
    BY <1>2 DEF Present
  <2>2. \A i \in Invitations : invitations[i] # None => invitations[i].by \in Users
    BY DEF DatabaseInv, InvitationsInv, Invitation
  <2>3. QED
    BY <1>2, <2>1, <2>2 DEF DatabaseInv, RefsInv
<1>5. InvitationsInv'
  <2>1. \A x \in 1..madeUsers : x \in 1..madeUsers'
    BY <1>2, <1>3
  <2>2. QED
    BY <2>1 DEF DatabaseInv, InvitationsInv
<1>6. QED
  BY <1>2, <1>3, <1>4, <1>5 DEF DatabaseInv

\* And when one that nothing refers to is removed.
LEMMA RemoveDatabase ==
  ASSUME DatabaseInv, NEW u \in Users, Remove(u), ~Referred(u),
         UNCHANGED <<madeUsers, owners, invitations, madeInvitations>>
  PROVE  DatabaseInv' /\ Present' = Present \ {u} /\ madeUsers \in Nat
<1>1. RowsInv' /\ UniqueInv' /\ Present' = Present \ {u}
  BY RemoveFacts DEF DatabaseInv
<1>2. /\ admins' = admins \ {u} /\ passwords' = passwords \ {u} /\ barred' = barred \ {u}
      /\ overwritten' = overwritten \ {u} /\ renamed' = renamed \ {u}
  BY DEF Remove
<1>3. \A i \in Invitations : invitations[i] # None => There(invitations[i].by)'
  <2> SUFFICES ASSUME NEW i \in Invitations, invitations[i] # None
               PROVE  There(invitations[i].by)'
    OBVIOUS
  <2>1. invitations[i].by \in Users
    BY DEF DatabaseInv, InvitationsInv, Invitation
  <2>2. invitations[i].by \in Present \ {u}
    BY <2>1 DEF Referred, DatabaseInv, RefsInv, Present
  <2>3. QED
    BY <1>1, <2>2 DEF Present
<1>4. RefsInv'
  BY <1>1, <1>2, <1>3 DEF DatabaseInv, RefsInv, Referred
<1>5. InvitationsInv' /\ madeUsers \in Nat
  BY DEF DatabaseInv, InvitationsInv, RowsInv
<1>6. QED
  BY <1>1, <1>4, <1>5 DEF DatabaseInv

\* A request that begins.
LEMMA AskedTypes ==
  ASSUME TypeInv, NEW p \in Requests, Asked(p)
  PROVE  TypeInv'
<1>1. PICK s \in {"create", "load", "clean", "delete", "clear", "enroll"}, t \in Task :
        /\ Go(p, s, t) /\ Holds(s, t, madeUsers) /\ Begin(p)
        /\ UNCHANGED <<rows, Elsewhere, faults, past>>
  BY DEF Asked
<1>2. DatabaseInv' /\ madeUsers' = madeUsers /\ madeUsers \in Nat
  BY <1>1, SameDatabase DEF TypeInv, past
<1>3. TasksInv'
  BY <1>1, <1>2, GoTasks DEF TypeInv, Steps
<1>4. StartInv'
  BY <1>1, StartStays DEF TypeInv, Begin
<1>5. QED
  BY <1>2, <1>3, <1>4 DEF TypeInv

\* What a request holds at a step it is at.
LEMMA Held ==
  ASSUME TypeInv, NEW p \in Requests
  PROVE  /\ step[p] \in Steps /\ task[p] \in Task /\ Holds(step[p], task[p], madeUsers)
         /\ madeUsers \in Nat /\ madeUsers <= MaxUsers /\ \A u \in 1..madeUsers : u \in Users
BY NoneApart DEF TypeInv, TasksInv, DatabaseInv, RowsInv

\* Accounts are made.
LEMMA CreateTypes ==
  ASSUME TypeInv, NEW p \in Requests, Create(p)
  PROVE  TypeInv'
<1>1. step[p] = "create" /\ Rest(p) /\ UNCHANGED Elsewhere
  BY DEF Create
<1>2. task[p].name \in Names /\ task[p].email \in Emails
  BY <1>1, Held DEF Holds
<1>3. DatabaseInv' /\ madeUsers \in Nat /\ madeUsers' \in Nat /\ madeUsers <= madeUsers'
  <2>1. CASE Free(task[p].name, task[p].email)
    <3>1. Register(task[p].name, task[p].email, FALSE)
      BY <2>1 DEF Create
    <3>2. DatabaseInv' /\ madeUsers \in Nat /\ madeUsers' = madeUsers + 1
      BY <1>2, <2>1, <3>1, RegisterDatabase DEF Create, Free, TypeInv, past
    <3>3. QED
      BY <3>2
  <2>2. CASE ~Free(task[p].name, task[p].email)
    BY <2>2, SameDatabase DEF Create, TypeInv, rows, past
  <2>3. QED
    BY <2>1, <2>2
<1>4. TasksInv'
  BY <1>1, <1>3, RestTasks DEF TypeInv
<1>5. StartInv'
  BY <1>1, AtWork, StartStays DEF TypeInv
<1>6. QED
  BY <1>3, <1>4, <1>5 DEF TypeInv

\* An invited account is made, and waits for its password.
LEMMA EnrollTypes ==
  ASSUME TypeInv, NEW p \in Requests, Enroll(p)
  PROVE  TypeInv'
<1>1. step[p] = "enroll" /\ UNCHANGED Elsewhere
  BY DEF Enroll
<1>2. /\ task[p] \in Task /\ task[p].name \in Names /\ task[p].email \in Emails
      /\ task[p].invitation \in Invitations
  BY <1>1, Held DEF Holds
<1>3. DatabaseInv' /\ TasksInv'
  <2>1. CASE Free(task[p].name, task[p].email)
    <3> DEFINE t == [task[p] EXCEPT !.user = madeUsers + 1, !.email = None]
    <3>1. Register(task[p].name, task[p].email, TRUE) /\ Go(p, "password", t)
      BY <2>1 DEF Enroll
    <3>2. /\ DatabaseInv' /\ madeUsers \in Nat /\ madeUsers' = madeUsers + 1
          /\ madeUsers + 1 \in Users
      BY <1>2, <2>1, <3>1, RegisterDatabase DEF Enroll, Free, TypeInv, past
    <3>3. t \in Task /\ t.user = madeUsers + 1 /\ t.name \in Names /\ t.invitation \in Invitations
      BY <1>2, <3>2 DEF Task
    <3> HIDE DEF t
    <3>4. Holds("password", t, madeUsers')
      BY <3>2, <3>3 DEF Holds
    <3>5. TasksInv'
      BY <3>1, <3>2, <3>3, <3>4, GoTasks DEF TypeInv, Steps
    <3>6. QED
      BY <3>2, <3>5
  <2>2. CASE ~Free(task[p].name, task[p].email)
    <3>1. DatabaseInv' /\ madeUsers \in Nat /\ madeUsers' = madeUsers
      BY <2>2, SameDatabase DEF Enroll, TypeInv, rows, past
    <3>2. QED
      BY <2>2, <3>1, RestTasks DEF Enroll, TypeInv
  <2>3. QED
    BY <2>1, <2>2
<1>4. StartInv'
  BY <1>1, AtWork, StartStays DEF TypeInv
<1>5. QED
  BY <1>3, <1>4 DEF TypeInv

\* An account is changed: its row is read, and written.
LEMMA LoadTypes ==
  ASSUME TypeInv, NEW p \in Requests, Load(p)
  PROVE  TypeInv'
<1>1. step[p] = "load" /\ UNCHANGED Elsewhere /\ UNCHANGED rows
      /\ UNCHANGED <<barred, overwritten, renamed>>
  BY DEF Load
<1>2. DatabaseInv' /\ madeUsers' = madeUsers /\ madeUsers \in Nat
  BY <1>1, SameDatabase DEF TypeInv
<1>3. /\ task[p] \in Task /\ task[p].user \in Users
      /\ task[p].change = "rename" => task[p].name \in Names
      /\ task[p].change = "address" => task[p].email \in Emails
  BY <1>1, Held DEF Holds
<1>4. TasksInv'
  <2>1. CASE There(task[p].user)
    <3> DEFINE t == [task[p] EXCEPT !.row = users[task[p].user]]
    <3>1. Go(p, "save", t)
      BY <2>1 DEF Load
    <3>2. users[task[p].user] \in Row /\ task[p].user \in 1..madeUsers
      BY <1>3, <2>1, RowThere DEF TypeInv, DatabaseInv
    <3>3. t \in Task /\ t.row \in Row /\ t.user = task[p].user /\ t.name = task[p].name
          /\ t.email = task[p].email /\ t.change = task[p].change
      BY <1>3, <3>2 DEF Task
    <3> HIDE DEF t
    <3>4. Holds("save", t, madeUsers')
      BY <1>2, <1>3, <3>2, <3>3 DEF Holds
    <3>5. QED
      BY <1>2, <3>1, <3>3, <3>4, GoTasks DEF TypeInv, Steps
  <2>2. CASE ~There(task[p].user)
    BY <1>2, <2>2, RestTasks DEF Load, TypeInv
  <2>3. QED
    BY <2>1, <2>2
<1>5. StartInv'
  BY <1>1, AtWork, StartStays DEF TypeInv
<1>6. QED
  BY <1>2, <1>4, <1>5 DEF TypeInv

\* What a change makes of a row.
LEMMA ChangedIsRow ==
  ASSUME NEW row \in Row, NEW change, NEW name, NEW email,
         change = "rename" => name \in Names, change = "address" => email \in Emails
  PROVE  /\ Changed(row, change, name, email) \in Row
         /\ change = "ban" => Changed(row, change, name, email).banned = TRUE
         /\ change = "unban" => Changed(row, change, name, email).banned = FALSE
         /\ change \notin {"ban", "unban"} =>
              Changed(row, change, name, email).banned = row.banned
BY DEF Changed, Row

\* A row is written only over one that is there, and clashes with no other.
LEMMA SaveFacts ==
  ASSUME TypeInv, NEW p \in Requests, Save(p), NEW u, u = task[p].user,
         NEW row, row = Changed(task[p].row, task[p].change, task[p].name, task[p].email)
  PROVE  /\ u \in Users /\ u \in 1..madeUsers /\ row \in Row /\ task[p].row \in Row
         /\ \/ UNCHANGED <<users, past>>
            \/ /\ There(u)
               /\ \A x \in Present \ {u} :
                    users[x].name # row.name /\ row.email \notin {users[x].email} \ {None}
               /\ users' = [users EXCEPT ![u] = row]
               /\ Written(p, u)
<1>1. step[p] = "save"
  BY DEF Save
<1>2. /\ u \in 1..madeUsers /\ u \in Users /\ task[p].row \in Row
      /\ task[p].change = "rename" => task[p].name \in Names
      /\ task[p].change = "address" => task[p].email \in Emails
  BY <1>1, Held DEF Holds
<1>3. row \in Row
  BY <1>2, ChangedIsRow
<1>4. QED
  BY <1>2, <1>3 DEF Save

\* A row is written over the one that is there.
LEMMA SaveTypes ==
  ASSUME TypeInv, NEW p \in Requests, Save(p)
  PROVE  TypeInv'
<1>1. step[p] = "save" /\ Rest(p) /\ UNCHANGED Elsewhere
      /\ UNCHANGED <<madeUsers, admins, passwords, owners, invitations, madeInvitations>>
  BY DEF Save
<1>2. PICK u : u = task[p].user
  OBVIOUS
<1>3. PICK row : row = Changed(task[p].row, task[p].change, task[p].name, task[p].email)
  OBVIOUS
<1>4. u \in Users /\ row \in Row
  BY <1>2, <1>3, SaveFacts
<1>5. DatabaseInv'
  <2>1. CASE UNCHANGED <<users, past>>
    BY <1>1, <2>1, SameDatabase DEF TypeInv, rows, past
  <2>2. CASE ~UNCHANGED <<users, past>>
    <3>1. /\ There(u) /\ users' = [users EXCEPT ![u] = row] /\ Written(p, u)
          /\ \A x \in Present \ {u} :
               users[x].name # row.name /\ row.email \notin {users[x].email} \ {None}
      BY <1>2, <1>3, <2>2, SaveFacts
    <3>2. RowsInv' /\ UniqueInv' /\ Present' = Present
      BY <1>1, <1>4, <3>1, WriteFacts DEF TypeInv, DatabaseInv
    <3>3. /\ barred' \subseteq barred \cup {u} /\ overwritten' \subseteq overwritten \cup {u}
          /\ renamed' \subseteq renamed \cup {u}
      BY <3>1 DEF Written
    <3>4. u \in Present
      BY <1>4, <3>1 DEF Present
    <3>5. \A i \in Invitations : invitations[i] # None => There(invitations[i].by)'
      <4> SUFFICES ASSUME NEW i \in Invitations, invitations[i] # None
                   PROVE  There(invitations[i].by)'
        OBVIOUS
      <4>1. invitations[i].by \in Present
        BY DEF TypeInv, DatabaseInv, RefsInv, InvitationsInv, Invitation, Present
      <4>2. QED
        BY <1>1, <3>2, <4>1 DEF Present
    <3>6. RefsInv'
      BY <1>1, <1>4, <3>2, <3>3, <3>4, <3>5 DEF TypeInv, DatabaseInv, RefsInv
    <3>7. InvitationsInv'
      BY <1>1 DEF TypeInv, DatabaseInv, InvitationsInv
    <3>8. QED
      BY <3>2, <3>6, <3>7 DEF DatabaseInv
  <2>3. QED
    BY <2>1, <2>2
<1>6. TasksInv'
  BY <1>1, Held, RestTasks DEF TypeInv
<1>7. StartInv'
  BY <1>1, AtWork, StartStays DEF TypeInv
<1>8. QED
  BY <1>5, <1>6, <1>7 DEF TypeInv

\* What a user owns is removed, and the request goes on.
LEMMA CleanUpTypes ==
  ASSUME TypeInv, NEW p \in Requests, CleanUp(p)
  PROVE  TypeInv'
<1>1. /\ step[p] = "clean" /\ UNCHANGED Elsewhere /\ UNCHANGED past /\ owners' \subseteq owners
      /\ UNCHANGED <<users, madeUsers, admins, passwords, invitations, madeInvitations>>
  BY DEF CleanUp
<1>2. task[p] \in Task /\ task[p].user \in Users /\ madeUsers \in Nat
  BY <1>1, Held DEF Holds
<1>3. DatabaseInv'
  <2>1. RowsInv' /\ UniqueInv' /\ Present' = Present
    BY <1>1, SameRows DEF TypeInv, DatabaseInv
  <2>2. QED
    BY <1>1, <2>1 DEF TypeInv, DatabaseInv, RefsInv, InvitationsInv, There, past
<1>4. TasksInv'
  <2>1. CASE Rest(p)
    BY <1>1, <1>2, <2>1, RestTasks DEF TypeInv
  <2>2. CASE task[p].change = "ban" /\ Go(p, "load", task[p])
    <3>1. Holds("load", task[p], madeUsers')
      BY <1>2, <2>2 DEF Holds
    <3>2. QED
      BY <1>1, <1>2, <2>2, <3>1, GoTasks DEF TypeInv, Steps
  <2>3. CASE Go(p, "delete", task[p])
    <3>1. Holds("delete", task[p], madeUsers')
      BY <1>2 DEF Holds
    <3>2. QED
      BY <1>1, <1>2, <2>3, <3>1, GoTasks DEF TypeInv, Steps
  <2>4. QED
    BY <2>1, <2>2, <2>3 DEF CleanUp
<1>5. StartInv'
  BY <1>1, AtWork, StartStays DEF TypeInv
<1>6. QED
  BY <1>3, <1>4, <1>5 DEF TypeInv

\* An account goes only when nothing refers to it.
LEMMA DeleteTypes ==
  ASSUME TypeInv, NEW p \in Requests, Delete(p)
  PROVE  TypeInv'
<1>1. /\ step[p] = "delete" /\ UNCHANGED Elsewhere /\ Rest(p)
      /\ UNCHANGED <<madeUsers, owners, invitations, madeInvitations>>
  BY DEF Delete
<1>2. task[p].user \in Users /\ madeUsers \in Nat
  BY <1>1, Held DEF Holds
<1>3. DatabaseInv'
  <2>1. CASE There(task[p].user) /\ ~Referred(task[p].user)
    BY <1>1, <1>2, <2>1, RemoveDatabase DEF Delete, TypeInv
  <2>2. CASE ~(There(task[p].user) /\ ~Referred(task[p].user))
    BY <1>1, <2>2, SameDatabase DEF Delete, TypeInv, rows, past
  <2>3. QED
    BY <2>1, <2>2
<1>4. TasksInv'
  BY <1>1, <1>2, RestTasks DEF TypeInv
<1>5. StartInv'
  BY <1>1, AtWork, StartStays DEF TypeInv
<1>6. QED
  BY <1>3, <1>4, <1>5 DEF TypeInv

\* Invitations written over keep their types when whoever sent them stays.
LEMMA InvitationsDatabase ==
  ASSUME DatabaseInv, UNCHANGED <<users, madeUsers, admins, passwords, owners>>,
         UNCHANGED <<barred, overwritten, renamed>>,
         invitations' \in [Invitations -> Invitation \cup {None}], madeInvitations' \in Nat,
         \A i \in Invitations : invitations'[i] # None =>
           /\ There(invitations'[i].by)
           /\ invitations'[i].account \in (1..madeUsers) \cup {None}
  PROVE  DatabaseInv'
<1>1. RowsInv' /\ UniqueInv' /\ Present' = Present
  BY SameRows DEF DatabaseInv
<1>2. RefsInv'
  BY <1>1 DEF DatabaseInv, RefsInv, There
<1>3. InvitationsInv'
  BY DEF DatabaseInv, InvitationsInv
<1>4. QED
  BY <1>1, <1>2, <1>3 DEF DatabaseInv

\* What is known of an invitation that is there.
LEMMA InvitationThere ==
  ASSUME DatabaseInv, NEW i \in Invitations, invitations[i] # None
  PROVE  /\ invitations[i] \in Invitation /\ There(invitations[i].by)
         /\ invitations[i].account \in (1..madeUsers) \cup {None}
BY DEF DatabaseInv, InvitationsInv, RefsInv

\* Clearing takes invitations away or revokes them.
LEMMA ClearedFacts ==
  ASSUME DatabaseInv, NEW email, NEW i \in Invitations
  PROVE  /\ \/ Cleared(email)[i] = None
            \/ Cleared(email)[i] = invitations[i]
            \/ /\ invitations[i] # None
               /\ Cleared(email)[i] = [invitations[i] EXCEPT !.revoked = TRUE]
         /\ Open(i) /\ invitations[i].email = email =>
              Cleared(email)[i] = [invitations[i] EXCEPT !.revoked = TRUE]
<1>1. Cleared(email)[i] =
        CASE invitations[i] # None /\ invitations[i].expired -> None
          [] Open(i) /\ invitations[i].email = email -> [invitations[i] EXCEPT !.revoked = TRUE]
          [] OTHER -> invitations[i]
  BY DEF Cleared
<1>2. CASE invitations[i] # None /\ invitations[i].expired
  BY <1>1, <1>2 DEF Open
<1>3. CASE Open(i) /\ invitations[i].email = email
  BY <1>1, <1>3 DEF Open
<1>4. CASE /\ ~(invitations[i] # None /\ invitations[i].expired)
           /\ ~(Open(i) /\ invitations[i].email = email)
  BY <1>1, <1>4
<1>5. QED
  BY <1>2, <1>3, <1>4

\* Clearing for an address keeps every invitation an invitation.
LEMMA ClearTypes ==
  ASSUME TypeInv, NEW p \in Requests, ClearInvitations(p)
  PROVE  TypeInv'
<1>1. /\ step[p] = "clear" /\ UNCHANGED Elsewhere /\ UNCHANGED past
      /\ UNCHANGED <<users, madeUsers, admins, passwords, owners, madeInvitations>>
      /\ invitations' = Cleared(task[p].email) /\ Go(p, "insert", task[p])
  BY DEF ClearInvitations
<1>2. task[p] \in Task /\ task[p].user \in Users /\ task[p].email \in Emails /\ madeUsers \in Nat
  BY <1>1, Held DEF Holds
<1>3. DatabaseInv /\ DOMAIN invitations' = Invitations
  BY <1>1 DEF TypeInv, Cleared
<1>4. ASSUME NEW i \in Invitations, invitations'[i] # None
      PROVE  /\ invitations'[i] \in Invitation /\ There(invitations'[i].by)
             /\ invitations'[i].account \in (1..madeUsers) \cup {None}
  <2>1. invitations[i] # None
    BY <1>1, <1>3, <1>4, ClearedFacts
  <2>2. /\ invitations[i] \in Invitation /\ There(invitations[i].by)
        /\ invitations[i].account \in (1..madeUsers) \cup {None}
    BY <1>3, <2>1, InvitationThere
  <2>3. CASE invitations'[i] = invitations[i]
    BY <2>2, <2>3
  <2>4. CASE invitations'[i] = [invitations[i] EXCEPT !.revoked = TRUE]
    BY <2>2, <2>4 DEF Invitation
  <2>5. QED
    BY <1>1, <1>3, <1>4, <2>3, <2>4, ClearedFacts
<1>5. invitations' \in [Invitations -> Invitation \cup {None}]
  BY <1>1, <1>4 DEF Cleared
<1>6. DatabaseInv'
  BY <1>1, <1>3, <1>4, <1>5, InvitationsDatabase
     DEF past, DatabaseInv, InvitationsInv
<1>7. Holds("insert", task[p], madeUsers')
  BY <1>2 DEF Holds
<1>8. TasksInv'
  BY <1>1, <1>2, <1>7, GoTasks DEF TypeInv, Steps
<1>9. StartInv'
  BY <1>1, AtWork, StartStays DEF TypeInv
<1>10. QED
  BY <1>6, <1>8, <1>9 DEF TypeInv

\* A new invitation refers to whoever sent it, who is still there.
LEMMA InsertTypes ==
  ASSUME TypeInv, NEW p \in Requests, InsertInvitation(p)
  PROVE  TypeInv'
<1>1. /\ step[p] = "insert" /\ UNCHANGED Elsewhere /\ Rest(p)
      /\ UNCHANGED <<users, madeUsers, admins, passwords, owners>>
      /\ UNCHANGED <<barred, overwritten, renamed>>
  BY DEF InsertInvitation
<1>2. task[p].user \in Users /\ task[p].email \in Emails /\ madeUsers \in Nat
  BY <1>1, Held DEF Holds
<1>3. DatabaseInv'
  <2>1. CASE There(task[p].user)
    <3> DEFINE row == [email |-> task[p].email, by |-> task[p].user, accepted |-> FALSE,
                       revoked |-> FALSE, expired |-> FALSE, account |-> None]
    <3>1. /\ madeInvitations < MaxInvitations
          /\ madeInvitations' = madeInvitations + 1
          /\ invitations' = [invitations EXCEPT ![madeInvitations + 1] = row]
      BY <2>1 DEF InsertInvitation
    <3>2. row \in Invitation /\ row.by = task[p].user /\ row.account = None
      BY <1>2 DEF Invitation
    <3> HIDE DEF row
    <3>3. /\ invitations \in [Invitations -> Invitation \cup {None}] /\ madeInvitations \in Nat
      BY DEF TypeInv, DatabaseInv, InvitationsInv
    <3>4. invitations' \in [Invitations -> Invitation \cup {None}] /\ madeInvitations' \in Nat
      <4>1. madeInvitations + 1 \in Invitations
        BY <3>1, <3>3, AccountsAssumption DEF Invitations
      <4>2. QED
        BY <3>1, <3>2, <3>3, <4>1
    <3>5. ASSUME NEW i \in Invitations, invitations'[i] # None
          PROVE  /\ There(invitations'[i].by)
                 /\ invitations'[i].account \in (1..madeUsers) \cup {None}
      <4>1. CASE invitations'[i] = row
        BY <2>1, <3>2, <4>1
      <4>2. CASE invitations'[i] = invitations[i]
        BY <3>5, <4>2, InvitationThere DEF TypeInv
      <4>3. QED
        BY <3>1, <3>3, <4>1, <4>2
    <3>6. QED
      BY <1>1, <3>4, <3>5, InvitationsDatabase DEF TypeInv
  <2>2. CASE ~There(task[p].user)
    BY <1>1, <2>2, SameDatabase DEF InsertInvitation, TypeInv, rows
  <2>3. QED
    BY <2>1, <2>2
<1>4. TasksInv'
  BY <1>1, <1>2, RestTasks DEF TypeInv
<1>5. StartInv'
  BY <1>1, AtWork, StartStays DEF TypeInv
<1>6. QED
  BY <1>3, <1>4, <1>5 DEF TypeInv

\* Marks and ends of an invitation touch neither its address nor its sender.
LEMMA OneInvitation ==
  ASSUME DatabaseInv, NEW i \in Invitations, NEW row \in Invitation \cup {None},
         row # None => /\ invitations[i] # None /\ row.by = invitations[i].by
                       /\ row.account \in (1..madeUsers) \cup {None},
         invitations' = [invitations EXCEPT ![i] = row],
         UNCHANGED <<users, madeUsers, admins, passwords, owners, madeInvitations>>,
         UNCHANGED <<barred, overwritten, renamed>>
  PROVE  DatabaseInv'
<1>1. invitations \in [Invitations -> Invitation \cup {None}] /\ madeInvitations \in Nat
  BY DEF DatabaseInv, InvitationsInv
<1>2. invitations' \in [Invitations -> Invitation \cup {None}]
  BY <1>1
<1>3. ASSUME NEW k \in Invitations, invitations'[k] # None
      PROVE  /\ There(invitations'[k].by)
             /\ invitations'[k].account \in (1..madeUsers) \cup {None}
  <2>1. CASE k = i
    BY <1>1, <1>3, <2>1, InvitationThere
  <2>2. CASE k # i
    BY <1>1, <1>3, <2>2, InvitationThere
  <2>3. QED
    BY <2>1, <2>2
<1>4. QED
  BY <1>1, <1>2, <1>3, InvitationsDatabase

\* The mark names an account that was made.
LEMMA MarkTypes ==
  ASSUME TypeInv, NEW p \in Requests, Mark(p)
  PROVE  TypeInv'
<1>1. PICK i : i = task[p].invitation
  OBVIOUS
<1>2. /\ step[p] = "mark" /\ UNCHANGED Elsewhere /\ Rest(p) /\ UNCHANGED past
      /\ UNCHANGED <<users, madeUsers, admins, passwords, owners, madeInvitations>>
      /\ invitations' = IF invitations[i] = None THEN invitations
           ELSE [invitations EXCEPT ![i].accepted = TRUE, ![i].account = task[p].user]
  BY <1>1 DEF Mark
<1>3. /\ i \in Invitations /\ task[p].user \in 1..madeUsers /\ task[p].user \in Users
      /\ madeUsers \in Nat
  BY <1>1, <1>2, Held DEF Holds
<1>4. DatabaseInv'
  <2>1. CASE invitations[i] = None
    BY <1>2, <2>1, SameDatabase DEF TypeInv, rows, past
  <2>2. CASE invitations[i] # None
    <3> DEFINE row == [invitations[i] EXCEPT !.accepted = TRUE, !.account = task[p].user]
    <3>1. invitations[i] \in Invitation
      BY <1>3, <2>2, InvitationThere DEF TypeInv
    <3>2. row \in Invitation /\ row.by = invitations[i].by /\ row.account = task[p].user
      BY <1>3, <3>1 DEF Invitation
    <3>3. invitations' = [invitations EXCEPT ![i] = row]
      BY <1>2, <1>3, <2>2, <3>1 DEF TypeInv, DatabaseInv, InvitationsInv, Invitation
    <3> HIDE DEF row
    <3>4. QED
      BY <1>2, <1>3, <2>2, <3>2, <3>3, OneInvitation DEF TypeInv, past
  <2>3. QED
    BY <2>1, <2>2
<1>5. TasksInv'
  BY <1>2, <1>3, RestTasks DEF TypeInv
<1>6. StartInv'
  BY <1>2, AtWork, StartStays DEF TypeInv
<1>7. QED
  BY <1>4, <1>5, <1>6 DEF TypeInv

\* An invitation taken away is referred to by nobody.
LEMMA DeleteInvitationTypes ==
  ASSUME TypeInv, NEW p \in Requests, NEW i \in Invitations, DeleteInvitation(p, i)
  PROVE  TypeInv'
<1>1. DatabaseInv' /\ madeUsers' = madeUsers /\ madeUsers \in Nat
  <2>1. /\ invitations' = [invitations EXCEPT ![i] = None]
        /\ UNCHANGED <<users, madeUsers, admins, passwords, owners, madeInvitations>>
        /\ UNCHANGED <<barred, overwritten, renamed>>
    BY DEF DeleteInvitation, past
  <2>2. DatabaseInv /\ madeUsers \in Nat
    BY Held DEF TypeInv
  <2>3. DatabaseInv'
    BY <2>1, <2>2, OneInvitation
  <2>4. QED
    BY <2>1, <2>2, <2>3
<1>2. TasksInv'
  BY <1>1, RestTasks DEF DeleteInvitation, TypeInv
<1>3. StartInv'
  BY StartStays DEF TypeInv, DeleteInvitation, Begin
<1>4. QED
  BY <1>1, <1>2, <1>3 DEF TypeInv

\* Passwords go only to accounts that are there.
LEMMA PasswordTypes ==
  ASSUME TypeInv, NEW p \in Requests, SetPassword(p)
  PROVE  TypeInv'
<1>1. /\ step[p] = "password" /\ UNCHANGED Elsewhere /\ UNCHANGED past
      /\ UNCHANGED <<users, madeUsers, admins, owners, invitations, madeInvitations>>
      /\ passwords' \subseteq passwords \cup Present
  BY DEF SetPassword
<1>2. /\ task[p] \in Task /\ task[p].user \in 1..madeUsers /\ task[p].user \in Users
      /\ task[p].invitation \in Invitations /\ madeUsers \in Nat
  BY <1>1, Held DEF Holds
<1>3. DatabaseInv'
  <2>1. RowsInv' /\ UniqueInv' /\ Present' = Present
    BY <1>1, SameRows DEF TypeInv, DatabaseInv
  <2>2. QED
    BY <1>1, <2>1 DEF TypeInv, DatabaseInv, RefsInv, InvitationsInv, There, past
<1>4. TasksInv'
  <2>1. CASE Rest(p)
    BY <1>1, <1>2, <2>1, RestTasks DEF TypeInv
  <2>2. CASE ~Rest(p)
    <3> DEFINE t == [Blank EXCEPT !.user = task[p].user, !.invitation = task[p].invitation]
    <3>1. Go(p, "mark", t)
      BY <2>2 DEF SetPassword
    <3>2. t \in Task /\ t.user = task[p].user /\ t.invitation = task[p].invitation
      BY <1>2 DEF Blank, Task, Changes
    <3> HIDE DEF t
    <3>3. Holds("mark", t, madeUsers')
      BY <1>1, <1>2, <3>2 DEF Holds
    <3>4. QED
      BY <1>1, <1>2, <3>1, <3>2, <3>3, GoTasks DEF TypeInv, Steps
  <2>3. QED
    BY <2>1, <2>2
<1>5. StartInv'
  BY <1>1, AtWork, StartStays DEF TypeInv
<1>6. QED
  BY <1>3, <1>4, <1>5 DEF TypeInv

\* A request that fails holds nothing any more.
LEMMA FailTypes ==
  ASSUME TypeInv, NEW p \in Requests, Fail(p)
  PROVE  TypeInv'
<1>1. /\ step[p] \notin {"idle", "done"} /\ UNCHANGED Elsewhere /\ Rest(p)
      /\ UNCHANGED rows /\ UNCHANGED <<barred, overwritten, renamed>>
  BY DEF Fail, Busy
<1>2. DatabaseInv' /\ madeUsers' = madeUsers /\ madeUsers \in Nat
  BY <1>1, SameDatabase DEF TypeInv
<1>3. TasksInv'
  BY <1>1, <1>2, RestTasks DEF TypeInv
<1>4. StartInv'
  BY <1>1, AtWork, StartStays DEF TypeInv
<1>5. QED
  BY <1>2, <1>3, <1>4 DEF TypeInv

(***************************************************************************)
(* Types, references and what is held are kept: everything else.           *)
(***************************************************************************)

\* Whoever comes to own something is there.
LEMMA OwnTypes ==
  ASSUME TypeInv, NEW u \in Users, Own(u)
  PROVE  TypeInv'
<1>1. /\ Up /\ There(u) /\ owners' = owners \cup {u}
      /\ UNCHANGED <<users, madeUsers, admins, passwords, invitations, madeInvitations>>
      /\ UNCHANGED <<step, task>> /\ UNCHANGED Elsewhere /\ UNCHANGED past
  BY DEF Own
<1>2. RowsInv' /\ UniqueInv' /\ Present' = Present
  BY <1>1, SameRows DEF TypeInv, DatabaseInv
<1>3. DatabaseInv'
  BY <1>1, <1>2 DEF TypeInv, DatabaseInv, RefsInv, InvitationsInv, There, past, Present
<1>4. TasksInv'
  BY <1>1, SameTasks DEF TypeInv, DatabaseInv, RowsInv
<1>5. StartInv'
  BY <1>1, StartStays DEF TypeInv
<1>6. QED
  BY <1>3, <1>4, <1>5 DEF TypeInv

\* What touches no row but an invitation leaves the tasks and the start.
LEMMA StartSame ==
  ASSUME StartInv, UNCHANGED <<users, step, boot, file, watch>>
  PROVE  StartInv'
<1>1. Present' = Present
  BY DEF Present, There
<1>2. QED
  BY <1>1 DEF StartInv, Up, Busy

\* An invitation that ends is otherwise what it was.
LEMMA ExpireTypes ==
  ASSUME TypeInv, NEW i \in Invitations, Expire(i)
  PROVE  TypeInv'
<1>1. /\ invitations[i] # None
      /\ invitations' = [invitations EXCEPT ![i].expired = TRUE]
      /\ UNCHANGED <<users, madeUsers, admins, passwords, owners, madeInvitations>>
      /\ UNCHANGED <<step, task, boot, file, watch>> /\ UNCHANGED past
  BY DEF Expire, Elsewhere
<1>2. DatabaseInv'
  <2> DEFINE row == [invitations[i] EXCEPT !.expired = TRUE]
  <2>1. invitations[i] \in Invitation
    BY <1>1, InvitationThere DEF TypeInv
  <2>2. row \in Invitation /\ row.by = invitations[i].by /\ row.account = invitations[i].account
    BY <2>1 DEF Invitation
  <2>3. invitations' = [invitations EXCEPT ![i] = row]
    BY <1>1
  <2>4. invitations[i].account \in (1..madeUsers) \cup {None}
    BY <1>1, InvitationThere DEF TypeInv
  <2> HIDE DEF row
  <2>5. QED
    BY <1>1, <2>2, <2>3, <2>4, OneInvitation DEF TypeInv, past
<1>3. TasksInv'
  BY <1>1, SameTasks DEF TypeInv, DatabaseInv, RowsInv
<1>4. StartInv'
  BY <1>1, StartSame DEF TypeInv
<1>5. QED
  BY <1>2, <1>3, <1>4 DEF TypeInv

\* The file holds names only of those it may hold.
LEMMA EditTypes ==
  ASSUME TypeInv, NEW names \in SUBSET Shadow, Edit(names)
  PROVE  TypeInv'
<1>1. /\ file' = names /\ UNCHANGED <<step, task, boot, watch>> /\ UNCHANGED past
      /\ UNCHANGED rows
  BY DEF Edit
<1>2. DatabaseInv' /\ Present' = Present /\ madeUsers' = madeUsers /\ madeUsers \in Nat
  BY <1>1, SameDatabase DEF TypeInv, past
<1>3. TasksInv'
  BY <1>1, <1>2, SameTasks DEF TypeInv
<1>4. StartInv'
  BY <1>1, <1>2 DEF TypeInv, StartInv, Up, Busy
<1>5. QED
  BY <1>2, <1>3, <1>4 DEF TypeInv

\* Before the API is up nobody is served and nothing watched; the start goes from one
\* of its steps to another.
LEMMA StartMoves ==
  ASSUME StartInv, ~Up,
         boot' \in [step : {"down", "create", "role", "password", "purge", "import", "up"},
                    names : SUBSET Names, user : Users \cup {None}],
         boot'.step \in {"role", "password"} => boot'.user \in Present',
         UNCHANGED <<step, file, watch>>
  PROVE  StartInv'
BY DEF StartInv, Up, Busy

\* The steps of the start: the administrator made, found or purged, and the file imported.
LEMMA BootTypes ==
  ASSUME TypeInv,
         Boot \/ CreateAdmin \/ GiveAdminRole \/ SetAdminPassword \/ PurgeAdmins \/ ImportOne
  PROVE  TypeInv'
<1> DEFINE Boots == [step : {"down", "create", "role", "password", "purge", "import", "up"},
                     names : SUBSET Names, user : Users \cup {None}]
<1>1. boot \in Boots /\ file \in SUBSET Names
  BY NoneApart DEF TypeInv, StartInv
<1>2. boot.step # "up" => ~Up
  BY DEF Up
<1>3. UNCHANGED <<step, task, file>>
      /\ UNCHANGED <<barred, overwritten, renamed, owners, invitations, madeInvitations>>
  BY DEF Boot, CreateAdmin, GiveAdminRole, SetAdminPassword, PurgeAdmins, ImportOne, Quiet
<1>4. UNCHANGED watch
  BY DEF Boot, CreateAdmin, GiveAdminRole, SetAdminPassword, PurgeAdmins, ImportOne, Quiet
<1>5. DatabaseInv /\ madeUsers \in Nat
  BY DEF TypeInv, DatabaseInv, RowsInv
<1>6. CASE Boot
  <2>1. DatabaseInv' /\ madeUsers' = madeUsers
    BY <1>3, <1>5, <1>6, SameDatabase DEF Boot, rows
  <2>2. boot' \in Boots /\ boot'.step \notin {"role", "password"} /\ ~Up
    BY <1>1, <1>2, <1>6 DEF Boot
  <2>3. QED
    BY <1>3, <1>4, <1>5, <2>1, <2>2, SameTasks, StartMoves DEF TypeInv
<1>7. CASE CreateAdmin
  <2>1. CASE AdminName \in Taken
    <3>1. DatabaseInv' /\ madeUsers' = madeUsers
      BY <1>3, <1>5, <1>7, <2>1, SameDatabase DEF CreateAdmin, rows
    <3>2. boot' \in Boots /\ boot'.step \notin {"role", "password"} /\ ~Up
      BY <1>1, <1>2, <1>7, <2>1 DEF CreateAdmin, At
    <3>3. QED
      BY <1>3, <1>4, <1>5, <3>1, <3>2, SameTasks, StartMoves DEF TypeInv
  <2>2. CASE AdminName \notin Taken
    <3>1. None \notin Reachable /\ Register(AdminName, None, FALSE)
      BY <1>7, <2>2 DEF CreateAdmin, Reachable
    <3>2. /\ DatabaseInv' /\ madeUsers' = madeUsers + 1 /\ madeUsers + 1 \in Users
          /\ madeUsers + 1 \in Present'
      BY <1>3, <1>5, <1>7, <2>2, <3>1, NoneApart, RegisterDatabase DEF CreateAdmin
    <3>3. boot' \in Boots /\ boot'.user = madeUsers + 1 /\ ~Up
      BY <1>1, <1>2, <1>7, <2>2, <3>2 DEF CreateAdmin
    <3>4. TasksInv' /\ StartInv'
      BY <1>3, <1>4, <1>5, <3>2, <3>3, SameTasks, StartMoves DEF TypeInv
    <3>5. QED
      BY <3>2, <3>4 DEF TypeInv
  <2>3. QED
    BY <2>1, <2>2
<1>8. CASE ImportOne
  <2>1. PICK n \in Unknown : Register(n, None, FALSE)
    BY <1>8 DEF ImportOne
  <2>2. None \notin Reachable /\ n \in Names /\ n \notin Taken
    BY <1>1, <2>1 DEF Unknown, Reachable
  <2>3. DatabaseInv' /\ madeUsers' = madeUsers + 1
    BY <1>3, <1>5, <1>8, <2>1, <2>2, RegisterDatabase DEF ImportOne
  <2>4. boot' \in Boots /\ boot'.step \notin {"role", "password"} /\ ~Up
    BY <1>1, <1>2, <1>8 DEF ImportOne
  <2>5. TasksInv' /\ StartInv'
    BY <1>3, <1>4, <1>5, <2>3, <2>4, SameTasks, StartMoves DEF TypeInv
  <2>6. QED
    BY <2>3, <2>5 DEF TypeInv
<1>9. CASE GiveAdminRole \/ SetAdminPassword \/ PurgeAdmins
  <2>1. RowsInv' /\ UniqueInv' /\ Present' = Present /\ UNCHANGED <<users, madeUsers>>
    BY <1>5, <1>9, SameRows DEF GiveAdminRole, SetAdminPassword, PurgeAdmins, DatabaseInv
  <2>2. boot.step \in {"role", "password"} => boot.user \in Present
    BY DEF TypeInv, StartInv
  <2>3. admins' \subseteq Present /\ passwords' \subseteq Present
    BY <1>5, <1>9, <2>2
       DEF GiveAdminRole, SetAdminPassword, PurgeAdmins, DatabaseInv, RefsInv
  <2>4. DatabaseInv'
    BY <1>3, <1>5, <2>1, <2>3 DEF DatabaseInv, RefsInv, InvitationsInv, There
  <2>5. /\ boot' \in Boots /\ ~Up
        /\ boot'.step \in {"role", "password"} => boot'.user \in Present'
    BY <1>1, <1>2, <1>9, <2>1, <2>2 DEF GiveAdminRole, SetAdminPassword, PurgeAdmins, At
  <2>6. TasksInv' /\ StartInv'
    BY <1>3, <1>4, <1>5, <2>1, <2>5, SameTasks, StartMoves DEF TypeInv
  <2>7. QED
    BY <2>4, <2>6 DEF TypeInv
<1>10. QED
  BY <1>6, <1>7, <1>8, <1>9

\* The start gives passwords to accounts that are there, and starts the watcher.
LEMMA FinishTypes ==
  ASSUME TypeInv, FinishBoot
  PROVE  TypeInv'
<1>1. /\ UNCHANGED <<users, madeUsers, admins, owners, invitations, madeInvitations>>
      /\ UNCHANGED <<step, task, file, barred, overwritten, renamed>>
      /\ boot' = [step |-> "up", names |-> {}, user |-> None]
      /\ watch' = [Off EXCEPT !.step = "idle", !.seen = file]
      /\ passwords' \subseteq passwords \cup Present
  BY DEF FinishBoot, Quiet
<1>2. RowsInv' /\ UniqueInv' /\ Present' = Present /\ madeUsers \in Nat
  BY <1>1, SameRows DEF TypeInv, DatabaseInv, RowsInv
<1>3. DatabaseInv'
  BY <1>1, <1>2 DEF TypeInv, DatabaseInv, RefsInv, InvitationsInv, There
<1>4. TasksInv'
  BY <1>1, <1>2, SameTasks DEF TypeInv
<1>5. file \subseteq Names
  BY NoneApart DEF TypeInv, StartInv
<1>6. StartInv'
  BY <1>1, <1>5 DEF TypeInv, StartInv, Off, Up
<1>7. QED
  BY <1>3, <1>4, <1>6 DEF TypeInv

\* A crash takes what every process holds, and no row.
LEMMA CrashTypes ==
  ASSUME TypeInv, Crash
  PROVE  TypeInv'
<1>1. /\ UNCHANGED rows /\ UNCHANGED <<file, barred, overwritten, renamed>>
      /\ boot' = [step |-> "down", names |-> {}, user |-> None] /\ watch' = Off
      /\ step' = [p \in Requests |-> IF p \in Busy THEN "done" ELSE step[p]]
      /\ task' = [p \in Requests |-> Blank]
  BY DEF Crash
<1>2. DatabaseInv' /\ madeUsers' = madeUsers
  BY <1>1, SameDatabase DEF TypeInv
<1>3. \A p \in Requests : step'[p] \in {"idle", "done"}
  BY <1>1 DEF Busy
<1>4. TasksInv'
  <2>1. \A p \in Requests : Holds(step'[p], task'[p], madeUsers')
    BY <1>3 DEF Holds
  <2>2. step' \in [Requests -> Steps] /\ task' \in [Requests -> Task]
    BY <1>1, <1>3, BlankHolds DEF Steps
  <2>3. QED
    BY <2>1, <2>2 DEF TasksInv
<1>5. StartInv'
  BY <1>1, <1>3 DEF TypeInv, StartInv, Off, Up, Busy
<1>6. QED
  BY <1>2, <1>4, <1>5 DEF TypeInv

\* A pass of the watcher happens only while the API is up.
LEMMA WatchMoves ==
  ASSUME StartInv, watch.step # "off", UNCHANGED <<boot, file>>,
         watch' \in [step : {"off", "idle", "read", "list", "apply"}, seen : SUBSET Names,
                     names : SUBSET Names, wildfire : SUBSET Users, add : SUBSET Names,
                     drop : SUBSET Users]
  PROVE  StartInv'
BY DEF StartInv, Up

\* A pass of the watcher: its additions have free names, its removals nothing referring to them.
LEMMA PassTypes ==
  ASSUME TypeInv, Pass
  PROVE  TypeInv'
<1> DEFINE Watches ==
             [step : {"off", "idle", "read", "list", "apply"}, seen : SUBSET Names,
              names : SUBSET Names, wildfire : SUBSET Users, add : SUBSET Names,
              drop : SUBSET Users]
<1>1. /\ UNCHANGED <<owners, invitations, madeInvitations, step, task, boot, file>>
      /\ watch.step # "off"
  BY DEF Pass, Notice, Read, List, Add, Drop, EndPass, FailPass, Still
<1>2. DatabaseInv /\ madeUsers \in Nat /\ watch \in Watches /\ file \subseteq Names
  BY NoneApart DEF TypeInv, StartInv, DatabaseInv, RowsInv
<1>3. Present \subseteq Users /\ passwords \subseteq Users /\ Dcism \subseteq Users
  BY <1>2 DEF Present, DatabaseInv, RefsInv, Dcism
<1>4. Relax => watch' \in Watches
  BY <1>2 DEF Relax, Off
<1>5. ASSUME Notice \/ Read \/ List \/ EndPass \/ FailPass
      PROVE  TypeInv'
  <2>1. DatabaseInv' /\ madeUsers' = madeUsers
    BY <1>1, <1>2, <1>5, SameDatabase DEF Notice, Read, List, EndPass, FailPass, Kept, rows
  <2>2. watch' \in Watches
    <3>1. CASE Notice
      BY <1>2, <3>1 DEF Notice
    <3>2. CASE Read
      BY <1>2, <1>3, <3>2 DEF Read
    <3>3. CASE List
      <4> DEFINE gone == {u \in Dcism : users[u].name \notin watch.names}
                 more == watch.names \ Taken
                 less == IF 2 * Cardinality(gone) > Cardinality(Dcism) THEN {} ELSE gone
      <4>1. more \subseteq Names /\ less \subseteq Users
        BY <1>2, <1>3
      <4>2. watch' = [watch EXCEPT !.step = "apply", !.add = more, !.drop = less]
        BY <3>3 DEF List
      <4> HIDE DEF more, less
      <4>3. QED
        BY <1>2, <4>1, <4>2
    <3>4. CASE EndPass \/ FailPass
      BY <1>4, <3>4 DEF EndPass, FailPass
    <3>5. QED
      BY <1>5, <3>1, <3>2, <3>3, <3>4
  <2>3. TasksInv' /\ StartInv'
    BY <1>1, <1>2, <2>1, <2>2, SameTasks, WatchMoves DEF TypeInv
  <2>4. QED
    BY <2>1, <2>3 DEF TypeInv
<1>6. CASE Add
  <2>1. PICK n \in watch.add :
          IF n \in Taken
          THEN Relax /\ missed' = TRUE /\ UNCHANGED <<users, madeUsers>>
          ELSE /\ Register(n, None, FALSE)
               /\ watch' = [watch EXCEPT !.add = @ \ {n}]
               /\ UNCHANGED missed
    BY <1>6 DEF Add
  <2>2. n \in Names /\ None \notin Reachable
    BY <1>2, <2>1 DEF Reachable
  <2>3. UNCHANGED <<admins, passwords, barred, overwritten, renamed>>
    BY <1>6 DEF Add, Kept
  <2>4. DatabaseInv' /\ madeUsers' \in Nat /\ madeUsers <= madeUsers' /\ watch' \in Watches
    <3>1. CASE n \in Taken
      BY <1>1, <1>2, <1>4, <2>1, <2>3, <3>1, SameDatabase DEF rows
    <3>2. CASE n \notin Taken
      <4>1. DatabaseInv' /\ madeUsers' = madeUsers + 1
        BY <1>1, <1>2, <2>1, <2>2, <2>3, <3>2, RegisterDatabase
      <4>2. watch' \in Watches
        BY <1>2, <2>1, <3>2
      <4>3. QED
        BY <1>2, <4>1, <4>2
    <3>3. QED
      BY <3>1, <3>2
  <2>5. TasksInv' /\ StartInv'
    BY <1>1, <1>2, <2>4, SameTasks, WatchMoves DEF TypeInv
  <2>6. QED
    BY <2>4, <2>5 DEF TypeInv
<1>7. CASE Drop
  <2>1. PICK u \in watch.drop :
          IF Referred(u)
          THEN Relax /\ missed' = TRUE /\ UNCHANGED <<users, admins, passwords, Kept>>
          ELSE /\ Remove(u)
               /\ watch' = [watch EXCEPT !.drop = @ \ {u}]
               /\ IF There(u) THEN GivenUp(users[u].name) ELSE UNCHANGED missed
    BY <1>7 DEF Drop
  <2>2. u \in Users /\ UNCHANGED madeUsers
    BY <1>2, <1>7, <2>1 DEF Drop
  <2>3. DatabaseInv' /\ watch' \in Watches
    <3>1. CASE Referred(u)
      BY <1>1, <1>2, <1>4, <2>1, <2>2, <3>1, SameDatabase DEF rows, Kept
    <3>2. CASE ~Referred(u)
      <4>1. DatabaseInv'
        BY <1>1, <1>2, <2>1, <2>2, <3>2, RemoveDatabase
      <4>2. watch' \in Watches
        BY <1>2, <2>1, <3>2
      <4>3. QED
        BY <4>1, <4>2
    <3>3. QED
      BY <3>1, <3>2
  <2>4. TasksInv' /\ StartInv'
    BY <1>1, <1>2, <2>2, <2>3, SameTasks, WatchMoves DEF TypeInv
  <2>5. QED
    BY <2>3, <2>4 DEF TypeInv
<1>8. QED
  BY <1>5, <1>6, <1>7 DEF Pass

\* Before the first start there is nobody, or one account an invitation has made.
LEMMA TypesStart == Init => TypeInv
<1> SUFFICES ASSUME Init PROVE TypeInv
  OBVIOUS
<1>1. 1 \in Users
  BY NoneApart
<1>2. RowsInv /\ UniqueInv /\ passwords \subseteq Present
  <2>1. CASE users = [u \in Users |-> None] /\ madeUsers = 0 /\ passwords = {}
    BY <2>1, NoneApart DEF RowsInv, UniqueInv, Present, There
  <2>2. CASE /\ \E name \in Earlier :
                  users = [u \in Users |-> IF u = 1 THEN
                             [name |-> name, email |-> None, invited |-> TRUE,
                              active |-> TRUE, banned |-> FALSE] ELSE None]
             /\ madeUsers = 1 /\ passwords \in {{}, {1}}
    <3>1. PICK name \in Earlier :
                  users = [u \in Users |-> IF u = 1 THEN
                             [name |-> name, email |-> None, invited |-> TRUE,
                              active |-> TRUE, banned |-> FALSE] ELSE None]
      BY <2>2
    <3> DEFINE row == [name |-> name, email |-> None, invited |-> TRUE,
                       active |-> TRUE, banned |-> FALSE]
    <3>2. row \in Row
      BY NoneApart DEF Row
    <3>3. users = [u \in Users |-> IF u = 1 THEN row ELSE None]
      BY <3>1
    <3> HIDE DEF row
    <3>4. Present = {1}
      BY <1>1, <3>2, <3>3, NoneApart DEF Present, There
    <3>5. RowsInv
      <4>1. users \in [Users -> Row \cup {None}]
        BY <3>2, <3>3
      <4>2. \A u \in Users : There(u) => u <= 1
        BY <3>4 DEF Present
      <4>3. madeUsers = 1 /\ 1 \in 0..MaxUsers
        BY <2>2, NoneApart
      <4>4. QED
        BY <4>1, <4>2, <4>3 DEF RowsInv
    <3>6. QED
      BY <2>2, <3>4, <3>5 DEF UniqueInv
  <2>3. QED
    BY <2>1, <2>2 DEF Init
<1>3. RefsInv /\ InvitationsInv
  BY <1>2 DEF Init, RefsInv, InvitationsInv
<1>4. TasksInv
  BY BlankHolds DEF Init, TasksInv, Steps, Holds
<1>5. StartInv
  BY DEF Init, StartInv, Off, Up, Busy
<1>6. QED
  BY <1>2, <1>3, <1>4, <1>5 DEF TypeInv, DatabaseInv

\* Nothing happens.
LEMMA TypesStutter ==
  ASSUME TypeInv, UNCHANGED vars
  PROVE  TypeInv'
<1>1. UNCHANGED <<rows, step, task, boot, file, watch, past>>
  BY DEF vars
<1>2. DatabaseInv' /\ madeUsers' = madeUsers /\ madeUsers \in Nat
  BY <1>1, SameDatabase DEF TypeInv, past
<1>3. TasksInv'
  BY <1>1, <1>2, SameTasks DEF TypeInv
<1>4. StartInv'
  BY <1>1, StartSame DEF TypeInv, rows
<1>5. QED
  BY <1>2, <1>3, <1>4 DEF TypeInv

\* Every step keeps types, references and what is held.
LEMMA TypesStep == TypeInv /\ [Next]_vars => TypeInv'
<1> SUFFICES ASSUME TypeInv, [Next]_vars PROVE TypeInv'
  OBVIOUS
<1>1. ASSUME NEW p \in Requests, Ask(p)
      PROVE  TypeInv'
  BY <1>1, AskShape, AskedTypes, DeleteInvitationTypes
<1>2. ASSUME NEW p \in Requests, Serve(p)
      PROVE  TypeInv'
  BY <1>2, CreateTypes, CleanUpTypes, LoadTypes, SaveTypes, DeleteTypes, ClearTypes,
     InsertTypes, EnrollTypes, PasswordTypes, MarkTypes, FailTypes DEF Serve
<1>3. CASE Startup
  BY <1>3, BootTypes, FinishTypes, CrashTypes DEF Startup
<1>4. CASE UNCHANGED vars
  BY <1>4, TypesStutter
<1>5. QED
  BY <1>1, <1>2, <1>3, <1>4, OwnTypes, ExpireTypes, EditTypes, PassTypes DEF Next

\* The invariant is at least the type invariant of the runs.
LEMMA TypesHold == TypeInv => TypeOK
<1> SUFFICES ASSUME TypeInv PROVE TypeOK
  OBVIOUS
<1>1. RowsInv /\ UniqueInv /\ RefsInv /\ InvitationsInv /\ TasksInv
  BY DEF TypeInv, DatabaseInv
<1>2. \A p \in Requests : step[p] = "save" => task[p].row \in Row
  BY <1>1 DEF TasksInv, Holds
<1>3. barred \subseteq Users
  BY <1>1 DEF RefsInv, Present
<1>4. QED
  BY <1>1, <1>2, <1>3 DEF TypeOK, RowsInv, UniqueInv, RefsInv, InvitationsInv

\* It holds in every behaviour.
LEMMA TypesAlways == Spec => []TypeInv
<1>1. QED
  BY TypesStart, TypesStep, PTL DEF Spec

(***************************************************************************)
(* One open invitation.                                                    *)
(***************************************************************************)

\* No invitation opens, and no request comes to insert one.
LEMMA NothingOpens ==
  ASSUME ClearedInv, crowded \subseteq crowded',
         \A i \in Invitations : Open(i)' => Open(i) /\ invitations'[i].email = invitations[i].email,
         \A q \in Requests : step'[q] = "insert" => step[q] = "insert" /\ task'[q] = task[q]
  PROVE  ClearedInv'
<1>1. OneOpenInvitation'
  BY DEF ClearedInv, OneOpenInvitation
<1>2. ASSUME NEW p \in Requests, NEW i \in Invitations,
             step'[p] = "insert", Open(i)', invitations'[i].email = task'[p].email
      PROVE  task'[p].email \in crowded'
  <2>1. step[p] = "insert" /\ Open(i) /\ invitations[i].email = task[p].email
    BY <1>2
  <2>2. QED
    BY <1>2, <2>1 DEF ClearedInv
<1>3. QED
  BY <1>1, <1>2 DEF ClearedInv

\* A request that goes anywhere but to the insertion.
LEMMA GoesElsewhere ==
  ASSUME TasksInv, NEW p \in Requests, NEW s, NEW t, Go(p, s, t), s # "insert"
  PROVE  \A q \in Requests : step'[q] = "insert" => step[q] = "insert" /\ task'[q] = task[q]
BY GoFacts

\* An invitation that stays, or is taken away, or is closed.
LEMMA InvitationsSame ==
  ASSUME UNCHANGED invitations, NEW i \in Invitations
  PROVE  Open(i)' => Open(i) /\ invitations'[i].email = invitations[i].email
BY DEF Open

\* Where invitations are written.
LEMMA OpenRequests ==
  ASSUME TypeInv, ClearedInv, NEW p \in Requests, Ask(p) \/ Serve(p)
  PROVE  ClearedInv'
<1> TasksInv /\ DatabaseInv
  BY DEF TypeInv
<1>1. CASE Asked(p)
  <2>1. PICK s \in {"create", "load", "clean", "delete", "clear", "enroll"}, t \in Task :
          Go(p, s, t) /\ UNCHANGED <<rows, Elsewhere, faults, past>>
    BY <1>1 DEF Asked
  <2>2. QED
    BY <2>1, GoesElsewhere, InvitationsSame, NothingOpens DEF rows, past
<1>2. ASSUME NEW i \in Invitations, DeleteInvitation(p, i)
      PROVE  ClearedInv'
  <2>1. /\ Go(p, "done", Blank) /\ UNCHANGED crowded
        /\ invitations' = [invitations EXCEPT ![i] = None]
    BY <1>2 DEF DeleteInvitation, Rest, past
  <2>2. \A k \in Invitations : Open(k)' => Open(k) /\ invitations'[k].email = invitations[k].email
    BY <2>1 DEF Open, DatabaseInv, InvitationsInv
  <2>3. QED
    BY <2>1, <2>2, GoesElsewhere, NothingOpens
<1>3. CASE Create(p) \/ CleanUp(p) \/ Load(p) \/ Save(p) \/ Delete(p) \/ Enroll(p)
           \/ SetPassword(p) \/ Fail(p)
  <2>1. UNCHANGED <<invitations, crowded>>
    BY <1>3 DEF Create, CleanUp, Load, Save, Written, Delete, Enroll, SetPassword, Fail, rows, past
  <2>2. PICK s, t : Go(p, s, t) /\ s # "insert"
    <3>1. CASE Rest(p)
      BY <3>1 DEF Rest
    <3>2. CASE ~Rest(p) /\ CleanUp(p)
      BY <3>2 DEF CleanUp
    <3>3. CASE ~Rest(p) /\ Load(p)
      BY <3>3 DEF Load
    <3>4. CASE ~Rest(p) /\ Enroll(p)
      <4> DEFINE t == [task[p] EXCEPT !.user = madeUsers + 1, !.email = None]
      <4>1. Go(p, "password", t)
        BY <3>4 DEF Enroll
      <4> HIDE DEF t
      <4>2. QED
        BY <4>1
    <3>5. CASE ~Rest(p) /\ SetPassword(p)
      BY <3>5 DEF SetPassword
    <3>6. QED
      BY <1>3, <3>1, <3>2, <3>3, <3>4, <3>5 DEF Create, Save, Delete, Fail
  <2>3. QED
    BY <2>1, <2>2, GoesElsewhere, InvitationsSame, NothingOpens
<1>4. CASE Mark(p)
  <2>1. PICK i : i = task[p].invitation
    OBVIOUS
  <2>2. /\ Go(p, "done", Blank) /\ UNCHANGED crowded /\ step[p] = "mark"
        /\ invitations' = IF invitations[i] = None THEN invitations
             ELSE [invitations EXCEPT ![i].accepted = TRUE, ![i].account = task[p].user]
    BY <1>4, <2>1 DEF Mark, Rest, past
  <2>3. i \in Invitations
    BY <2>1, <2>2, Held DEF Holds
  <2>4. \A k \in Invitations : Open(k)' => Open(k) /\ invitations'[k].email = invitations[k].email
    <3>1. CASE invitations[i] = None
      BY <2>2, <3>1, InvitationsSame
    <3>2. CASE invitations[i] # None
      <4>1. invitations[i] \in Invitation
        BY <2>3, <3>2, InvitationThere
      <4>2. invitations'[i].accepted = TRUE
        BY <2>2, <2>3, <3>2, <4>1 DEF DatabaseInv, InvitationsInv, Invitation
      <4>3. \A k \in Invitations \ {i} : invitations'[k] = invitations[k]
        BY <2>2, <2>3, <3>2 DEF DatabaseInv, InvitationsInv
      <4>4. QED
        BY <4>2, <4>3 DEF Open
    <3>3. QED
      BY <3>1, <3>2
  <2>5. QED
    BY <2>2, <2>4, GoesElsewhere, NothingOpens
<1>5. CASE ClearInvitations(p)
  <2>1. /\ step[p] = "clear" /\ UNCHANGED crowded
        /\ invitations' = Cleared(task[p].email) /\ Go(p, "insert", task[p])
    BY <1>5 DEF ClearInvitations, past
  <2>2. /\ step'[p] = "insert" /\ task'[p] = task[p]
        /\ \A q \in Requests \ {p} : step'[q] = step[q] /\ task'[q] = task[q]
    BY <2>1, GoFacts
  <2>3. ASSUME NEW k \in Invitations, Open(k)'
        PROVE  /\ Open(k) /\ invitations'[k] = invitations[k]
               /\ invitations[k].email # task[p].email
    <3>1. invitations'[k] # None /\ ~invitations'[k].revoked
      BY <2>3 DEF Open
    <3>2. invitations[k] # None => [invitations[k] EXCEPT !.revoked = TRUE].revoked = TRUE
      BY InvitationThere DEF Invitation
    <3>3. invitations'[k] = invitations[k]
      BY <2>1, <3>1, <3>2, ClearedFacts
    <3>4. Open(k)
      BY <2>3, <3>3 DEF Open
    <3>5. ASSUME invitations[k].email = task[p].email PROVE FALSE
      <4>1. invitations'[k] = [invitations[k] EXCEPT !.revoked = TRUE]
        BY <2>1, <3>4, <3>5, ClearedFacts
      <4>2. QED
        BY <3>1, <3>2, <3>3, <4>1
    <3>6. QED
      BY <3>3, <3>4, <3>5
  <2>4. OneOpenInvitation'
    BY <2>1, <2>3 DEF ClearedInv, OneOpenInvitation
  <2>5. ASSUME NEW q \in Requests, NEW i \in Invitations,
               step'[q] = "insert", Open(i)', invitations'[i].email = task'[q].email
        PROVE  task'[q].email \in crowded'
    <3>1. q # p
      BY <2>2, <2>3, <2>5
    <3>2. step[q] = "insert" /\ task'[q] = task[q] /\ Open(i)
          /\ invitations[i].email = task[q].email
      BY <2>2, <2>3, <2>5, <3>1
    <3>3. QED
      BY <2>1, <3>2 DEF ClearedInv
  <2>6. QED
    BY <2>4, <2>5 DEF ClearedInv
<1>6. CASE InsertInvitation(p)
  <2>1. Go(p, "done", Blank) /\ step[p] = "insert"
    BY <1>6 DEF InsertInvitation, Rest
  <2>2. CASE ~There(task[p].user)
    <3>1. UNCHANGED <<invitations, crowded>>
      BY <1>6, <2>2 DEF InsertInvitation
    <3>2. QED
      BY <2>1, <3>1, GoesElsewhere, InvitationsSame, NothingOpens
  <2>3. CASE There(task[p].user)
    <3> DEFINE row == [email |-> task[p].email, by |-> task[p].user, accepted |-> FALSE,
                       revoked |-> FALSE, expired |-> FALSE, account |-> None]
               alike == {q \in Requests \ {p} : step[q] = "insert"
                                                  /\ task[q].email = task[p].email}
               n == madeInvitations + 1
    <3>1. /\ madeInvitations < MaxInvitations
          /\ invitations' = [invitations EXCEPT ![n] = row]
          /\ crowded' = IF alike = {} THEN crowded ELSE crowded \cup {task[p].email}
      BY <1>6, <2>3 DEF InsertInvitation
    <3>2. n \in Invitations
      BY <3>1, AccountsAssumption DEF Invitations, DatabaseInv, InvitationsInv
    <3>3. invitations'[n].email = task[p].email
          /\ \A k \in Invitations \ {n} : invitations'[k] = invitations[k]
      BY <3>1, <3>2 DEF DatabaseInv, InvitationsInv
    <3>4. /\ \A q \in Requests \ {p} : step'[q] = step[q] /\ task'[q] = task[q]
          /\ step'[p] = "done"
      BY <2>1, GoFacts
    <3>5. crowded \subseteq crowded'
      BY <3>1
    <3>6. \A k \in Invitations \ {n} : Open(k)' => Open(k)
      BY <3>3 DEF Open
    <3>7. \A k \in Invitations : Open(k) /\ invitations[k].email = task[p].email
                                   => task[p].email \in crowded
      BY <2>1 DEF ClearedInv
    <3>8. \A q \in Requests \ {p} : step[q] = "insert" /\ task[q].email = task[p].email
                                      => task[p].email \in crowded'
      BY <3>1
    <3> HIDE DEF row, alike, n
    <3>9. OneOpenInvitation'
      <4> SUFFICES ASSUME NEW i \in Invitations, NEW j \in Invitations, Open(i)', Open(j)',
                          invitations'[i].email = invitations'[j].email, i # j
                   PROVE  invitations'[i].email \in crowded'
        BY DEF OneOpenInvitation
      <4>1. CASE i # n /\ j # n
        BY <3>3, <3>5, <3>6, <4>1 DEF ClearedInv, OneOpenInvitation
      <4>2. CASE i = n \/ j = n
        BY <3>3, <3>5, <3>6, <3>7, <4>2
      <4>3. QED
        BY <4>1, <4>2
    <3>10. ASSUME NEW q \in Requests, NEW i \in Invitations,
                  step'[q] = "insert", Open(i)', invitations'[i].email = task'[q].email
           PROVE  task'[q].email \in crowded'
      <4>1. q # p /\ step[q] = "insert" /\ task'[q] = task[q]
        BY <3>4, <3>10
      <4>2. CASE i = n
        BY <3>3, <3>8, <3>10, <4>1, <4>2
      <4>3. CASE i # n
        BY <3>3, <3>5, <3>6, <3>10, <4>1, <4>3 DEF ClearedInv
      <4>4. QED
        BY <4>2, <4>3
    <3>11. QED
      BY <3>9, <3>10 DEF ClearedInv
  <2>4. QED
    BY <2>2, <2>3
<1>7. QED
  BY <1>1, <1>2, <1>3, <1>4, <1>5, <1>6, AskShape DEF Serve

\* Every step keeps an address to one open invitation, but for requests at once.
LEMMA OpenStep == TypeInv /\ ClearedInv /\ [Next]_vars => ClearedInv'
<1> SUFFICES ASSUME TypeInv, ClearedInv, [Next]_vars PROVE ClearedInv'
  OBVIOUS
<1>1. ASSUME NEW i \in Invitations, Expire(i)
      PROVE  ClearedInv'
  <2>1. /\ UNCHANGED <<step, task, crowded>> /\ invitations[i] # None
        /\ invitations' = [invitations EXCEPT ![i].expired = TRUE]
    BY <1>1 DEF Expire, past
  <2>2. /\ invitations'[i].expired = TRUE
        /\ \A k \in Invitations \ {i} : invitations'[k] = invitations[k]
    BY <2>1, InvitationThere DEF TypeInv, DatabaseInv, InvitationsInv, Invitation
  <2>3. \A k \in Invitations : Open(k)' => Open(k) /\ invitations'[k].email = invitations[k].email
    BY <2>2 DEF Open
  <2>4. QED
    BY <2>1, <2>3, NothingOpens
<1>2. CASE Crash
  <2>1. \A p \in Requests : step'[p] # "insert"
    BY <1>2 DEF Crash, Busy
  <2>2. UNCHANGED <<invitations, crowded>>
    BY <1>2 DEF Crash, rows
  <2>3. QED
    BY <2>1, <2>2, InvitationsSame, NothingOpens
<1>3. CASE UNCHANGED <<invitations, step, task, crowded>>
  BY <1>3, InvitationsSame, NothingOpens
<1>4. ASSUME NEW u \in Users, Own(u)
      PROVE  UNCHANGED <<invitations, step, task, crowded>>
  BY <1>4 DEF Own, past
<1>5. ASSUME NEW names \in SUBSET Shadow, Edit(names)
      PROVE  UNCHANGED <<invitations, step, task, crowded>>
  BY <1>5 DEF Edit, past, rows
<1>6. CASE Startup /\ ~Crash
  BY <1>3, <1>6 DEF Startup, Boot, CreateAdmin, GiveAdminRole, SetAdminPassword, PurgeAdmins,
     ImportOne, FinishBoot, Quiet
<1>7. CASE Pass
  BY <1>3, <1>7 DEF Pass, Notice, Read, List, Add, Drop, EndPass, FailPass, Still
<1>8. CASE UNCHANGED vars
  BY <1>3, <1>8 DEF vars, rows, past
<1>9. QED
  BY <1>1, <1>2, <1>3, <1>4, <1>5, <1>6, <1>7, <1>8, OpenRequests DEF Next

(***************************************************************************)
(* What a step does to the rows, the tasks and the acceptances.            *)
(***************************************************************************)

\* No account is made, written or removed, and nobody loses a password.
Untouched ==
  UNCHANGED <<users, madeUsers, barred, overwritten, renamed>> /\ passwords \subseteq passwords'

\* The next account is made.
Made(name) ==
  /\ madeUsers + 1 \in Users /\ madeUsers + 1 \notin Present
  /\ Present' = Present \cup {madeUsers + 1}
  /\ \A v \in Users \ {madeUsers + 1} : users'[v] = users[v]
  /\ users'[madeUsers + 1].banned = FALSE
  /\ Taken' = Taken \cup {name}
  /\ UNCHANGED <<passwords, barred, overwritten, renamed>>

\* An account is removed, with all that is remembered of it.
Gone(u) ==
  /\ Present' = Present \ {u}
  /\ \A v \in Users \ {u} : users'[v] = users[v]
  /\ There(u) => Taken \ {users[u].name} \subseteq Taken'
  /\ ~There(u) => Taken' = Taken
  /\ passwords' = passwords \ {u} /\ barred' = barred \ {u}
  /\ overwritten' = overwritten \ {u} /\ renamed' = renamed \ {u}

Wrote(p) == Save(p) /\ ~UNCHANGED <<users, past>>

RowStep ==
  \/ Untouched
  \/ \E name \in Names : Made(name)
  \/ \E u \in Users : Gone(u)
  \/ \E p \in Requests : Wrote(p)

\* No request comes to write a row, and none forgets that its row is stale.
NoLoad ==
  \A q \in Requests : step'[q] = "save" =>
    /\ step[q] = "save" /\ task'[q] = task[q]
    /\ q \notin stale' => q \notin stale

\* No request comes to set a password or to mark an invitation.
NoEnroll ==
  \A q \in Requests : step'[q] \in {"password", "mark"} =>
    step'[q] = step[q] /\ task'[q] = task[q]

\* No invitation is accepted.
NoMark ==
  \A i \in Invitations : invitations'[i] # None /\ invitations'[i].accepted =>
    /\ invitations[i] # None /\ invitations[i].accepted
    /\ invitations'[i].account = invitations[i].account

\* Registration, as the other properties see it.
LEMMA RegisterMakes ==
  ASSUME TypeInv, NEW name \in Names, NEW email \in Emails \cup {None},
         NEW invited \in BOOLEAN, name \notin Taken, email \notin Reachable,
         Register(name, email, invited),
         UNCHANGED <<passwords, barred, overwritten, renamed>>
  PROVE  Made(name)
BY RegisterFacts DEF TypeInv, DatabaseInv, Made

\* Removal, as the other properties see it.
LEMMA RemoveMakesGone ==
  ASSUME TypeInv, NEW u \in Users, Remove(u), UNCHANGED madeUsers
  PROVE  Gone(u)
<1>1. /\ passwords' = passwords \ {u} /\ barred' = barred \ {u}
      /\ overwritten' = overwritten \ {u} /\ renamed' = renamed \ {u}
  BY DEF Remove
<1>2. QED
  BY <1>1, RemoveFacts DEF TypeInv, DatabaseInv, Gone

\* What a request does to the accounts.
LEMMA RequestRows ==
  ASSUME TypeInv, NEW p \in Requests, Ask(p) \/ Serve(p)
  PROVE  RowStep
<1>1. CASE Asked(p)
  BY <1>1 DEF Asked, rows, past, RowStep, Untouched
<1>2. ASSUME NEW i \in Invitations, DeleteInvitation(p, i)
      PROVE  RowStep
  BY <1>2 DEF DeleteInvitation, past, RowStep, Untouched
<1>3. CASE CleanUp(p) \/ Load(p) \/ ClearInvitations(p) \/ InsertInvitation(p)
           \/ SetPassword(p) \/ Mark(p) \/ Fail(p)
  <2>1. Untouched
    BY <1>3 DEF CleanUp, Load, ClearInvitations, InsertInvitation, SetPassword, Mark, Fail,
                rows, past, Untouched
  <2>2. QED
    BY <2>1 DEF RowStep
<1>4. CASE Create(p) \/ Enroll(p)
  <2>1. task[p].name \in Names /\ task[p].email \in Emails
    BY <1>4, Held DEF Create, Enroll, Holds
  <2>2. CASE Free(task[p].name, task[p].email)
    <3>1. PICK invited \in BOOLEAN : Register(task[p].name, task[p].email, invited)
      BY <1>4, <2>2 DEF Create, Enroll
    <3>2. UNCHANGED <<passwords, barred, overwritten, renamed>>
      BY <1>4 DEF Create, Enroll, past
    <3>3. Made(task[p].name)
      BY <2>1, <2>2, <3>1, <3>2, RegisterMakes DEF Free
    <3>4. QED
      BY <2>1, <3>3 DEF RowStep
  <2>3. CASE ~Free(task[p].name, task[p].email)
    BY <1>4, <2>3 DEF Create, Enroll, past, RowStep, Untouched
  <2>4. QED
    BY <2>2, <2>3
<1>5. CASE Save(p)
  <2>1. CASE UNCHANGED <<users, past>>
    BY <1>5, <2>1 DEF Save, past, RowStep, Untouched
  <2>2. QED
    BY <1>5, <2>1 DEF RowStep, Wrote
<1>6. CASE Delete(p)
  <2>1. task[p].user \in Users
    BY <1>6, Held DEF Delete, Holds
  <2>2. CASE There(task[p].user) /\ ~Referred(task[p].user)
    <3>1. Gone(task[p].user)
      BY <1>6, <2>1, <2>2, RemoveMakesGone DEF Delete
    <3>2. QED
      BY <2>1, <3>1 DEF RowStep
  <2>3. CASE ~(There(task[p].user) /\ ~Referred(task[p].user))
    BY <1>6, <2>3 DEF Delete, past, RowStep, Untouched
  <2>4. QED
    BY <2>2, <2>3
<1>7. QED
  BY <1>1, <1>2, <1>3, <1>4, <1>5, <1>6, AskShape DEF Serve

\* What the start and the watcher do to the accounts.
LEMMA OtherRows ==
  ASSUME TypeInv, Startup \/ Pass
  PROVE  RowStep
<1>1. None \notin Reachable
  BY DEF Reachable
<1>2. boot.names \subseteq Names /\ watch.add \subseteq Names /\ watch.drop \subseteq Users
  BY DEF TypeInv, StartInv
<1>3. CASE Boot \/ GiveAdminRole \/ SetAdminPassword \/ PurgeAdmins \/ FinishBoot \/ Crash
  <2>1. Untouched
    BY <1>3 DEF Boot, GiveAdminRole, SetAdminPassword, PurgeAdmins, FinishBoot, Crash,
                Quiet, rows, Untouched
  <2>2. QED
    BY <2>1 DEF RowStep
<1>4. CASE CreateAdmin
  <2>1. UNCHANGED <<passwords, barred, overwritten, renamed>>
    BY <1>4 DEF CreateAdmin, Quiet
  <2>2. CASE AdminName \in Taken
    BY <1>4, <2>1, <2>2 DEF CreateAdmin, RowStep, Untouched
  <2>3. CASE AdminName \notin Taken
    <3>1. Register(AdminName, None, FALSE)
      BY <1>4, <2>3 DEF CreateAdmin
    <3>2. Made(AdminName)
      BY <1>1, <2>1, <2>3, <3>1, NoneApart, RegisterMakes
    <3>3. QED
      BY <3>2, NoneApart DEF RowStep
  <2>4. QED
    BY <2>2, <2>3
<1>5. CASE ImportOne
  <2>1. PICK n \in Unknown : Register(n, None, FALSE)
    BY <1>5 DEF ImportOne
  <2>2. n \in Names /\ n \notin Taken /\ UNCHANGED <<passwords, barred, overwritten, renamed>>
    BY <1>2, <1>5 DEF Unknown, ImportOne, Quiet
  <2>3. Made(n)
    BY <1>1, <2>1, <2>2, RegisterMakes
  <2>4. QED
    BY <2>2, <2>3 DEF RowStep
<1>6. CASE Notice \/ Read \/ List \/ EndPass \/ FailPass
  <2>1. Untouched
    BY <1>6 DEF Notice, Read, List, EndPass, FailPass, Kept, Untouched
  <2>2. QED
    BY <2>1 DEF RowStep
<1>7. CASE Add
  <2>1. PICK n \in watch.add :
          IF n \in Taken THEN UNCHANGED <<users, madeUsers>> ELSE Register(n, None, FALSE)
    BY <1>7 DEF Add
  <2>2. n \in Names /\ UNCHANGED <<passwords, barred, overwritten, renamed>>
    BY <1>2, <1>7, <2>1 DEF Add, Kept
  <2>3. CASE n \in Taken
    BY <2>1, <2>2, <2>3 DEF RowStep, Untouched
  <2>4. CASE n \notin Taken
    <3>1. Made(n)
      BY <1>1, <2>1, <2>2, <2>4, RegisterMakes
    <3>2. QED
      BY <2>2, <3>1 DEF RowStep
  <2>5. QED
    BY <2>3, <2>4
<1>8. CASE Drop
  <2>1. PICK u \in watch.drop :
          IF Referred(u) THEN UNCHANGED <<users, admins, passwords, Kept>> ELSE Remove(u)
    BY <1>8 DEF Drop
  <2>2. u \in Users /\ UNCHANGED madeUsers
    BY <1>2, <1>8, <2>1 DEF Drop
  <2>3. CASE Referred(u)
    BY <2>1, <2>2, <2>3 DEF Kept, RowStep, Untouched
  <2>4. CASE ~Referred(u)
    <3>1. Gone(u)
      BY <2>1, <2>2, <2>4, RemoveMakesGone
    <3>2. QED
      BY <2>2, <3>1 DEF RowStep
  <2>5. QED
    BY <2>3, <2>4
<1>9. QED
  BY <1>3, <1>4, <1>5, <1>6, <1>7, <1>8 DEF Startup, Pass

\* No step does anything else to the accounts.
LEMMA RowSteps == TypeInv /\ [Next]_vars => RowStep
<1> SUFFICES ASSUME TypeInv, [Next]_vars PROVE RowStep
  OBVIOUS
<1>1. ASSUME NEW u \in Users, Own(u) PROVE RowStep
  BY <1>1 DEF Own, past, RowStep, Untouched
<1>2. ASSUME NEW i \in Invitations, Expire(i) PROVE RowStep
  BY <1>2 DEF Expire, past, RowStep, Untouched
<1>3. ASSUME NEW names \in SUBSET Shadow, Edit(names) PROVE RowStep
  BY <1>3 DEF Edit, past, rows, RowStep, Untouched
<1>4. CASE UNCHANGED vars
  BY <1>4 DEF vars, past, rows, RowStep, Untouched
<1>5. QED
  BY <1>1, <1>2, <1>3, <1>4, RequestRows, OtherRows DEF Next

\* A request that goes anywhere but to the writing of a row, or to a password or mark.
LEMMA GoesOn ==
  ASSUME TypeInv, NEW p \in Requests, NEW s, NEW t, Go(p, s, t)
  PROVE  /\ s # "save" /\ stale \ {p} \subseteq stale' => NoLoad
         /\ s \notin {"password", "mark"} => NoEnroll
BY GoFacts DEF TypeInv, NoLoad, NoEnroll

\* Where a request comes to write a row, to set a password or to mark.
LEMMA RequestTasks ==
  ASSUME TypeInv, NEW p \in Requests, Ask(p) \/ Serve(p)
  PROVE  /\ NoLoad \/ Load(p)
         /\ NoEnroll \/ Enroll(p) \/ SetPassword(p)
<1>1. CASE Asked(p)
  <2>1. PICK s \in {"create", "load", "clean", "delete", "clear", "enroll"}, t \in Task :
          Go(p, s, t) /\ UNCHANGED past
    BY <1>1 DEF Asked
  <2>2. QED
    BY <2>1, GoesOn DEF past
<1>2. ASSUME NEW i \in Invitations, DeleteInvitation(p, i)
      PROVE  NoLoad /\ NoEnroll
  BY <1>2, GoesOn DEF DeleteInvitation, Rest, past
<1>3. CASE Rest(p)
  <2>1. Go(p, "done", Blank)
    BY <1>3 DEF Rest
  <2>2. Serve(p) => stale \ {p} \subseteq stale'
    BY DEF Serve, Create, CleanUp, Load, Save, Written, Delete, Remove, ClearInvitations,
           InsertInvitation, Enroll, SetPassword, Mark, Fail, past, GivenUp
  <2>3. QED
    BY <1>1, <1>2, <2>1, <2>2, GoesOn, AskShape
<1>4. CASE ~Rest(p) /\ Serve(p)
  <2>1. \/ CleanUp(p) \/ Load(p) \/ ClearInvitations(p) \/ Enroll(p) \/ SetPassword(p)
    BY <1>4 DEF Serve, Create, Save, Delete, InsertInvitation, Mark, Fail
  <2>2. CASE CleanUp(p)
    <3>1. UNCHANGED stale /\ step[p] = "clean"
          /\ (Go(p, "load", task[p]) \/ Go(p, "delete", task[p]))
      BY <1>4, <2>2 DEF CleanUp, past
    <3>2. QED
      BY <3>1, GoesOn
  <2>3. CASE Load(p)
    BY <1>4, <2>3, GoesOn DEF Load
  <2>4. CASE ClearInvitations(p)
    BY <2>4, GoesOn DEF ClearInvitations, past
  <2>5. CASE Enroll(p)
    <3> DEFINE t == [task[p] EXCEPT !.user = madeUsers + 1, !.email = None]
    <3>1. UNCHANGED stale /\ Go(p, "password", t)
      BY <1>4, <2>5 DEF Enroll, past
    <3> HIDE DEF t
    <3>2. QED
      BY <2>5, <3>1, GoesOn
  <2>6. CASE SetPassword(p)
    <3> DEFINE t == [Blank EXCEPT !.user = task[p].user, !.invitation = task[p].invitation]
    <3>1. UNCHANGED stale /\ Go(p, "mark", t)
      BY <1>4, <2>6 DEF SetPassword, past
    <3> HIDE DEF t
    <3>2. QED
      BY <2>6, <3>1, GoesOn
  <2>7. QED
    BY <2>1, <2>2, <2>3, <2>4, <2>5, <2>6
<1>5. QED
  BY <1>1, <1>2, <1>3, <1>4, AskShape

\* No other step brings a request there.
LEMMA TaskSteps ==
  ASSUME TypeInv, [Next]_vars
  PROVE  /\ NoLoad \/ \E p \in Requests : Load(p)
         /\ NoEnroll \/ \E p \in Requests : Enroll(p) \/ SetPassword(p)
<1>1. UNCHANGED <<step, task, stale>> => NoLoad /\ NoEnroll
  BY DEF NoLoad, NoEnroll
<1>2. ASSUME NEW u \in Users, Own(u) PROVE UNCHANGED <<step, task, stale>>
  BY <1>2 DEF Own, past
<1>3. ASSUME NEW i \in Invitations, Expire(i) PROVE UNCHANGED <<step, task, stale>>
  BY <1>3 DEF Expire, past
<1>4. ASSUME NEW names \in SUBSET Shadow, Edit(names) PROVE UNCHANGED <<step, task, stale>>
  BY <1>4 DEF Edit, past
<1>5. Startup => UNCHANGED <<step, task, stale>> \/ Crash
  BY DEF Startup, Boot, CreateAdmin, GiveAdminRole, SetAdminPassword, PurgeAdmins,
         ImportOne, FinishBoot, Quiet
<1>6. Pass => UNCHANGED <<step, task, stale>>
  BY DEF Pass, Notice, Read, List, Add, Drop, EndPass, FailPass, Still
<1>7. UNCHANGED vars => UNCHANGED <<step, task, stale>>
  BY DEF vars, past
<1>8. Crash => NoLoad /\ NoEnroll
  <2>1. Crash => \A q \in Requests : step'[q] \in {"idle", "done"}
    BY DEF Crash, Busy
  <2>2. QED
    BY <2>1 DEF NoLoad, NoEnroll
<1>9. QED
  BY <1>1, <1>2, <1>3, <1>4, <1>5, <1>6, <1>7, <1>8, RequestTasks DEF Next

\* An invitation is accepted only where it is marked.
LEMMA RequestMarks ==
  ASSUME TypeInv, NEW p \in Requests, Ask(p) \/ Serve(p)
  PROVE  NoMark \/ Mark(p)
<1>1. UNCHANGED invitations => NoMark
  BY DEF NoMark
<1>2. CASE Asked(p)
  BY <1>1, <1>2 DEF Asked, rows
<1>3. ASSUME NEW i \in Invitations, DeleteInvitation(p, i)
      PROVE  NoMark
  BY <1>3 DEF DeleteInvitation, TypeInv, DatabaseInv, InvitationsInv, NoMark
<1>4. CASE Create(p) \/ CleanUp(p) \/ Load(p) \/ Save(p) \/ Delete(p) \/ Enroll(p)
           \/ SetPassword(p) \/ Fail(p)
  BY <1>1, <1>4 DEF Create, CleanUp, Load, Save, Delete, Enroll, SetPassword, Fail, rows
<1>5. CASE ClearInvitations(p)
  <2>1. invitations' = Cleared(task[p].email)
    BY <1>5 DEF ClearInvitations
  <2>2. ASSUME NEW i \in Invitations, invitations'[i] # None, invitations'[i].accepted
        PROVE  /\ invitations[i] # None /\ invitations[i].accepted
               /\ invitations'[i].account = invitations[i].account
    <3>1. \/ invitations'[i] = invitations[i]
          \/ /\ invitations[i] # None
             /\ invitations'[i] = [invitations[i] EXCEPT !.revoked = TRUE]
      BY <2>1, <2>2, ClearedFacts DEF TypeInv
    <3>2. QED
      BY <2>2, <3>1, InvitationThere DEF TypeInv, Invitation
  <2>3. QED
    BY <2>2 DEF NoMark
<1>6. CASE InsertInvitation(p)
  <2>1. CASE There(task[p].user)
    <3> DEFINE row == [email |-> task[p].email, by |-> task[p].user, accepted |-> FALSE,
                       revoked |-> FALSE, expired |-> FALSE, account |-> None]
    <3>1. /\ invitations' = [invitations EXCEPT ![madeInvitations + 1] = row]
          /\ row.accepted = FALSE
      BY <1>6, <2>1 DEF InsertInvitation
    <3> HIDE DEF row
    <3>2. QED
      BY <3>1 DEF TypeInv, DatabaseInv, InvitationsInv, NoMark
  <2>2. CASE ~There(task[p].user)
    BY <1>1, <1>6, <2>2 DEF InsertInvitation
  <2>3. QED
    BY <2>1, <2>2
<1>7. QED
  BY <1>2, <1>3, <1>4, <1>5, <1>6, AskShape DEF Serve

\* No other step accepts an invitation.
LEMMA MarkSteps ==
  ASSUME TypeInv, [Next]_vars
  PROVE  NoMark \/ \E p \in Requests : Mark(p)
<1>1. UNCHANGED invitations => NoMark
  BY DEF NoMark
<1>2. ASSUME NEW u \in Users, Own(u) PROVE UNCHANGED invitations
  BY <1>2 DEF Own
<1>3. ASSUME NEW i \in Invitations, Expire(i) PROVE NoMark
  <2>1. /\ invitations[i] \in Invitation
        /\ invitations' = [invitations EXCEPT ![i].expired = TRUE]
    BY <1>3, InvitationThere DEF Expire, TypeInv
  <2>2. /\ invitations[i] # None /\ invitations'[i].accepted = invitations[i].accepted
        /\ invitations'[i].account = invitations[i].account
    BY <1>3, <2>1 DEF Expire, TypeInv, DatabaseInv, InvitationsInv, Invitation
  <2>3. \A k \in Invitations \ {i} : invitations'[k] = invitations[k]
    BY <2>1 DEF TypeInv, DatabaseInv, InvitationsInv
  <2>4. QED
    BY <2>2, <2>3 DEF NoMark
<1>4. ASSUME NEW names \in SUBSET Shadow, Edit(names) PROVE UNCHANGED invitations
  BY <1>4 DEF Edit, rows
<1>5. Startup => UNCHANGED invitations
  BY DEF Startup, Boot, CreateAdmin, GiveAdminRole, SetAdminPassword, PurgeAdmins,
         ImportOne, FinishBoot, Crash, Quiet, rows
<1>6. Pass => UNCHANGED invitations
  BY DEF Pass, Notice, Read, List, Add, Drop, EndPass, FailPass, Still
<1>7. UNCHANGED vars => UNCHANGED invitations
  BY DEF vars, rows
<1>8. QED
  BY <1>1, <1>2, <1>3, <1>4, <1>5, <1>6, <1>7, RequestMarks DEF Next

(***************************************************************************)
(* Decisions stick.                                                        *)
(***************************************************************************)

\* What a written row says of the ban, and whose tasks are stale after it.
LEMMA WroteFacts ==
  ASSUME TypeInv, NEW p \in Requests, Wrote(p), NEW u, u = task[p].user
  PROVE  /\ step[p] = "save" /\ u \in Users /\ There(u) /\ Present' = Present
         /\ \A v \in Users \ {u} : users'[v] = users[v]
         /\ task[p].change = "ban" => users'[u].banned = TRUE
         /\ task[p].change = "unban" => users'[u].banned = FALSE
         /\ task[p].change \notin {"ban", "unban"} => users'[u].banned = task[p].row.banned
         /\ Written(p, u)
         /\ UNCHANGED passwords
         /\ Taken \ {users[u].name} \subseteq Taken'
         /\ users'[u].name = users[u].name => Taken' = Taken
<1>1. PICK row : row = Changed(task[p].row, task[p].change, task[p].name, task[p].email)
  OBVIOUS
<1>2. Save(p) /\ step[p] = "save" /\ UNCHANGED <<madeUsers, passwords>>
  BY DEF Wrote, Save
<1>3. /\ u \in Users /\ row \in Row /\ task[p].row \in Row /\ There(u)
      /\ users' = [users EXCEPT ![u] = row] /\ Written(p, u)
      /\ \A x \in Present \ {u} :
           users[x].name # row.name /\ row.email \notin {users[x].email} \ {None}
  BY <1>1, <1>2, SaveFacts DEF Wrote
<1>4. /\ Present' = Present /\ users'[u] = row /\ \A v \in Users \ {u} : users'[v] = users[v]
      /\ Taken \ {users[u].name} \subseteq Taken'
      /\ row.name = users[u].name => Taken' = Taken
  <2>1. RowsInv /\ UniqueInv /\ madeUsers' = madeUsers
    BY <1>2 DEF TypeInv, DatabaseInv
  <2>2. /\ Present' = Present
        /\ Taken \ {users[u].name} \subseteq Taken'
        /\ row.name = users[u].name => Taken' = Taken
    BY <1>3, <2>1, WriteFacts
  <2>3. users'[u] = row /\ \A v \in Users \ {u} : users'[v] = users[v]
    BY <1>3 DEF TypeInv, DatabaseInv, RowsInv
  <2>4. QED
    BY <2>2, <2>3
<1>5. /\ task[p].change = "rename" => task[p].name \in Names
      /\ task[p].change = "address" => task[p].email \in Emails
  BY <1>2, Held DEF Holds
<1>6. /\ task[p].change = "ban" => row.banned = TRUE
      /\ task[p].change = "unban" => row.banned = FALSE
      /\ task[p].change \notin {"ban", "unban"} => row.banned = task[p].row.banned
  <2>1. task[p].row \in Row
    BY <1>3
  <2>2. QED
    BY <1>1, <2>1 DEF Changed, Row
<1>7. QED
  BY <1>2, <1>3, <1>4, <1>6

\* Every step keeps the decisions: a row is written back from before one only when stale.
LEMMA SaveStep == TypeInv /\ SaveInv /\ [Next]_vars => SaveInv'
<1> SUFFICES ASSUME TypeInv, SaveInv, [Next]_vars PROVE SaveInv'
  OBVIOUS
<1>1. barred \subseteq Present /\ Present \subseteq Users
  BY DEF TypeInv, DatabaseInv, RefsInv, Present
<1>2. \A q \in Requests : step[q] = "save" =>
        task[q].user \in Users /\ task[q].user # madeUsers + 1
  BY Held DEF Holds
<1>3. \A u \in Present \ overwritten : users[u].banned <=> u \in barred
  BY DEF SaveInv, DecisionSticks
<1>4. CASE \E p \in Requests : Load(p)
  <2>1. PICK p \in Requests : Load(p)
    BY <1>4
  <2>2. /\ UNCHANGED <<users, barred, overwritten>> /\ stale' = stale \ {p}
        /\ There(task[p].user) => Go(p, "save", [task[p] EXCEPT !.row = users[task[p].user]])
        /\ ~There(task[p].user) => Go(p, "done", Blank)
    BY <2>1 DEF Load, rows, Rest
  <2>3. \A q \in Requests \ {p} : step'[q] = step[q] /\ task'[q] = task[q]
    BY <2>2, GoFacts DEF TypeInv
  <2>4. step'[p] = "save" => task'[p].row = users[task'[p].user]
    <3>1. CASE There(task[p].user)
      <4>1. task'[p] = [task[p] EXCEPT !.row = users[task[p].user]]
        BY <2>2, <3>1, GoFacts DEF TypeInv
      <4>2. task[p] \in Task
        BY Held
      <4>3. QED
        BY <4>1, <4>2 DEF Task
    <3>2. CASE ~There(task[p].user)
      BY <2>2, <3>2, GoFacts DEF TypeInv
    <3>3. QED
      BY <3>1, <3>2
  <2>5. DecisionSticks'
    BY <2>2 DEF SaveInv, DecisionSticks, Present, There
  <2>6. QED
    BY <2>2, <2>3, <2>4, <2>5 DEF SaveInv, There
<1>5. CASE NoLoad
  <2>1. CASE Untouched
    BY <1>5, <2>1 DEF SaveInv, DecisionSticks, Untouched, NoLoad, Present, There
  <2>2. ASSUME NEW name \in Names, Made(name) PROVE SaveInv'
    <3>1. DecisionSticks'
      BY <1>1, <1>3, <2>2 DEF Made, DecisionSticks
    <3>2. ASSUME NEW q \in Requests, step'[q] = "save", q \notin stale',
                 users'[task'[q].user] # None
          PROVE  task'[q].row = users'[task'[q].user]
      <4>1. step[q] = "save" /\ task'[q] = task[q] /\ q \notin stale
        BY <1>5, <3>2 DEF NoLoad
      <4>2. users'[task[q].user] = users[task[q].user]
        BY <1>2, <2>2, <4>1 DEF Made
      <4>3. There(task[q].user)
        BY <3>2, <4>1, <4>2 DEF There
      <4>4. QED
        BY <4>1, <4>2, <4>3 DEF SaveInv
    <3>3. QED
      BY <3>1, <3>2 DEF SaveInv, There
  <2>3. ASSUME NEW u \in Users, Gone(u) PROVE SaveInv'
    <3>1. DecisionSticks'
      BY <1>1, <1>3, <2>3 DEF Gone, DecisionSticks
    <3>2. ASSUME NEW q \in Requests, step'[q] = "save", q \notin stale',
                 users'[task'[q].user] # None
          PROVE  task'[q].row = users'[task'[q].user]
      <4>1. step[q] = "save" /\ task'[q] = task[q] /\ q \notin stale
        BY <1>5, <3>2 DEF NoLoad
      <4>2. task[q].user \in Present'
        BY <1>2, <3>2, <4>1 DEF Present, There
      <4>3. task[q].user # u /\ users'[task[q].user] = users[task[q].user]
        BY <1>2, <2>3, <4>1, <4>2 DEF Gone
      <4>4. There(task[q].user)
        BY <2>3, <4>2 DEF Gone, Present
      <4>5. QED
        BY <4>1, <4>3, <4>4 DEF SaveInv
    <3>3. QED
      BY <3>1, <3>2 DEF SaveInv, There
  <2>4. ASSUME NEW p \in Requests, Wrote(p) PROVE SaveInv'
    <3>1. PICK u : u = task[p].user
      OBVIOUS
    <3>2. /\ step[p] = "save" /\ u \in Users /\ There(u) /\ Present' = Present
          /\ \A v \in Users \ {u} : users'[v] = users[v]
          /\ task[p].change = "ban" => users'[u].banned = TRUE
          /\ task[p].change = "unban" => users'[u].banned = FALSE
          /\ task[p].change \notin {"ban", "unban"} => users'[u].banned = task[p].row.banned
          /\ Written(p, u)
      BY <2>4, <3>1, WroteFacts
    <3>3. /\ barred' \ {u} = barred \ {u} /\ overwritten' \ {u} = overwritten \ {u}
          /\ task[p].change = "ban" => u \in barred'
          /\ task[p].change = "unban" => u \notin barred'
          /\ task[p].change \notin {"ban", "unban"} =>
               /\ barred' = barred
               /\ p \in stale => u \in overwritten'
               /\ p \notin stale => overwritten' = overwritten
      BY <3>2 DEF Written
    <3>4. \A v \in Users \ {u} : (v \in barred' <=> v \in barred)
                                 /\ (v \in overwritten' <=> v \in overwritten)
      BY <3>3
    <3>5. u \notin overwritten' => (users'[u].banned <=> u \in barred')
      <4>1. CASE task[p].change \in {"ban", "unban"}
        BY <3>2, <3>3, <4>1
      <4>2. CASE task[p].change \notin {"ban", "unban"} /\ u \notin overwritten'
        <5>1. p \notin stale /\ u \notin overwritten /\ barred' = barred
          BY <3>3, <4>2
        <5>2. task[p].row = users[u]
          BY <3>1, <3>2, <5>1 DEF SaveInv
        <5>3. u \in Present
          BY <3>2 DEF Present
        <5>4. QED
          BY <1>3, <3>2, <4>2, <5>1, <5>2, <5>3
      <4>3. QED
        BY <4>1, <4>2
    <3>6. DecisionSticks'
      BY <1>1, <1>3, <3>2, <3>4, <3>5 DEF DecisionSticks
    <3>7. ASSUME NEW q \in Requests, step'[q] = "save", q \notin stale',
                 users'[task'[q].user] # None
          PROVE  task'[q].row = users'[task'[q].user]
      <4>1. step[q] = "save" /\ task'[q] = task[q] /\ q \notin stale
        BY <1>5, <3>7 DEF NoLoad
      <4>2. q # p
        <5>1. step'[p] = "done"
          BY <2>4, GoFacts DEF Wrote, Save, Rest, TypeInv
        <5>2. QED
          BY <3>7, <5>1
      <4>3. task[q].user # u
        BY <3>2, <3>7, <4>1, <4>2 DEF Written
      <4>4. users'[task[q].user] = users[task[q].user]
        BY <1>2, <3>2, <4>1, <4>3
      <4>5. There(task[q].user)
        BY <3>7, <4>1, <4>4 DEF There
      <4>6. QED
        BY <4>1, <4>4, <4>5 DEF SaveInv
    <3>8. QED
      BY <3>6, <3>7 DEF SaveInv, There
  <2>5. QED
    BY <2>1, <2>2, <2>3, <2>4, RowSteps DEF RowStep
<1>6. QED
  BY <1>4, <1>5, TaskSteps

(***************************************************************************)
(* Whoever accepted can sign in.                                           *)
(***************************************************************************)

\* An account that keeps its name under the eyes of this property keeps its password.
LEMMA AccountsKeep ==
  ASSUME TypeInv, RowStep, NEW u \in 1..madeUsers, u \in Present' \ renamed'
  PROVE  /\ u \in Present \ renamed
         /\ users'[u].name = users[u].name
         /\ u \in passwords => u \in passwords'
<1>1. u \in Users /\ u # madeUsers + 1 /\ Present \subseteq Users
  BY NoneApart DEF TypeInv, DatabaseInv, RowsInv, Present
<1>2. CASE Untouched
  BY <1>2 DEF Untouched, Present, There
<1>3. CASE \E name \in Names : Made(name)
  BY <1>1, <1>3 DEF Made
<1>4. CASE \E v \in Users : Gone(v)
  BY <1>1, <1>4 DEF Gone
<1>5. ASSUME NEW p \in Requests, Wrote(p)
      PROVE  /\ u \in Present \ renamed
             /\ users'[u].name = users[u].name
             /\ u \in passwords => u \in passwords'
  <2>1. PICK v : v = task[p].user
    OBVIOUS
  <2>2. /\ Present' = Present /\ UNCHANGED passwords /\ Written(p, v)
        /\ \A w \in Users \ {v} : users'[w] = users[w]
    BY <1>5, <2>1, WroteFacts
  <2>3. renamed' = IF users'[v].name = users[v].name THEN renamed ELSE renamed \cup {v}
    BY <2>2 DEF Written
  <2>4. QED
    BY <1>1, <2>2, <2>3
<1>6. QED
  BY <1>2, <1>3, <1>4, <1>5 DEF RowStep

\* Accounts referred to were made.
LEMMA MadeBefore ==
  ASSUME TypeInv
  PROVE  /\ \A i \in Invitations : invitations[i] # None /\ invitations[i].account \in Users
               => invitations[i].account \in 1..madeUsers
         /\ \A p \in Requests : step[p] \in {"password", "mark"}
               => task[p].user \in 1..madeUsers
<1>1. \A i \in Invitations : invitations[i] # None /\ invitations[i].account \in Users
        => invitations[i].account \in 1..madeUsers
  BY InvitationThere, NoneApart DEF TypeInv
<1>2. QED
  BY <1>1, Held DEF Holds

\* Acceptances from before stay true.
LEMMA AcceptedStays ==
  ASSUME TypeInv, EnrolledInv, RowStep, NEW i \in Invitations,
         invitations[i] # None, invitations[i].accepted,
         invitations[i].account \in Present' \ renamed'
  PROVE  invitations[i].account \in passwords'
<1>1. invitations[i].account \in 1..madeUsers
  BY MadeBefore DEF Present
<1>2. invitations[i].account \in Present \ renamed
  BY <1>1, AccountsKeep
<1>3. invitations[i].account \in passwords
  BY <1>2 DEF EnrolledInv, AcceptedCanSignIn
<1>4. QED
  BY <1>1, <1>3, AccountsKeep

\* And so does what the requests hold.
LEMMA EnrolledStays ==
  ASSUME TypeInv, EnrolledInv, RowStep, NEW p \in Requests,
         step[p] \in {"password", "mark"}, task[p].user \in Present' \ renamed'
  PROVE  /\ step[p] = "password" => users'[task[p].user].name = task[p].name
         /\ step[p] = "mark" => task[p].user \in passwords'
<1>1. task[p].user \in 1..madeUsers
  BY MadeBefore
<1>2. /\ task[p].user \in Present \ renamed
      /\ users'[task[p].user].name = users[task[p].user].name
      /\ task[p].user \in passwords => task[p].user \in passwords'
  BY <1>1, AccountsKeep
<1>3. QED
  BY <1>2 DEF EnrolledInv

\* Neither enrolled nor marked: nothing new to say.
LEMMA EnrolledRest ==
  ASSUME TypeInv, EnrolledInv, RowStep
  PROVE  /\ NoMark => AcceptedCanSignIn'
         /\ \A q \in Requests :
              /\ step'[q] = step[q] /\ task'[q] = task[q]
              /\ task'[q].user \in Present' \ renamed'
              => /\ step'[q] = "password" => users'[task'[q].user].name = task'[q].name
                 /\ step'[q] = "mark" => task'[q].user \in passwords'
<1>1. NoMark => AcceptedCanSignIn'
  <2> SUFFICES ASSUME NoMark, NEW i \in Invitations, invitations'[i] # None,
                      invitations'[i].accepted, invitations'[i].account \in Present' \ renamed'
               PROVE  invitations'[i].account \in passwords'
    BY DEF AcceptedCanSignIn
  <2>1. /\ invitations[i] # None /\ invitations[i].accepted
        /\ invitations'[i].account = invitations[i].account
    BY DEF NoMark
  <2>2. QED
    BY <2>1, AcceptedStays
<1>2. ASSUME NEW q \in Requests, step'[q] = step[q], task'[q] = task[q],
             task'[q].user \in Present' \ renamed'
      PROVE  /\ step'[q] = "password" => users'[task'[q].user].name = task'[q].name
             /\ step'[q] = "mark" => task'[q].user \in passwords'
  BY <1>2, EnrolledStays
<1>3. QED
  BY <1>1, <1>2

\* Every step keeps what was accepted, and what is on its way to be.
LEMMA EnrolledStep == TypeInv /\ EnrolledInv /\ [Next]_vars => EnrolledInv'
<1> SUFFICES ASSUME TypeInv, EnrolledInv, [Next]_vars PROVE EnrolledInv'
  OBVIOUS
<1> DEFINE Says(q) == task'[q].user \in Present' \ renamed' =>
             /\ step'[q] = "password" => users'[task'[q].user].name = task'[q].name
             /\ step'[q] = "mark" => task'[q].user \in passwords'
<1>1. RowStep
  BY RowSteps
<1>2. ASSUME NEW q \in Requests, step'[q] = step[q], task'[q] = task[q]
      PROVE  Says(q)
  BY <1>1, <1>2, EnrolledRest
<1>3. AcceptedCanSignIn' /\ (\A q \in Requests : Says(q)) => EnrolledInv'
  BY DEF EnrolledInv
<1>4. NoEnroll => \A q \in Requests : Says(q)
  BY <1>2 DEF NoEnroll
<1>5. NoMark => AcceptedCanSignIn'
  BY <1>1, EnrolledRest
<1>6. ASSUME NEW p \in Requests, Enroll(p)
      PROVE  EnrolledInv'
  <2>1. /\ step[p] = "enroll" /\ UNCHANGED <<invitations, renamed>>
    BY <1>6 DEF Enroll, past
  <2>2. NoMark
    BY <2>1 DEF NoMark
  <2>3. CASE Free(task[p].name, task[p].email)
    <3> DEFINE t == [task[p] EXCEPT !.user = madeUsers + 1, !.email = None]
    <3>1. Register(task[p].name, task[p].email, TRUE) /\ Go(p, "password", t)
      BY <1>6, <2>3 DEF Enroll
    <3>2. task[p] \in Task /\ task[p].name \in Names /\ task[p].email \in Emails
      BY <2>1, Held DEF Holds
    <3>3. users'[madeUsers + 1].name = task[p].name
      BY <2>3, <3>1, <3>2, RegisterFacts DEF TypeInv, DatabaseInv, Free
    <3>4. t.user = madeUsers + 1 /\ t.name = task[p].name
      BY <3>2 DEF Task
    <3> HIDE DEF t
    <3>5. /\ step'[p] = "password" /\ task'[p] = t
          /\ \A q \in Requests \ {p} : step'[q] = step[q] /\ task'[q] = task[q]
      BY <3>1, GoFacts DEF TypeInv
    <3>6. Says(p)
      BY <3>3, <3>4, <3>5
    <3>7. \A q \in Requests \ {p} : Says(q)
      BY <1>2, <3>5
    <3>8. QED
      BY <1>3, <1>5, <2>2, <3>6, <3>7
  <2>4. CASE ~Free(task[p].name, task[p].email)
    <3>1. Go(p, "done", Blank)
      BY <1>6, <2>4 DEF Enroll, Rest
    <3>2. NoEnroll
      BY <3>1, GoesOn
    <3>3. QED
      BY <1>3, <1>4, <1>5, <2>2, <3>2
  <2>5. QED
    BY <2>3, <2>4
<1>7. ASSUME NEW p \in Requests, SetPassword(p)
      PROVE  EnrolledInv'
  <2> DEFINE named == {u \in Present : users[u].name = task[p].name}
             t == [Blank EXCEPT !.user = task[p].user, !.invitation = task[p].invitation]
  <2>1. /\ step[p] = "password" /\ UNCHANGED <<users, invitations, renamed>>
        /\ named # {} /\ named \cap passwords = {} =>
             passwords' = passwords \cup named /\ Go(p, "mark", t)
        /\ ~(named # {} /\ named \cap passwords = {}) => Go(p, "done", Blank)
    BY <1>7 DEF SetPassword, past, Rest
  <2>2. NoMark
    BY <2>1 DEF NoMark
  <2>3. CASE named # {} /\ named \cap passwords = {}
    <3>1. t.user = task[p].user
      BY DEF Blank
    <3>2. passwords' = passwords \cup named /\ Go(p, "mark", t)
      BY <2>1, <2>3
    <3>3. task[p].user \in Present \ renamed => task[p].user \in named
      BY <2>1 DEF EnrolledInv
    <3>4. Present' = Present
      BY <2>1 DEF Present, There
    <3> HIDE DEF t, named
    <3>5. /\ step'[p] = "mark" /\ task'[p] = t
          /\ \A q \in Requests \ {p} : step'[q] = step[q] /\ task'[q] = task[q]
      BY <3>2, GoFacts DEF TypeInv
    <3>6. Says(p)
      BY <2>1, <3>1, <3>2, <3>3, <3>4, <3>5
    <3>7. \A q \in Requests \ {p} : Says(q)
      BY <1>2, <3>5
    <3>8. QED
      BY <1>3, <1>5, <2>2, <3>6, <3>7
  <2>4. CASE ~(named # {} /\ named \cap passwords = {})
    <3>1. Go(p, "done", Blank)
      BY <2>1, <2>4
    <3>2. NoEnroll
      BY <3>1, GoesOn
    <3>3. QED
      BY <1>3, <1>4, <1>5, <2>2, <3>2
  <2>5. QED
    BY <2>3, <2>4
<1>8. ASSUME NEW p \in Requests, Mark(p)
      PROVE  EnrolledInv'
  <2>1. PICK k : k = task[p].invitation
    OBVIOUS
  <2>2. /\ step[p] = "mark" /\ Go(p, "done", Blank) /\ UNCHANGED <<users, passwords, renamed>>
        /\ invitations' = IF invitations[k] = None THEN invitations
             ELSE [invitations EXCEPT ![k].accepted = TRUE, ![k].account = task[p].user]
    BY <1>8, <2>1 DEF Mark, Rest, past
  <2>3. NoEnroll
    BY <2>2, GoesOn
  <2>4. k \in Invitations
    BY <2>1, <2>2, Held DEF Holds
  <2>5. Present' = Present
    BY <2>2 DEF Present, There
  <2>6. AcceptedCanSignIn'
    <3> SUFFICES ASSUME NEW i \in Invitations, invitations'[i] # None,
                        invitations'[i].accepted,
                        invitations'[i].account \in Present' \ renamed'
                 PROVE  invitations'[i].account \in passwords'
      BY DEF AcceptedCanSignIn
    <3>1. CASE invitations'[i] = invitations[i]
      BY <1>1, <3>1, AcceptedStays
    <3>2. CASE invitations'[i] # invitations[i]
      <4>1. i = k /\ invitations[k] # None
        BY <2>2, <2>4, <3>2 DEF TypeInv, DatabaseInv, InvitationsInv
      <4>2. invitations[k] \in Invitation
        BY <2>4, <4>1, InvitationThere DEF TypeInv
      <4>3. invitations'[k].account = task[p].user
        BY <2>2, <2>4, <4>1, <4>2 DEF TypeInv, DatabaseInv, InvitationsInv, Invitation
      <4>4. QED
        BY <2>2, <2>5, <4>1, <4>3 DEF EnrolledInv
    <3>3. QED
      BY <3>1, <3>2
  <2>7. QED
    BY <1>3, <1>4, <2>3, <2>6
<1>9. QED
  BY <1>3, <1>4, <1>5, <1>6, <1>7, <1>8, TaskSteps, MarkSteps

(***************************************************************************)
(* The watcher catches up.                                                 *)
(***************************************************************************)

\* A name that the watcher saw in the file is taken still, unless that is known.
StillTaken == ~missed' => ~missed /\ (watch.seen \cap Taken) \subseteq Taken'

\* The watcher stays as it was, and no name it saw is lost unnoticed.
LEMMA WatchCalm ==
  ASSUME WatchInv, UNCHANGED watch, StillTaken
  PROVE  WatchInv'
BY DEF WatchInv, StillTaken

\* More names may be taken.
LEMMA MoreTaken ==
  ASSUME TypeInv, UNCHANGED missed,
         \/ UNCHANGED users
         \/ \E name \in Names, email \in Emails \cup {None}, invited \in BOOLEAN :
              /\ name \notin Taken /\ email \notin Reachable
              /\ Register(name, email, invited)
  PROVE  StillTaken
<1>1. CASE UNCHANGED users
  <2>1. Taken' = Taken
    BY <1>1 DEF Taken, Present, There
  <2>2. QED
    BY <2>1 DEF StillTaken
<1>2. ASSUME NEW name \in Names, NEW email \in Emails \cup {None}, NEW invited \in BOOLEAN,
             name \notin Taken, email \notin Reachable, Register(name, email, invited)
      PROVE  StillTaken
  <2>1. Taken' = Taken \cup {name}
    BY <1>2, RegisterFacts DEF TypeInv, DatabaseInv
  <2>2. QED
    BY <2>1 DEF StillTaken
<1>3. QED
  BY <1>1, <1>2

\* An account whose name is given up was seen to, or is remembered as missing.
LEMMA GivenUpTaken ==
  ASSUME NEW name, GivenUp(name), Taken \ {name} \subseteq Taken'
  PROVE  StillTaken
BY DEF GivenUp, StillTaken

\* A request that gives a name of the file up is noticed.
LEMMA RequestWatch ==
  ASSUME TypeInv, NEW p \in Requests, Ask(p) \/ Serve(p)
  PROVE  UNCHANGED watch /\ StillTaken
<1>1. CASE Asked(p)
  BY <1>1, MoreTaken DEF Asked, rows, past, Elsewhere
<1>2. ASSUME NEW i \in Invitations, DeleteInvitation(p, i)
      PROVE  UNCHANGED watch /\ StillTaken
  BY <1>2, MoreTaken DEF DeleteInvitation, past, Elsewhere
<1>3. CASE CleanUp(p) \/ Load(p) \/ ClearInvitations(p) \/ InsertInvitation(p)
           \/ SetPassword(p) \/ Mark(p) \/ Fail(p)
  <2>1. UNCHANGED <<watch, users, missed>>
    BY <1>3 DEF CleanUp, Load, ClearInvitations, InsertInvitation, SetPassword, Mark, Fail,
                rows, past, Elsewhere
  <2>2. QED
    BY <2>1, MoreTaken
<1>4. CASE Create(p) \/ Enroll(p)
  <2>1. task[p].name \in Names /\ task[p].email \in Emails
    BY <1>4, Held DEF Create, Enroll, Holds
  <2>2. UNCHANGED <<watch, missed>>
    BY <1>4 DEF Create, Enroll, past, Elsewhere
  <2>3. CASE Free(task[p].name, task[p].email)
    <3>1. PICK invited \in BOOLEAN : Register(task[p].name, task[p].email, invited)
      BY <1>4, <2>3 DEF Create, Enroll
    <3>2. QED
      BY <2>1, <2>2, <2>3, <3>1, MoreTaken DEF Free
  <2>4. CASE ~Free(task[p].name, task[p].email)
    BY <1>4, <2>2, <2>4, MoreTaken DEF Create, Enroll
  <2>5. QED
    BY <2>3, <2>4
<1>5. CASE Save(p)
  <2>1. UNCHANGED watch
    BY <1>5 DEF Save, Elsewhere
  <2>2. CASE UNCHANGED <<users, past>>
    BY <2>1, <2>2, MoreTaken DEF past
  <2>3. CASE ~UNCHANGED <<users, past>>
    <3>1. PICK u : u = task[p].user
      OBVIOUS
    <3>2. /\ Written(p, u) /\ Taken \ {users[u].name} \subseteq Taken'
          /\ users'[u].name = users[u].name => Taken' = Taken
      BY <1>5, <2>3, <3>1, WroteFacts DEF Wrote
    <3>3. CASE users'[u].name = users[u].name
      BY <2>1, <3>2, <3>3 DEF Written, StillTaken
    <3>4. CASE users'[u].name # users[u].name
      BY <2>1, <3>2, <3>4, GivenUpTaken DEF Written
    <3>5. QED
      BY <3>3, <3>4
  <2>4. QED
    BY <2>2, <2>3
<1>6. CASE Delete(p)
  <2>1. task[p].user \in Users /\ UNCHANGED <<watch, madeUsers>>
    BY <1>6, Held DEF Delete, Holds, Elsewhere
  <2>2. CASE There(task[p].user) /\ ~Referred(task[p].user)
    <3>1. Remove(task[p].user) /\ GivenUp(users[task[p].user].name)
      BY <1>6, <2>2 DEF Delete
    <3>2. Taken \ {users[task[p].user].name} \subseteq Taken'
      BY <2>1, <2>2, <3>1, RemoveFacts DEF TypeInv, DatabaseInv
    <3>3. QED
      BY <2>1, <3>1, <3>2, GivenUpTaken
  <2>3. CASE ~(There(task[p].user) /\ ~Referred(task[p].user))
    BY <1>6, <2>1, <2>3, MoreTaken DEF Delete, past
  <2>4. QED
    BY <2>2, <2>3
<1>7. QED
  BY <1>1, <1>2, <1>3, <1>4, <1>5, <1>6, AskShape DEF Serve

\* The start hands the file it imported to the watcher, or remembers that it has changed.
LEMMA StartupWatch ==
  ASSUME TypeInv, WatchInv, Startup
  PROVE  WatchInv'
<1>1. CASE Startup /\ ~FinishBoot /\ ~Crash
  <2>1. UNCHANGED watch /\ ~Up
    BY <1>1 DEF Startup, Boot, CreateAdmin, GiveAdminRole, SetAdminPassword, PurgeAdmins,
                ImportOne, Quiet, Up
  <2>2. watch'.step = "off"
    BY <2>1 DEF TypeInv, StartInv
  <2>3. QED
    BY <2>2 DEF WatchInv
<1>2. CASE Crash
  BY <1>2 DEF Crash, Off, WatchInv
<1>3. CASE FinishBoot
  <2>1. /\ UNCHANGED users /\ boot.names \subseteq Taken
        /\ watch' = [Off EXCEPT !.step = "idle", !.seen = file]
        /\ missed' = (file # boot.names)
    BY <1>3 DEF FinishBoot, Unknown
  <2>2. Taken' = Taken
    BY <2>1 DEF Taken, Present, There
  <2>3. watch'.step = "idle" /\ watch'.seen = file
    BY <2>1 DEF Off
  <2>4. QED
    BY <2>1, <2>2, <2>3 DEF WatchInv
<1>4. QED
  BY <1>1, <1>2, <1>3

\* What a pass leaves of the watcher when it ends.
LEMMA RelaxFacts ==
  ASSUME Relax
  PROVE  watch'.step = "idle" /\ watch'.seen = watch.seen
BY DEF Relax, Off

\* A pass adds what is missing, or is remembered as failed.
LEMMA PassWatch ==
  ASSUME TypeInv, WatchInv, Pass
  PROVE  WatchInv'
<1> DEFINE Watches ==
             [step : {"off", "idle", "read", "list", "apply"}, seen : SUBSET Names,
              names : SUBSET Names, wildfire : SUBSET Users, add : SUBSET Names,
              drop : SUBSET Users]
<1>1. watch \in Watches
  BY DEF TypeInv, StartInv
<1>2. UNCHANGED users => Taken' = Taken
  BY DEF Taken, Present, There
<1>3. CASE Notice
  BY <1>1, <1>3 DEF Notice, WatchInv
<1>4. CASE Read
  BY <1>1, <1>4 DEF Read, WatchInv
<1>5. CASE List
  <2>1. /\ UNCHANGED <<users, missed>> /\ watch.step = "list"
        /\ \E less : watch' = [watch EXCEPT !.step = "apply", !.add = watch.names \ Taken,
                                            !.drop = less]
    BY <1>5 DEF List
  <2>2. /\ watch'.step = "apply" /\ watch'.seen = watch.seen
        /\ watch'.add = watch.names \ Taken
    BY <1>1, <2>1
  <2>3. QED
    BY <1>2, <2>1, <2>2 DEF WatchInv
<1>6. CASE EndPass
  BY <1>2, <1>6, RelaxFacts DEF EndPass, WatchInv
<1>7. CASE FailPass
  BY <1>7 DEF FailPass, WatchInv
<1>8. CASE Add
  <2>1. PICK n \in watch.add :
          IF n \in Taken
          THEN Relax /\ missed' = TRUE /\ UNCHANGED <<users, madeUsers>>
          ELSE /\ Register(n, None, FALSE)
               /\ watch' = [watch EXCEPT !.add = @ \ {n}]
               /\ UNCHANGED missed
    BY <1>8 DEF Add
  <2>2. CASE n \in Taken
    BY <2>1, <2>2 DEF WatchInv
  <2>3. CASE n \notin Taken
    <3>1. n \in Names /\ None \notin Reachable
      BY <1>1, <2>1 DEF Reachable
    <3>2. Taken' = Taken \cup {n}
      BY <2>1, <2>3, <3>1, RegisterFacts DEF TypeInv, DatabaseInv
    <3>3. /\ watch'.step = watch.step /\ watch'.seen = watch.seen
          /\ watch'.add = watch.add \ {n} /\ watch.step = "apply"
      BY <1>1, <1>8, <2>1, <2>3 DEF Add
    <3>4. QED
      BY <2>1, <2>3, <3>2, <3>3 DEF WatchInv
  <2>4. QED
    BY <2>2, <2>3
<1>9. CASE Drop
  <2>1. PICK u \in watch.drop :
          IF Referred(u)
          THEN Relax /\ missed' = TRUE /\ UNCHANGED <<users, admins, passwords, Kept>>
          ELSE /\ Remove(u)
               /\ watch' = [watch EXCEPT !.drop = @ \ {u}]
               /\ IF There(u) THEN GivenUp(users[u].name) ELSE UNCHANGED missed
    BY <1>9 DEF Drop
  <2>2. CASE Referred(u)
    BY <2>1, <2>2 DEF WatchInv
  <2>3. CASE ~Referred(u)
    <3>1. u \in Users /\ UNCHANGED madeUsers /\ watch.step = "apply" /\ watch.add = {}
      BY <1>1, <1>9, <2>1 DEF Drop
    <3>2. /\ There(u) => Taken \ {users[u].name} \subseteq Taken'
          /\ ~There(u) => Taken' = Taken
      BY <2>1, <2>3, <3>1, RemoveFacts DEF TypeInv, DatabaseInv
    <3>3. StillTaken
      BY <2>1, <2>3, <3>2, GivenUpTaken DEF StillTaken
    <3>4. watch'.step = watch.step /\ watch'.seen = watch.seen /\ watch'.add = watch.add
      BY <1>1, <2>1, <2>3
    <3>5. QED
      BY <3>1, <3>3, <3>4 DEF WatchInv, StillTaken
  <2>4. QED
    BY <2>2, <2>3
<1>10. QED
  BY <1>3, <1>4, <1>5, <1>6, <1>7, <1>8, <1>9 DEF Pass

\* Every step keeps what the watcher owes to the file.
LEMMA WatchStep == TypeInv /\ WatchInv /\ [Next]_vars => WatchInv'
<1> SUFFICES ASSUME TypeInv, WatchInv, [Next]_vars PROVE WatchInv'
  OBVIOUS
<1>1. UNCHANGED <<users, watch, missed>> => WatchInv'
  BY MoreTaken, WatchCalm
<1>2. ASSUME NEW p \in Requests, Ask(p) \/ Serve(p) PROVE WatchInv'
  BY <1>2, RequestWatch, WatchCalm
<1>3. ASSUME NEW u \in Users, Own(u) PROVE UNCHANGED <<users, watch, missed>>
  BY <1>3 DEF Own, Elsewhere, past
<1>4. ASSUME NEW i \in Invitations, Expire(i) PROVE UNCHANGED <<users, watch, missed>>
  BY <1>4 DEF Expire, Elsewhere, past
<1>5. ASSUME NEW names \in SUBSET Shadow, Edit(names) PROVE UNCHANGED <<users, watch, missed>>
  BY <1>5 DEF Edit, rows, past
<1>6. UNCHANGED vars => UNCHANGED <<users, watch, missed>>
  BY DEF vars, rows, past
<1>7. QED
  BY <1>1, <1>2, <1>3, <1>4, <1>5, <1>6, StartupWatch, PassWatch DEF Next

(***************************************************************************)
(* The theorems.                                                           *)
(***************************************************************************)

\* Initially nobody is banned or invited, nothing is asked, and the watcher is off.
LEMMA NothingYet == Init => SaveInv /\ ClearedInv /\ EnrolledInv /\ WatchInv
<1> SUFFICES ASSUME Init PROVE SaveInv /\ ClearedInv /\ EnrolledInv /\ WatchInv
  OBVIOUS
<1>1. /\ \A p \in Requests : step[p] = "idle"
      /\ \A i \in Invitations : invitations[i] = None
      /\ barred = {} /\ watch.step = "off"
  BY DEF Init, Off
<1>2. \A u \in Present : users[u].banned = FALSE
  BY DEF Init, Present, There
<1>3. SaveInv
  BY <1>1, <1>2 DEF SaveInv, DecisionSticks
<1>4. ClearedInv
  BY <1>1 DEF ClearedInv, OneOpenInvitation, Open
<1>5. EnrolledInv
  BY <1>1 DEF EnrolledInv, AcceptedCanSignIn
<1>6. WatchInv
  BY <1>1 DEF WatchInv
<1>7. QED
  BY <1>3, <1>4, <1>5, <1>6

\* Rows refer only to accounts that are there, no two accounts share a name or an
\* address, every request holds what its step needs, and an address has one open
\* invitation, unless two requests invited it at once: through every interleaving of
\* requests, the start of the API and the watcher.
THEOREM RowsAgree == Spec => []Inv
<1>1. TypeInv /\ ClearedInv => Inv
  BY TypesHold DEF ClearedInv, Inv
<1>2. QED
  BY <1>1, TypesAlways, NothingYet, OpenStep, PTL DEF Spec

\* An account is banned exactly when the last decision on it says so, unless a request
\* wrote back a row it had read before another wrote it.
THEOREM BansStick == Spec => []DecisionSticks
<1>1. SaveInv => DecisionSticks
  BY DEF SaveInv
<1>2. QED
  BY <1>1, TypesAlways, NothingYet, SaveStep, PTL DEF Spec

\* However an acceptance is cut short, an invitation says accepted only when the account
\* it made has its password, unless that account was renamed in between.
THEOREM AcceptedHavePasswords == Spec => []AcceptedCanSignIn
<1>1. EnrolledInv => AcceptedCanSignIn
  BY DEF EnrolledInv
<1>2. QED
  BY <1>1, TypesAlways, NothingYet, EnrolledStep, PTL DEF Spec

\* When the watcher rests on the file as it is, everybody the file names has an account,
\* unless a pass failed or was overtaken, or the account was given up since.
THEOREM WatcherCatchesUp == Spec => []CaughtUp
<1>1. WatchInv => CaughtUp
  BY DEF WatchInv, CaughtUp
<1>2. QED
  BY <1>1, TypesAlways, NothingYet, WatchStep, PTL DEF Spec
=============================================================================
