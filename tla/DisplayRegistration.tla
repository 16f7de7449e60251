------------------------- MODULE DisplayRegistration -------------------------
(***************************************************************************)
(* How a display comes to be known: the attempts, pairing codes, sessions  *)
(* and links in Redis, the display and key rows in MySQL, and the staff    *)
(* and device requests that work on them.                                  *)
(*                                                                         *)
(* Everything a request creates bears the request's name: the pairing code *)
(* it issued, the attempt it opened, the session or link token it made,    *)
(* the display it registered.  The digits of a code are drawn at random    *)
(* and may be drawn again.  A Lua script is one step, as is every other    *)
(* awaited call.  A request whose call rejects, or whose process dies, is  *)
(* one that takes no further step; only the key insertion is caught.       *)
(***************************************************************************)
EXTENDS Naturals, FiniteSets

CONSTANTS Requests,
          KindsOf,     \* what each request may ask for
          Owners,      \* members of staff
          Digits,      \* what a pairing code may read
          Slugs,
          Machines,    \* fingerprint and output of a device
          None,
          MaxTries,    \* draws of digits before an issue gives up
          MaxOverlap,  \* bound: requests in progress at once
          MaxLapses,   \* bound: how many expiries in a behaviour
          MaxFailures  \* bound: how many key insertions fail

Kind == {"issue", "rotate", "close", "link", "session", "register", "claim",
         "unregister"}

ASSUME RegistrationAssumption ==
  /\ KindsOf \in [Requests -> SUBSET Kind]
  /\ None \notin Requests \cup Owners \cup Digits \cup Slugs \cup Machines
  /\ MaxTries \in Nat \ {0}
  /\ MaxOverlap \in Nat
  /\ MaxLapses \in Nat
  /\ MaxFailures \in Nat

VARIABLES codes,     \* the hash of each pairing code: its digits, and used or not
          lookup,    \* digits -> the code that reads so
          expired,   \* codes whose ten minutes are over
          attempts,  \* the hash of each attempt
          index,     \* digits -> the attempt they answer
          open,      \* owner -> the open attempt
          sessions,  \* pairing sessions
          bound,     \* session or link token -> attempt to notify
          links,     \* registration links
          displays,  \* display rows with their active key
          task,      \* what each request is doing
          home,      \* history: the attempt that took each code
          retired,   \* history: codes a script handed out for invalidation
          notices,   \* history: registration_succeeded events
          lapses,    \* expiries so far
          failures   \* failed key insertions so far

codeVars    == <<codes, lookup, expired>>
attemptVars == <<attempts, index, open, home, retired>>
tokenVars   == <<sessions, bound, links>>
displayVars == <<displays, notices>>
boundVars   == <<lapses, failures>>
vars == <<codeVars, attemptVars, tokenVars, displayVars, task, boundVars>>

Id == Requests \cup {None}

Code    == [digits : Digits, used : BOOLEAN]
Attempt == [owner : Owners, closed : BOOLEAN, code : Id]
Session == [code : Requests, state : {"open", "completed"}]
Display == [slug : Slugs, machine : Machines, key : BOOLEAN]

Step == {"idle", "draw", "lookup", "drop", "script", "read", "mark", "unlook",
         "bind", "link", "consume", "getdel", "readCode", "spend", "create",
         "find", "unique", "check", "complete", "insert", "key", "undo",
         "notify", "revoke", "delete", "done"}

\* token: the session or link presented or made; on: the attempt or display worked
\* on; old: the code to invalidate, or the one the attempt names; got: the code
\* consumed; late: the codes already expired, and spent: whether the session was
\* already completed, when the request came.
Idle == [kind |-> None, step |-> "idle", owner |-> None, on |-> None,
         digits |-> None, tries |-> 0, old |-> None, got |-> None, late |-> {},
         token |-> None, slug |-> None, machine |-> None, spent |-> FALSE]

Task == [kind : Kind \cup {None}, step : Step, owner : Owners \cup {None},
         on : Id, digits : Digits \cup {None}, tries : 0..MaxTries, old : Id,
         got : Id, late : SUBSET Requests, token : Id, slug : Slugs \cup {None},
         machine : Machines \cup {None}, spent : BOOLEAN]

\* The type of every variable.
TypeOK ==
  /\ codes \in [Requests -> Code \cup {None}]
  /\ lookup \in [Digits -> Id]
  /\ expired \subseteq Requests
  /\ attempts \in [Requests -> Attempt \cup {None}]
  /\ index \in [Digits -> Id]
  /\ open \in [Owners -> Id]
  /\ sessions \in [Requests -> Session \cup {None}]
  /\ bound \in [Requests -> Id]
  /\ links \in [Requests -> Slugs \cup {None}]
  /\ displays \in [Requests -> Display \cup {None}]
  /\ task \in [Requests -> Task]
  /\ home \in [Requests -> Id]
  /\ retired \subseteq Requests
  /\ notices \subseteq [attempt : Requests, display : Requests]
  /\ lapses \in 0..MaxLapses
  /\ failures \in 0..MaxFailures

Init ==
  /\ codes    = [r \in Requests |-> None]
  /\ lookup   = [d \in Digits |-> None]
  /\ expired  = {}
  /\ attempts = [r \in Requests |-> None]
  /\ index    = [d \in Digits |-> None]
  /\ open     = [o \in Owners |-> None]
  /\ sessions = [r \in Requests |-> None]
  /\ bound    = [r \in Requests |-> None]
  /\ links    = [r \in Requests |-> None]
  /\ displays = [r \in Requests |-> None]
  /\ task     = [r \in Requests |-> Idle]
  /\ home     = [r \in Requests |-> None]
  /\ retired  = {}
  /\ notices  = {}
  /\ lapses   = 0
  /\ failures = 0

-----------------------------------------------------------------------------
(* Requests *)

Closed == {"idle", "done"}
InProgress == {r \in Requests : task[r].step \notin Closed}

At(r, kinds, step) == task[r].step = step /\ task[r].kind \in kinds
Go(r, step) == task' = [task EXCEPT ![r].step = step]
\* A request that answered keeps what later ones are compared with.
Ended(t) == [Idle EXCEPT !.kind = t.kind, !.step = "done", !.token = t.token]
End(r) == task' = [task EXCEPT ![r] = Ended(@)]
\* The request answered with a token, and somebody may present it.
Answer(r) == task' = [task EXCEPT ![r] = [Ended(@) EXCEPT !.token = r]]
Made(t, kind) == task[t].kind = kind /\ task[t].token = t

Begin(r, t) ==
  /\ task[r].step = "idle"
  /\ t.kind \in KindsOf[r]
  /\ Cardinality(InProgress) < MaxOverlap
  /\ task' = [task EXCEPT ![r] = t]
  /\ UNCHANGED <<codeVars, attemptVars, tokenVars, displayVars, boundVars>>

\* Staff: POST /registration-attempts, its rotate and its DELETE.
IssueAttempt(r) == \E o \in Owners :
  Begin(r, [Idle EXCEPT !.kind = "issue", !.step = "draw", !.owner = o, !.late = expired])

RotateAttempt(r) == \E o \in Owners, a \in Requests :
  /\ home[a] # None
  /\ Begin(r, [Idle EXCEPT !.kind = "rotate", !.step = "draw", !.owner = o, !.on = a,
                           !.late = expired])

CloseAttempt(r) == \E o \in Owners, a \in Requests :
  /\ home[a] # None
  /\ Begin(r, [Idle EXCEPT !.kind = "close", !.step = "script", !.owner = o, !.on = a,
                           !.late = expired])

\* Staff: a link for a slug that no display has.
IssueLink(r) == \E o \in Owners, s \in Slugs :
  Begin(r, [Idle EXCEPT !.kind = "link", !.step = "unique", !.owner = o, !.slug = s,
                        !.late = expired])

\* A device: the digits typed into it, a session it was given, a link it was given.
CreateSession(r) == \E d \in Digits :
  Begin(r, [Idle EXCEPT !.kind = "session", !.step = "consume", !.digits = d])

RegisterDisplay(r) == \E t \in Requests, s \in Slugs, m \in Machines :
  /\ Made(t, "session")
  /\ Begin(r, [Idle EXCEPT !.kind = "register", !.step = "find", !.token = t,
                           !.slug = s, !.machine = m,
                           !.spent = sessions[t] # None /\ sessions[t].state = "completed"])

ClaimLink(r) == \E t \in Requests, m \in Machines :
  /\ Made(t, "link")
  /\ Begin(r, [Idle EXCEPT !.kind = "claim", !.step = "consume", !.token = t, !.machine = m])

UnregisterDisplay(r) == \E d \in Requests :
  /\ displays[d] # None
  /\ Begin(r, [Idle EXCEPT !.kind = "unregister", !.step = "find", !.on = d])

-----------------------------------------------------------------------------
(* Pairing codes: issuing one and invalidating one *)

Issuing == {"issue", "rotate", "link"}

\* create: digits are drawn and the hash of the code is written.
DrawCode(r) == \E d \in Digits :
  /\ At(r, Issuing, "draw")
  /\ codes' = [codes EXCEPT ![r] = [digits |-> d, used |-> FALSE]]
  /\ task' = [task EXCEPT ![r] =
       [task[r] EXCEPT !.digits = d, !.tries = task[r].tries + 1, !.step = "lookup"]]
  /\ UNCHANGED <<lookup, expired, attemptVars, tokenVars, displayVars, boundVars>>

\* Mutant: SET without NX.
SetLookup_Overwrites(r) ==
  /\ At(r, Issuing, "lookup")
  /\ lookup' = [lookup EXCEPT ![task[r].digits] = r]
  /\ Go(r, "script")
  /\ UNCHANGED <<codes, expired, attemptVars, tokenVars, displayVars, boundVars>>

\* SET NX of the lookup key.
SetLookup(r) ==
  LET d == task[r].digits IN
  /\ At(r, Issuing, "lookup")
  /\ \/ /\ lookup[d] = None
        /\ lookup' = [lookup EXCEPT ![d] = r]
        /\ Go(r, "script")
     \/ /\ lookup[d] # None
        /\ Go(r, "drop")
        /\ UNCHANGED lookup
  /\ UNCHANGED <<codes, expired, attemptVars, tokenVars, displayVars, boundVars>>

\* A collision: the hash goes, and an attempt draws again while a link gives up.
DropCode(r) ==
  /\ At(r, Issuing, "drop")
  /\ codes' = [codes EXCEPT ![r] = None]
  /\ IF task[r].kind # "link" /\ task[r].tries < MaxTries THEN Go(r, "draw") ELSE End(r)
  /\ UNCHANGED <<lookup, expired, attemptVars, tokenVars, displayVars, boundVars>>

\* What a request goes on with once the old code, if there was one, is dead.
Onward(r) == IF task[r].kind = "link" THEN Go(r, "bind") ELSE End(r)

\* invalidateById: the hash is read ...
ReadOld(r) ==
  LET c == task[r].old IN
  /\ At(r, Kind, "read")
  /\ IF codes[c] = None \/ codes[c].used \/ c \in task[r].late
       THEN Onward(r)
       ELSE Go(r, "mark")
  /\ UNCHANGED <<codeVars, attemptVars, tokenVars, displayVars, boundVars>>

\* ... marked used ...
MarkOld(r) ==
  /\ At(r, Kind, "mark")
  /\ codes' = [codes EXCEPT ![task[r].old].used = TRUE]
  /\ Go(r, "unlook")
  /\ UNCHANGED <<lookup, expired, attemptVars, tokenVars, displayVars, boundVars>>

\* ... and the lookup key of its digits deleted, whoever has set it.
DeleteLookup(r) ==
  /\ At(r, Kind, "unlook")
  /\ lookup' = [lookup EXCEPT ![codes[task[r].old].digits] = None]
  /\ Onward(r)
  /\ UNCHANGED <<codes, expired, attemptVars, tokenVars, displayVars, boundVars>>

-----------------------------------------------------------------------------
(* Attempts: the Lua scripts of the attempt store *)

\* The index without the digits of code c.
Unindexed(c) == [d \in Digits |->
  IF c # None /\ d = codes[c].digits THEN None ELSE index[d]]

\* What a script returns for invalidation decides whether anything is left to do.
Retire(r, c) ==
  /\ retired' = retired \cup ({c} \ {None})
  /\ IF c # None
       THEN task' = [task EXCEPT ![r].old = c, ![r].step = "read"]
       ELSE Onward(r)

\* createOrReplaceOpenAttempt: the owner's open attempt is closed, a new one opened.
OpenAttempt(r) ==
  LET o == task[r].owner
      e == open[o]
      there == e # None /\ attempts[e] # None
      c == IF there THEN attempts[e].code ELSE None
      fresh == [owner |-> o, closed |-> FALSE, code |-> r] IN
  /\ At(r, {"issue", "link"}, "script")
  /\ attempts' = IF there
                   THEN [attempts EXCEPT ![e].closed = TRUE, ![e].code = None, ![r] = fresh]
                   ELSE [attempts EXCEPT ![r] = fresh]
  /\ index' = [Unindexed(c) EXCEPT ![task[r].digits] = r]
  /\ open' = [open EXCEPT ![o] = r]
  /\ home' = [home EXCEPT ![r] = r]
  /\ Retire(r, c)
  /\ UNCHANGED <<codeVars, tokenVars, displayVars, boundVars>>

\* Mutant: closed attempts are not told apart.
Rotatable_ClosedToo(a, o) == attempts[a] # None /\ attempts[a].owner = o

Rotatable(a, o) == attempts[a] # None /\ attempts[a].owner = o /\ ~attempts[a].closed

\* rotateCode: the new code takes the place of the old in an attempt still open.
RotateCode(r) ==
  LET a == task[r].on
      c == attempts[a].code IN
  /\ At(r, {"rotate"}, "script")
  /\ Rotatable(a, task[r].owner)
  /\ attempts' = [attempts EXCEPT ![a].code = r]
  /\ index' = [Unindexed(c) EXCEPT ![task[r].digits] = a]
  /\ open' = [open EXCEPT ![task[r].owner] = a]
  /\ home' = [home EXCEPT ![r] = a]
  /\ Retire(r, c)
  /\ UNCHANGED <<codeVars, tokenVars, displayVars, boundVars>>

\* Not found or closed: the new code stays behind in the lookup until it expires.
RotateRefused(r) ==
  /\ At(r, {"rotate"}, "script")
  /\ ~Rotatable(task[r].on, task[r].owner)
  /\ End(r)
  /\ UNCHANGED <<codeVars, attemptVars, tokenVars, displayVars, boundVars>>

\* closeAttempt; a second close finds nothing to do.
CloseScript(r) ==
  LET a == task[r].on
      c == attempts[a].code IN
  /\ At(r, {"close"}, "script")
  /\ IF Rotatable(a, task[r].owner)
       THEN /\ attempts' = [attempts EXCEPT ![a].closed = TRUE, ![a].code = None]
            /\ index' = Unindexed(c)
            /\ open' = [open EXCEPT ![task[r].owner] = None]
            /\ Retire(r, c)
       ELSE End(r) /\ UNCHANGED <<attempts, index, open, retired>>
  /\ UNCHANGED <<codeVars, home, tokenVars, displayVars, boundVars>>

-----------------------------------------------------------------------------
(* Sessions and links *)

\* Mutant: the lookup key alone is trusted.
ConsumeIndex_ByLookup(r) ==
  LET c == lookup[task[r].digits] IN
  /\ At(r, {"session"}, "consume")
  /\ IF c # None /\ home[c] # None
       THEN task' = [task EXCEPT ![r].on = home[c], ![r].old = c, ![r].step = "getdel"]
       ELSE End(r)
  /\ UNCHANGED <<codeVars, attemptVars, tokenVars, displayVars, boundVars>>

\* consumeCodeHash: what the attempt shows must be what was typed; an index entry
\* that leads nowhere is cleaned away.
ConsumeIndex(r) ==
  LET d == task[r].digits
      a == index[d]
      c == IF a = None \/ attempts[a] = None \/ attempts[a].closed THEN None ELSE attempts[a].code
      shown == c # None /\ codes[c].digits = d IN
  /\ At(r, {"session"}, "consume")
  /\ index' = IF c = None \/ shown THEN [index EXCEPT ![d] = None] ELSE index
  /\ attempts' = IF shown THEN [attempts EXCEPT ![a].code = None] ELSE attempts
  /\ IF shown /\ c \notin expired
       THEN task' = [task EXCEPT ![r].on = a, ![r].old = c, ![r].step = "getdel"]
       ELSE End(r)
  /\ UNCHANGED <<codeVars, open, home, retired, tokenVars, displayVars, boundVars>>

\* consumeValidCode: GETDEL of the lookup key ...
TakeLookup(r) ==
  LET c == lookup[task[r].digits] IN
  /\ At(r, {"session"}, "getdel")
  /\ IF c = None
       THEN End(r)
       ELSE task' = [task EXCEPT ![r].got = c, ![r].step = "readCode"]
  /\ lookup' = [lookup EXCEPT ![task[r].digits] = None]
  /\ UNCHANGED <<codes, expired, attemptVars, tokenVars, displayVars, boundVars>>

\* ... the hash is read ...
ReadCode(r) ==
  LET c == task[r].got IN
  /\ At(r, {"session"}, "readCode")
  /\ IF codes[c] = None \/ codes[c].used THEN End(r) ELSE Go(r, "spend")
  /\ UNCHANGED <<codeVars, attemptVars, tokenVars, displayVars, boundVars>>

\* Mutant: the code spent is not compared with the attempt's.
SpendCode_WhateverItIs(r) ==
  /\ At(r, {"session"}, "spend")
  /\ codes' = [codes EXCEPT ![task[r].got].used = TRUE]
  /\ Go(r, "create")
  /\ UNCHANGED <<lookup, expired, attemptVars, tokenVars, displayVars, boundVars>>

\* ... and marked used.  Only the code the attempt named makes a session.
SpendCode(r) ==
  /\ At(r, {"session"}, "spend")
  /\ codes' = [codes EXCEPT ![task[r].got].used = TRUE]
  /\ IF task[r].got = task[r].old THEN Go(r, "create") ELSE End(r)
  /\ UNCHANGED <<lookup, expired, attemptVars, tokenVars, displayVars, boundVars>>

WriteSession(r) ==
  /\ At(r, {"session"}, "create")
  /\ sessions' = [sessions EXCEPT ![r] = [code |-> task[r].got, state |-> "open"]]
  /\ Go(r, "bind")
  /\ UNCHANGED <<codeVars, attemptVars, bound, links, displayVars, boundVars>>

\* bindSessionAttempt: the last call of a session, the last but one of a link.
Bind(r) ==
  /\ At(r, {"session", "link"}, "bind")
  /\ IF task[r].kind = "session"
       THEN bound' = [bound EXCEPT ![r] = task[r].on] /\ Answer(r)
       ELSE bound' = [bound EXCEPT ![r] = r] /\ Go(r, "link")
  /\ UNCHANGED <<codeVars, attemptVars, sessions, links, displayVars, boundVars>>

WriteLink(r) ==
  /\ At(r, {"link"}, "link")
  /\ links' = [links EXCEPT ![r] = task[r].slug]
  /\ Answer(r)
  /\ UNCHANGED <<codeVars, attemptVars, sessions, bound, displayVars, boundVars>>

-----------------------------------------------------------------------------
(* Displays *)

\* Mutant: the state is not looked at.
IsOpen_There(t) == sessions[t] # None

\* findOpenById, and the read in complete.
IsOpen(t) == sessions[t] # None /\ sessions[t].state = "open"

FindSession(r) ==
  /\ At(r, {"register"}, "find")
  /\ IF IsOpen(task[r].token) THEN Go(r, "unique") ELSE End(r)
  /\ UNCHANGED <<codeVars, attemptVars, tokenVars, displayVars, boundVars>>

\* Mutant: the link is read and not deleted.
ConsumeLink_Peek(r) ==
  LET t == task[r].token IN
  /\ At(r, {"claim"}, "consume")
  /\ IF links[t] = None
       THEN End(r)
       ELSE task' = [task EXCEPT ![r].slug = links[t], ![r].step = "unique"]
  /\ UNCHANGED <<codeVars, attemptVars, tokenVars, displayVars, boundVars>>

\* consume: MULTI of HGETALL and DEL.
ConsumeLink(r) ==
  LET t == task[r].token IN
  /\ At(r, {"claim"}, "consume")
  /\ IF links[t] = None
       THEN End(r)
       ELSE task' = [task EXCEPT ![r].slug = links[t], ![r].step = "unique"]
  /\ links' = [links EXCEPT ![t] = None]
  /\ UNCHANGED <<codeVars, attemptVars, sessions, bound, displayVars, boundVars>>

\* A display has this slug, or this device and output: the two lookups run in parallel.
Taken(s, m) == \E d \in Requests :
  displays[d] # None /\ (displays[d].slug = s \/ displays[d].machine = m)

CheckUnique(r) ==
  /\ At(r, {"register", "claim", "link"}, "unique")
  /\ IF Taken(task[r].slug, task[r].machine)
       THEN End(r)
       ELSE Go(r, [register |-> "check", claim |-> "insert", link |-> "draw"][task[r].kind])
  /\ UNCHANGED <<codeVars, attemptVars, tokenVars, displayVars, boundVars>>

\* complete reads the session again and writes it a call later.
RereadSession(r) ==
  /\ At(r, {"register"}, "check")
  /\ IF IsOpen(task[r].token) THEN Go(r, "complete") ELSE End(r)
  /\ UNCHANGED <<codeVars, attemptVars, tokenVars, displayVars, boundVars>>

CompleteSession(r) ==
  LET t == task[r].token IN
  /\ At(r, {"register"}, "complete")
  /\ sessions' = IF sessions[t] = None THEN sessions
                   ELSE [sessions EXCEPT ![t].state = "completed"]
  /\ Go(r, "insert")
  /\ UNCHANGED <<codeVars, attemptVars, bound, links, displayVars, boundVars>>

\* createRegisteredDisplay; the unique indexes refuse a slug or a device taken meanwhile.
InsertDisplay(r) ==
  LET s == task[r].slug m == task[r].machine IN
  /\ At(r, {"register", "claim"}, "insert")
  /\ IF Taken(s, m)
       THEN End(r) /\ UNCHANGED displays
       ELSE /\ displays' = [displays EXCEPT ![r] = [slug |-> s, machine |-> m, key |-> FALSE]]
            /\ Go(r, "key")
  /\ UNCHANGED <<codeVars, attemptVars, tokenVars, notices, boundVars>>

\* The key refers to the display, which may have been unregistered.
InsertKey(r) ==
  /\ At(r, {"register", "claim"}, "key")
  /\ IF displays[r] # None
       THEN displays' = [displays EXCEPT ![r].key = TRUE] /\ Go(r, "notify")
       ELSE Go(r, "undo") /\ UNCHANGED displays
  /\ UNCHANGED <<codeVars, attemptVars, tokenVars, notices, boundVars>>

\* Mutant: the display is not deleted again.
KeyFails_DisplayStays(r) == \E b \in BOOLEAN :
  /\ At(r, {"register", "claim"}, "key")
  /\ displays[r] # None
  /\ failures < MaxFailures
  /\ failures' = failures + 1
  /\ displays' = [displays EXCEPT ![r].key = b]
  /\ End(r)
  /\ UNCHANGED <<codeVars, attemptVars, tokenVars, notices, lapses>>

\* The insertion reports a failure, the transaction committed or not.
KeyFails(r) == \E b \in BOOLEAN :
  /\ At(r, {"register", "claim"}, "key")
  /\ displays[r] # None
  /\ failures < MaxFailures
  /\ failures' = failures + 1
  /\ displays' = [displays EXCEPT ![r].key = b]
  /\ Go(r, "undo")
  /\ UNCHANGED <<codeVars, attemptVars, tokenVars, notices, lapses>>

UndoDisplay(r) ==
  /\ At(r, {"register", "claim"}, "undo")
  /\ displays' = [displays EXCEPT ![r] = None]
  /\ End(r)
  /\ UNCHANGED <<codeVars, attemptVars, tokenVars, notices, boundVars>>

\* consumeSessionAttemptId, and the event for the attempt's event stream.
Notify(r) ==
  LET a == bound[task[r].token] IN
  /\ At(r, {"register", "claim"}, "notify")
  /\ notices' = IF a = None THEN notices
                  ELSE notices \cup {[attempt |-> a, display |-> r]}
  /\ bound' = [bound EXCEPT ![task[r].token] = None]
  /\ End(r)
  /\ UNCHANGED <<codeVars, attemptVars, sessions, links, displays, boundVars>>

FindDisplay(r) ==
  /\ At(r, {"unregister"}, "find")
  /\ IF displays[task[r].on] = None THEN End(r) ELSE Go(r, "revoke")
  /\ UNCHANGED <<codeVars, attemptVars, tokenVars, displayVars, boundVars>>

RevokeKey(r) ==
  LET d == task[r].on IN
  /\ At(r, {"unregister"}, "revoke")
  /\ displays' = IF displays[d] = None THEN displays
                   ELSE [displays EXCEPT ![d].key = FALSE]
  /\ Go(r, "delete")
  /\ UNCHANGED <<codeVars, attemptVars, tokenVars, notices, boundVars>>

DeleteDisplay(r) ==
  /\ At(r, {"unregister"}, "delete")
  /\ displays' = [displays EXCEPT ![task[r].on] = None]
  /\ End(r)
  /\ UNCHANGED <<codeVars, attemptVars, tokenVars, notices, boundVars>>

-----------------------------------------------------------------------------
(* Time *)

Lapse ==
  /\ lapses < MaxLapses
  /\ lapses' = lapses + 1
  /\ UNCHANGED failures

\* Ten minutes pass: the lookup and index keys of code c go, its hash stays.
CodeExpires(c) ==
  /\ Lapse
  /\ codes[c] # None /\ (home[c] # None \/ task[c].step = "done")
  /\ c \notin expired
  /\ expired' = expired \cup {c}
  /\ lookup' = [d \in Digits |-> IF lookup[d] = c THEN None ELSE lookup[d]]
  /\ index' = [d \in Digits |->
       IF index[d] # None /\ attempts[index[d]] # None /\ attempts[index[d]].code = c
         THEN None ELSE index[d]]
  /\ UNCHANGED <<codes, attempts, open, home, retired, tokenVars, displayVars, task>>

\* The attempt's hash outlives its code by half an hour ...
AttemptExpires(a) ==
  /\ Lapse
  /\ attempts[a] # None
  /\ attempts[a].code \in expired \cup {None}
  /\ attempts' = [attempts EXCEPT ![a] = None]
  /\ UNCHANGED <<codeVars, index, open, home, retired, tokenVars, displayVars, task>>

\* ... and the owner's key lives no shorter than the attempt it names.
OpenExpires(o) ==
  /\ Lapse
  /\ open[o] # None
  /\ attempts[open[o]] = None
  /\ open' = [open EXCEPT ![o] = None]
  /\ UNCHANGED <<codeVars, attempts, index, home, retired, tokenVars, displayVars, task>>

\* A session lives ten minutes and a link five, the binding of either thirty.
TokenExpires(t) ==
  /\ Lapse
  /\ sessions[t] # None \/ links[t] # None
  /\ Made(t, "session") \/ Made(t, "link")
  /\ sessions' = [sessions EXCEPT ![t] = None]
  /\ links' = [links EXCEPT ![t] = None]
  /\ UNCHANGED <<codeVars, attemptVars, bound, displayVars, task>>

BindingExpires(t) ==
  /\ Lapse
  /\ bound[t] # None /\ task[t].step = "done"
  /\ sessions[t] = None /\ links[t] = None
  /\ bound' = [bound EXCEPT ![t] = None]
  /\ UNCHANGED <<codeVars, attemptVars, sessions, links, displayVars, task>>

-----------------------------------------------------------------------------
Staff(r) == IssueAttempt(r) \/ RotateAttempt(r) \/ CloseAttempt(r) \/ IssueLink(r)
              \/ UnregisterDisplay(r)
Device(r) == CreateSession(r) \/ RegisterDisplay(r) \/ ClaimLink(r)

CodeStep(r) == DrawCode(r) \/ SetLookup(r) \/ DropCode(r) \/ ReadOld(r) \/ MarkOld(r)
                 \/ DeleteLookup(r)
AttemptStep(r) == OpenAttempt(r) \/ RotateCode(r) \/ RotateRefused(r) \/ CloseScript(r)
TokenStep(r) == ConsumeIndex(r) \/ TakeLookup(r) \/ ReadCode(r) \/ SpendCode(r)
                  \/ WriteSession(r) \/ Bind(r) \/ WriteLink(r)
DisplayStep(r) == FindSession(r) \/ ConsumeLink(r) \/ CheckUnique(r) \/ RereadSession(r)
                    \/ CompleteSession(r) \/ InsertDisplay(r) \/ InsertKey(r) \/ KeyFails(r)
                    \/ UndoDisplay(r) \/ Notify(r) \/ FindDisplay(r) \/ RevokeKey(r)
                    \/ DeleteDisplay(r)

Expiry == \/ \E x \in Requests : CodeExpires(x) \/ AttemptExpires(x) \/ TokenExpires(x)
                                   \/ BindingExpires(x)
          \/ \E o \in Owners : OpenExpires(o)

Next == \/ \E r \in Requests : \/ Staff(r) \/ Device(r) \/ CodeStep(r) \/ AttemptStep(r)
                                \/ TokenStep(r) \/ DisplayStep(r)
        \/ Expiry

Spec == Init /\ [][Next]_vars

-----------------------------------------------------------------------------
(* Properties *)

\* A member of staff has at most one attempt that is not closed, and the owner's
\* key leads to it: opening a new one closes the old, and neither a rotation nor a
\* close that arrives late brings an old one back (scripts.ts).
OneOpenAttempt == \A a \in Requests :
  attempts[a] # None /\ ~attempts[a].closed => open[attempts[a].owner] = a

\* The code an attempt shows can be used: its digits lead to the attempt and to the
\* unused code, so long as no expired code read the same.  (An expired code stays
\* in its attempt, whose next script deletes the index entry of those digits.)
ShownCodeWorks == \A a \in Requests :
  LET c == attempts[a].code IN
  /\ attempts[a] # None /\ c # None
  /\ \A x \in expired : codes[x].digits # codes[c].digits
  => index[codes[c].digits] = a /\ lookup[codes[c].digits] = c /\ ~codes[c].used

\* A pairing code ends in one way: a session was made of it, one at most, or a
\* rotation, a close or a new attempt took it back; never both, however the device
\* and the member of staff interleave.
CodeEndsOnce ==
  /\ \A s \in Requests : sessions[s] # None => sessions[s].code \notin retired
  /\ \A s, t \in Requests : sessions[s] # None /\ sessions[t] # None /\ s # t
                              => sessions[s].code # sessions[t].code

\* The event goes to the attempt whose code the device was given, even when the
\* digits were drawn again while they were being consumed.
BindingIsOfTheCode == \A s \in Requests :
  sessions[s] # None /\ bound[s] # None => home[sessions[s].code] = bound[s]

\* A link makes one display at most: of the requests that present it one is past
\* its consumption or has registered.
Claims(t) == {r \in Requests : task[r].kind = "claim" /\ task[r].token = t}
OneDisplayPerLink == \A t \in Requests :
  Cardinality({r \in Claims(t) : displays[r] # None
                 \/ task[r].step \in {"unique", "insert", "key", "undo", "notify"}}) <= 1

\* A session that was completed when the request came registers no display; two
\* requests at once may both register one.
CompletedSessionIsSpent == \A r \in Requests :
  task[r].spent => task[r].step \in {"idle", "find", "done"}

\* A display without an active key could never authenticate; when no request is in
\* progress there is none, even after a key insertion that failed.
NoDisplayWithoutKey ==
  InProgress = {} => \A d \in Requests : displays[d] # None => displays[d].key

\* However registrations meet, fail or come late, a link makes one display, a
\* completed session makes none, and no display is left that could never authenticate.
DisplaysAreSound == OneDisplayPerLink /\ CompletedSessionIsSpent /\ NoDisplayWithoutKey
=============================================================================
