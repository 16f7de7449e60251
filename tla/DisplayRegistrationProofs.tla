----------------------- MODULE DisplayRegistrationProofs -----------------------
(***************************************************************************)
(* For any number of requests, owners, digits, slugs and devices, and any  *)
(* bounds: the types, one open attempt per owner, a code that ends once,   *)
(* an event that goes to the attempt of the code, sound displays, and a    *)
(* shown code that works.                                                  *)
(*                                                                         *)
(* The argument follows a code through the places it can be in: shown by   *)
(* the attempt that took it, handed out by a script for invalidation, in   *)
(* the hands of one device request, or that of a session.  PlaceInv says   *)
(* that a code is in one place at most and that its home never changes;    *)
(* TaskInv and IssuedInv say what a request carries from call to call.     *)
(* Two invariants rest on that one.  SoundInv follows links, sessions and  *)
(* keys: what is presented was answered, one claim is past each link, and  *)
(* a display without a key is in somebody's hands.  CodeInv follows the    *)
(* keys in Redis: from the moment a code's lookup key is set until the     *)
(* code is spent, taken back or given up, the key is its own, unless an    *)
(* expired code reads the same digits.                                     *)
(***************************************************************************)
EXTENDS DisplayRegistration, FiniteSetTheorems, TLAPS

Past == {"script", "read", "mark", "unlook", "bind", "link", "done"}

\* A code whose digits nobody else had: it will not be withdrawn by DropCode.
Issued(c) == c \in Requests /\ codes[c] \in Code /\ task[c].kind \in Issuing /\ task[c].step \in Past

\* What a request carries at each step.
TaskOK(r) == LET t == task[r] IN
  /\ t.kind \in Issuing /\ t.step \in {"lookup", "drop", "script"} => codes[r] \in Code
  /\ t.kind \in Issuing \cup {"close"} /\ t.step \notin Closed => t.owner \in Owners
  /\ t.kind \in {"rotate", "close", "unregister"} /\ t.step \notin Closed => t.on \in Requests
  /\ t.kind = "session" /\ t.step \notin Closed => t.digits \in Digits
  /\ t.kind \in {"register", "claim"} /\ t.step \notin Closed =>
       t.token \in Requests /\ t.machine \in Machines /\ (t.step # "consume" => t.slug \in Slugs)
  /\ t.step = "draw" => t.tries < MaxTries
  /\ t.kind = "link" /\ t.step = "unique" => t.tries = 0
  /\ t.step \in {"readCode", "spend", "create"} => Issued(t.got)
  /\ t.step = "create" => t.got = t.old
  /\ t.step \in {"read", "mark", "unlook"} => t.old \in Requests /\ home[t.old] # None

TaskInv == \A r \in Requests : TaskOK(r)

\* When a request's variables are first written.
IssuedInv ==
  /\ \A d \in Digits : lookup[d] # None => Issued(lookup[d])
  /\ \A c \in Requests : home[c] # None => Issued(c) /\ task[c].step # "script"
  /\ \A s \in Requests : sessions[s] # None =>
       task[s].kind = "session" /\ task[s].step \in {"bind", "done"}
  /\ \A s \in Requests : bound[s] # None =>
       task[s].kind \in {"session", "link"} /\ task[s].step \in {"link", "done"}

\* Device request s has taken code c from its attempt and made no session of it yet.
Consuming(s, c) ==
  task[s].kind = "session" /\ task[s].step \in {"getdel", "readCode", "spend", "create"}
    /\ task[s].old = c

NoSessionOf(c) == \A s \in Requests : sessions[s] # None => sessions[s].code # c

\* A code is in one place at most.
ShownInv == \A a \in Requests :
  attempts[a] # None /\ attempts[a].code # None =>
    /\ home[attempts[a].code] = a
    /\ attempts[a].code \notin retired
    /\ NoSessionOf(attempts[a].code)
    /\ \A s \in Requests : ~Consuming(s, attempts[a].code)

ConsumedInv == \A s \in Requests, c \in Id :
  Consuming(s, c) =>
    /\ c \in Requests /\ task[s].on \in Requests /\ home[c] = task[s].on
    /\ c \notin retired
    /\ NoSessionOf(c)
    /\ \A t \in Requests : Consuming(t, c) => t = s

RetiredInv == \A c \in retired : home[c] # None

SessionInv == \A s \in Requests : sessions[s] # None =>
  /\ home[sessions[s].code] # None
  /\ task[s].step = "bind" => home[sessions[s].code] = task[s].on

PlaceInv == ShownInv /\ ConsumedInv /\ RetiredInv /\ SessionInv /\ CodeEndsOnce /\ BindingIsOfTheCode

IInv == TypeOK /\ TaskInv /\ IssuedInv /\ PlaceInv /\ OneOpenAttempt

-----------------------------------------------------------------------------
(* How a request moves *)

Moved(r, s) ==
  /\ task' \in [Requests -> Task]
  /\ \A x \in Requests : x # r => task'[x] = task[x]
  /\ task'[r].kind = task[r].kind
  /\ task'[r].step = s
  /\ s # "done" =>
       /\ task'[r].owner = task[r].owner /\ task'[r].on = task[r].on
       /\ task'[r].digits = task[r].digits /\ task'[r].tries = task[r].tries
       /\ task'[r].old = task[r].old /\ task'[r].got = task[r].got
       /\ task'[r].token = task[r].token /\ task'[r].slug = task[r].slug
       /\ task'[r].machine = task[r].machine

\* A request that goes on to its next call keeps what it carries.
LEMMA GoMoves ==
  ASSUME TypeOK, NEW r \in Requests, NEW s \in Step, Go(r, s)
  PROVE  Moved(r, s)
<1>1. task \in [Requests -> Task]
  BY DEF TypeOK
<1>2. task' = [task EXCEPT ![r] = [task[r] EXCEPT !.step = s]]
  BY <1>1 DEF Go
<1>3. [task[r] EXCEPT !.step = s] \in Task
  BY <1>1 DEF Task
<1>4. task' \in [Requests -> Task] /\ task'[r] = [task[r] EXCEPT !.step = s]
  BY <1>1, <1>2, <1>3
<1>5. \A x \in Requests : x # r => task'[x] = task[x]
  BY <1>1, <1>2
<1>. QED
  BY <1>1, <1>4, <1>5 DEF Moved, Task

\* Idle is a task.
LEMMA IdleType == Idle \in Task
BY RegistrationAssumption DEF Idle, Task, Id, Step

\* A request that ends keeps its kind.
LEMMA EndMoves ==
  ASSUME TypeOK, NEW r \in Requests, End(r) \/ Answer(r)
  PROVE  Moved(r, "done")
<1>. DEFINE t == [Ended(task[r]) EXCEPT !.token = r]
<1>1. task \in [Requests -> Task] /\ Idle \in Task
  BY IdleType DEF TypeOK
<1>2. PICK u \in {Ended(task[r]), t} : task' = [task EXCEPT ![r] = u]
  BY <1>1 DEF End, Answer
<1>3. /\ Ended(task[r]) \in Task /\ t \in Task
      /\ Ended(task[r]).kind = task[r].kind /\ Ended(task[r]).step = "done"
      /\ t.kind = task[r].kind /\ t.step = "done"
  BY <1>1, RegistrationAssumption, Zenon DEF Ended, Idle, Task, Id, Step
<1>. HIDE DEF t
<1>. QED
  BY <1>1, <1>2, <1>3 DEF Moved

-----------------------------------------------------------------------------
(* Steps that bring no code to a new place *)

Taking == {"getdel", "readCode", "spend", "create"}

\* Nothing is created but, perhaps, the lookup key of an issued code.
Shrinks ==
  /\ home' = home /\ retired' = retired
  /\ \A d \in Digits : lookup'[d] = None \/ lookup'[d] = lookup[d] \/ \E c \in Requests : lookup'[d] = c /\ Issued(c)'
  /\ \A a \in Requests : attempts'[a] # None =>
       /\ attempts'[a] = attempts[a]
       /\ attempts[a].closed \/ open'[attempts[a].owner] = open[attempts[a].owner]
  /\ \A s \in Requests : sessions'[s] # None =>
       sessions[s] # None /\ sessions'[s].code = sessions[s].code
  /\ \A s \in Requests : bound'[s] # None => bound'[s] = bound[s]
  /\ \A c \in Requests : codes[c] \in Code =>
       codes'[c] \in Code \/ (task[c].step = "drop" /\ task'[c].step \in {"draw", "done"})

\* Where request r may go from where it is.
Onwards(r) ==
  /\ \A x \in Requests : x # r => task'[x] = task[x]
  /\ task'[r].kind = task[r].kind \/ task[r].step = "idle"
  /\ task[r].kind \in Issuing /\ task[r].step \in Past => task'[r].step \in Past \ {"script"}
  /\ task'[r].kind = "session" =>
       /\ task'[r].step # "bind"
       /\ task'[r].step \in Taking =>
            /\ task[r].kind = "session" /\ task[r].step \in Taking
            /\ task'[r].old = task[r].old /\ task'[r].on = task[r].on
  /\ task[r].kind = "session" /\ task[r].step \in {"bind", "done"} => task'[r].step = "done"
  /\ task[r].kind \in {"session", "link"} /\ task[r].step \in {"link", "done"} =>
       task'[r].step \in {"link", "done"}

\* An issued code stays issued, and the other requests carry what they carried.
LEMMA OthersOK ==
  ASSUME IInv, NEW r \in Requests, Shrinks, Onwards(r), TaskOK(r)'
  PROVE  (\A c \in Requests : Issued(c) => Issued(c)') /\ TaskInv'
<1>1. ASSUME NEW c \in Requests, Issued(c) PROVE Issued(c)'
  BY <1>1 DEF Shrinks, Onwards, Issued, Past
<1>2. ASSUME NEW x \in Requests, x # r PROVE TaskOK(x)'
  <2>1. TaskOK(x) /\ task'[x] = task[x] /\ home' = home
    BY <1>2 DEF IInv, TaskInv, Shrinks, Onwards
  <2>2. ASSUME NEW c, Issued(c) PROVE Issued(c)'
    BY <1>1, <2>2 DEF Issued
  <2>3. task[x].step \in {"lookup", "drop", "script"} /\ codes[x] \in Code => codes'[x] \in Code
    BY <1>2, <2>1 DEF Shrinks
  <2>4. task[x].step \in {"readCode", "spend", "create"} => Issued(task[x].got)'
    BY <2>1, <2>2 DEF TaskOK, Issued
  <2>. QED
    BY <2>1, <2>3, <2>4 DEF TaskOK
<1>. QED
  BY <1>1, <1>2 DEF TaskInv

\* A quiet step of a request keeps every code in its place.
LEMMA QuietStep ==
  ASSUME IInv, NEW r \in Requests, Shrinks, Onwards(r), TaskOK(r)'
  PROVE  TaskInv' /\ IssuedInv' /\ PlaceInv' /\ OneOpenAttempt'
<1>. USE RegistrationAssumption
<1>1. (\A c \in Requests : Issued(c) => Issued(c)') /\ TaskInv'
  BY OthersOK
<1>2. IssuedInv'
  <2>1. (\A d \in Digits : lookup[d] # None => Issued(lookup[d]))'
    BY <1>1 DEF IInv, IssuedInv, Shrinks, Issued
  <2>2. (\A c \in Requests : home[c] # None => Issued(c) /\ task[c].step # "script")'
    <3>1. ASSUME NEW c \in Requests, home'[c] # None PROVE Issued(c)' /\ task'[c].step # "script"
      <4>1. Issued(c) /\ task[c].step # "script"
        BY <3>1 DEF IInv, IssuedInv, Shrinks
      <4>. QED
        BY <1>1, <4>1 DEF Issued, Onwards
    <3>. QED
      BY <3>1
  <2>3. \A s \in Requests : sessions'[s] # None =>
           task'[s].kind = "session" /\ task'[s].step \in {"bind", "done"}
    BY DEF IInv, IssuedInv, Shrinks, Onwards
  <2>4. \A s \in Requests : bound'[s] # None =>
           task'[s].kind \in {"session", "link"} /\ task'[s].step \in {"link", "done"}
    BY DEF IInv, IssuedInv, Shrinks, Onwards
  <2>. QED
    BY <2>1, <2>2, <2>3, <2>4 DEF IssuedInv
<1>3. \A s \in Requests : \A c : Consuming(s, c)' => Consuming(s, c) /\ task'[s].on = task[s].on
  BY DEF Onwards, Consuming, Taking
<1>4. \A c : NoSessionOf(c) => NoSessionOf(c)'
  BY DEF NoSessionOf, Shrinks
<1>5. ShownInv'
  BY <1>3, <1>4 DEF IInv, PlaceInv, ShownInv, Shrinks
<1>6. ConsumedInv'
  BY <1>3, <1>4 DEF IInv, PlaceInv, ConsumedInv, Shrinks
<1>7. RetiredInv' /\ CodeEndsOnce'
  BY DEF IInv, PlaceInv, RetiredInv, CodeEndsOnce, Shrinks
<1>8. SessionInv'
  BY <1>2 DEF IInv, PlaceInv, SessionInv, Shrinks, Onwards, IssuedInv
<1>9. BindingIsOfTheCode' /\ OneOpenAttempt'
  BY DEF IInv, PlaceInv, BindingIsOfTheCode, OneOpenAttempt, Shrinks
<1>. QED
  BY <1>1, <1>2, <1>5, <1>6, <1>7, <1>8, <1>9 DEF PlaceInv

\* Nor does the passing of time bring a code to a new place.
LEMMA QuietTime ==
  ASSUME IInv, Shrinks, task' = task
  PROVE  TaskInv' /\ IssuedInv' /\ PlaceInv' /\ OneOpenAttempt'
<1>1. \A c \in Requests : Issued(c) => Issued(c)'
  BY DEF Shrinks, Issued, Past
<1>2. TaskInv'
  <2>1. ASSUME NEW x \in Requests PROVE TaskOK(x)'
    <3>1. TaskOK(x) /\ task'[x] = task[x] /\ home' = home
      BY DEF IInv, TaskInv, Shrinks
    <3>2. task[x].step \in {"readCode", "spend", "create"} => Issued(task[x].got)'
      BY <1>1, <3>1 DEF TaskOK, Issued
    <3>3. codes[x] \in Code => codes'[x] \in Code
      BY <3>1 DEF Shrinks
    <3>. QED
      BY <3>1, <3>2, <3>3 DEF TaskOK
  <2>. QED
    BY <2>1 DEF TaskInv
<1>3. IssuedInv'
  BY <1>1 DEF IInv, IssuedInv, Shrinks, Issued
<1>4. \A c : NoSessionOf(c) => NoSessionOf(c)'
  BY DEF NoSessionOf, Shrinks
<1>5. ShownInv' /\ ConsumedInv'
  BY <1>4 DEF IInv, PlaceInv, ShownInv, ConsumedInv, Consuming, Shrinks
<1>6. RetiredInv' /\ CodeEndsOnce' /\ SessionInv'
  BY DEF IInv, PlaceInv, RetiredInv, CodeEndsOnce, SessionInv, Shrinks
<1>7. BindingIsOfTheCode' /\ OneOpenAttempt'
  BY DEF IInv, PlaceInv, BindingIsOfTheCode, OneOpenAttempt, Shrinks
<1>. QED
  BY <1>2, <1>3, <1>5, <1>6, <1>7 DEF PlaceInv

\* The steps of a request that bring no code to a new place.
QuietAction(r) ==
  SetLookup(r) \/ ReadOld(r) \/ MarkOld(r) \/ DeleteLookup(r)
    \/ RotateRefused(r) \/ ReadCode(r) \/ SpendCode(r) \/ WriteLink(r)
    \/ FindSession(r) \/ CheckUnique(r) \/ RereadSession(r) \/ CompleteSession(r)
    \/ InsertDisplay(r) \/ InsertKey(r) \/ KeyFails(r) \/ UndoDisplay(r)
    \/ Notify(r) \/ FindDisplay(r) \/ RevokeKey(r) \/ DeleteDisplay(r)

\* An issued code stays issued.
LEMMA IssuedStays ==
  ASSUME NEW r \in Requests, Shrinks, Onwards(r), NEW c, Issued(c)
  PROVE  Issued(c)'
BY DEF Shrinks, Onwards, Issued, Past

\* A display stays one when its key is set or revoked.
LEMMA KeyedDisplay ==
  ASSUME NEW d \in Display, NEW b \in BOOLEAN
  PROVE  [d EXCEPT !.key = b] \in Display
BY DEF Display

\* What each quiet step of a request does.
LEMMA QuietSteps ==
  ASSUME IInv, NEW r \in Requests, QuietAction(r)
  PROVE  TypeOK' /\ Shrinks /\ Onwards(r) /\ TaskOK(r)'
<1>. USE RegistrationAssumption DEF At, Issuing, Closed, Kind, codeVars, attemptVars, tokenVars, displayVars, boundVars
<1>0. /\ TypeOK /\ TaskOK(r)
      /\ home[r] # None => task[r].kind \in Issuing /\ task[r].step \in Past \ {"script"}
  BY DEF IInv, TaskInv, IssuedInv, Issued
<1>a. task[r].step \in {"read", "mark", "unlook"} =>
        task[r].old \in Requests /\ codes[task[r].old] \in Code
  BY DEF IInv, TaskInv, TaskOK, IssuedInv, Issued
<1>b. task[r].step \in {"readCode", "spend", "create"} =>
        task[r].got \in Requests /\ codes[task[r].got] \in Code
  BY DEF IInv, TaskInv, TaskOK, Issued
<1>. USE <1>0
<1>1. CASE SetLookup(r)
  <2>1. PICK s \in {"script", "drop"} : Moved(r, s)
    BY <1>1, GoMoves, EndMoves DEF SetLookup, Onward, Step
  <2>2. lookup' \in [Digits -> Id]
    BY <1>1 DEF SetLookup, TypeOK, Id
  <2>3. TypeOK'
    BY <1>1, <2>1, <2>2 DEF SetLookup, TypeOK, Moved
  <2>a. s = "script" => Issued(r)'
    BY <1>1, <2>1 DEF SetLookup, Moved, Issued, TaskOK, Past
  <2>b. lookup' = lookup \/ (s = "script" /\ \A d \in Digits : lookup'[d] = lookup[d] \/ lookup'[d] = r)
    BY <1>1, <2>1 DEF SetLookup, Go, Moved, TypeOK, Task
  <2>4. Shrinks
    BY <1>1, <2>a, <2>b DEF SetLookup, Shrinks
  <2>5. Onwards(r)
    BY <1>1, <2>1 DEF SetLookup, Onward, Go, End, Onwards, Moved, Past, Taking
  <2>6. TaskOK(r)'
    BY <1>1, <2>1 DEF SetLookup, Onward, Go, End, Moved, TaskOK, Step
  <2>. QED
    BY <2>3, <2>4, <2>5, <2>6
<1>2. CASE ReadOld(r)
  <2>1. PICK s \in {"mark", "bind", "done"} :
           Moved(r, s) /\ (s = "bind" => task[r].kind = "link")
    BY <1>2, GoMoves, EndMoves DEF ReadOld, Onward, Step
  <2>3. TypeOK'
    BY <1>2, <2>1 DEF ReadOld, TypeOK, Moved
  <2>4. Shrinks
    BY <1>2, <2>1, <1>a DEF ReadOld, Shrinks, Moved, TypeOK, Id
  <2>5. Onwards(r)
    BY <1>2, <2>1 DEF ReadOld, Onwards, Moved, Past, Taking
  <2>6. TaskOK(r)'
    BY <1>2, <2>1, <1>a DEF ReadOld, Onward, Go, End, Moved, TaskOK, Step
  <2>. QED
    BY <2>3, <2>4, <2>5, <2>6
<1>3. CASE MarkOld(r)
  <2>1. PICK s \in {"unlook"} : Moved(r, s)
    BY <1>3, GoMoves, EndMoves DEF MarkOld, Onward, Step
  <2>2. codes' \in [Requests -> Code \cup {None}]
    BY <1>3, <1>a DEF MarkOld, TypeOK, Code
  <2>3. TypeOK'
    BY <1>3, <2>1, <2>2 DEF MarkOld, TypeOK, Moved
  <2>4. Shrinks
    BY <1>3, <2>1, <1>a DEF MarkOld, Shrinks, Moved, TypeOK, Code, Id
  <2>5. Onwards(r)
    BY <1>3, <2>1 DEF MarkOld, Onward, Go, End, Onwards, Moved, Past, Taking
  <2>6. TaskOK(r)'
    BY <1>3, <2>1, <1>a DEF MarkOld, Onward, Go, End, Moved, TaskOK, Step
  <2>. QED
    BY <2>3, <2>4, <2>5, <2>6
<1>4. CASE DeleteLookup(r)
  <2>1. PICK s \in {"bind", "done"} :
           Moved(r, s) /\ (s = "bind" => task[r].kind = "link")
    BY <1>4, GoMoves, EndMoves DEF DeleteLookup, Onward, Step
  <2>2. lookup' \in [Digits -> Id]
    BY <1>4, <1>a DEF DeleteLookup, TypeOK, Id
  <2>3. TypeOK'
    BY <1>4, <2>1, <2>2 DEF DeleteLookup, TypeOK, Moved
  <2>4. Shrinks
    BY <1>4, <2>1, <1>a DEF DeleteLookup, Shrinks, Moved, TypeOK, Id
  <2>5. Onwards(r)
    BY <1>4, <2>1 DEF DeleteLookup, Onwards, Moved, Past, Taking
  <2>6. TaskOK(r)'
    BY <1>4, <2>1, <1>a DEF DeleteLookup, Onward, Go, End, Moved, TaskOK, Step
  <2>. QED
    BY <2>3, <2>4, <2>5, <2>6
<1>5. CASE RotateRefused(r)
  <2>1. PICK s \in {"done"} : Moved(r, s)
    BY <1>5, GoMoves, EndMoves DEF RotateRefused, Onward, Step
  <2>3. TypeOK'
    BY <1>5, <2>1 DEF RotateRefused, TypeOK, Moved
  <2>4. Shrinks
    BY <1>5, <2>1 DEF RotateRefused, Shrinks, Moved, TypeOK, Id
  <2>5. Onwards(r)
    BY <1>5, <2>1 DEF RotateRefused, Onward, Go, End, Onwards, Moved, Past, Taking
  <2>6. TaskOK(r)'
    BY <2>1 DEF Moved, TaskOK
  <2>. QED
    BY <2>3, <2>4, <2>5, <2>6
<1>6. CASE ReadCode(r)
  <2>1. PICK s \in {"spend", "done"} : Moved(r, s)
    BY <1>6, GoMoves, EndMoves DEF ReadCode, Onward, Step
  <2>3. TypeOK'
    BY <1>6, <2>1 DEF ReadCode, TypeOK, Moved
  <2>4. Shrinks
    BY <1>6, <2>1 DEF ReadCode, Shrinks, Moved, TypeOK, Id
  <2>5. Onwards(r)
    BY <1>6, <2>1 DEF ReadCode, Onward, Go, End, Onwards, Moved, Past, Taking
  <2>6. TaskOK(r)'
    <3>1. Issued(task[r].got)
      BY <1>6 DEF ReadCode, TaskOK
    <3>2. \A c : Issued(c) => Issued(c)'
      BY <2>4, <2>5, IssuedStays
    <3>3. s # "done" => task'[r].got = task[r].got
      BY <2>1 DEF Moved
    <3>4. s # "done" => Issued(task[r].got)'
      BY <3>1, <3>2, <3>3 DEF Issued
    <3>. QED
      BY <1>6, <2>1, <3>4 DEF ReadCode, Go, End, Moved, TaskOK
  <2>. QED
    BY <2>3, <2>4, <2>5, <2>6
<1>7. CASE SpendCode(r)
  <2>1. PICK s \in {"create", "done"} :
           Moved(r, s) /\ (s = "create" => task[r].got = task[r].old)
    BY <1>7, GoMoves, EndMoves DEF SpendCode, Onward, Step
  <2>2. codes' \in [Requests -> Code \cup {None}]
    BY <1>7, <1>b DEF SpendCode, TypeOK, Code
  <2>3. TypeOK'
    BY <1>7, <2>1, <2>2 DEF SpendCode, TypeOK, Moved
  <2>4. Shrinks
    BY <1>7, <2>1, <1>b DEF SpendCode, Shrinks, Moved, TypeOK, Code, Id
  <2>5. Onwards(r)
    BY <1>7, <2>1 DEF SpendCode, Onward, Go, End, Onwards, Moved, Past, Taking
  <2>6. TaskOK(r)'
    <3>1. Issued(task[r].got)
      BY <1>7 DEF SpendCode, TaskOK
    <3>2. \A c : Issued(c) => Issued(c)'
      BY <2>4, <2>5, IssuedStays
    <3>3. s # "done" => task'[r].got = task[r].got
      BY <2>1 DEF Moved
    <3>4. s # "done" => Issued(task[r].got)'
      BY <3>1, <3>2, <3>3 DEF Issued
    <3>. QED
      BY <1>7, <2>1, <3>4 DEF SpendCode, Moved, TaskOK
  <2>. QED
    BY <2>3, <2>4, <2>5, <2>6
<1>8. CASE WriteLink(r)
  <2>1. PICK s \in {"done"} : Moved(r, s)
    BY <1>8, GoMoves, EndMoves DEF WriteLink, Onward, Step
  <2>2. links' \in [Requests -> Slugs \cup {None}]
    BY <1>8 DEF WriteLink, TypeOK, Task
  <2>3. TypeOK'
    BY <1>8, <2>1, <2>2 DEF WriteLink, TypeOK, Moved
  <2>4. Shrinks
    BY <1>8, <2>1 DEF WriteLink, Shrinks, Moved, TypeOK, Id
  <2>5. Onwards(r)
    BY <1>8, <2>1 DEF WriteLink, Onward, Go, End, Onwards, Moved, Past, Taking
  <2>6. TaskOK(r)'
    BY <2>1 DEF Moved, TaskOK
  <2>. QED
    BY <2>3, <2>4, <2>5, <2>6
<1>9. CASE FindSession(r)
  <2>1. PICK s \in {"unique", "done"} : Moved(r, s)
    BY <1>9, GoMoves, EndMoves DEF FindSession, Onward, Step
  <2>3. TypeOK'
    BY <1>9, <2>1 DEF FindSession, TypeOK, Moved
  <2>4. Shrinks
    BY <1>9, <2>1 DEF FindSession, Shrinks, Moved, TypeOK, Id
  <2>5. Onwards(r)
    BY <1>9, <2>1 DEF FindSession, Onward, Go, End, Onwards, Moved, Past, Taking
  <2>6. TaskOK(r)'
    BY <1>9, <2>1 DEF FindSession, Onward, Go, End, Moved, TaskOK, Step
  <2>. QED
    BY <2>3, <2>4, <2>5, <2>6
<1>10. CASE CheckUnique(r)
  <2>1. PICK s \in {"check", "insert", "draw", "done"} :
           Moved(r, s) /\ (s = "draw" => task[r].kind = "link")
    BY <1>10, GoMoves, EndMoves DEF CheckUnique, Onward, Step
  <2>3. TypeOK'
    BY <1>10, <2>1 DEF CheckUnique, TypeOK, Moved
  <2>4. Shrinks
    BY <1>10, <2>1 DEF CheckUnique, Shrinks, Moved, TypeOK, Id
  <2>5. Onwards(r)
    BY <1>10, <2>1 DEF CheckUnique, Onward, Go, End, Onwards, Moved, Past, Taking
  <2>6. TaskOK(r)'
    BY <1>10, <2>1 DEF CheckUnique, Moved, TaskOK
  <2>. QED
    BY <2>3, <2>4, <2>5, <2>6
<1>11. CASE RereadSession(r)
  <2>1. PICK s \in {"complete", "done"} : Moved(r, s)
    BY <1>11, GoMoves, EndMoves DEF RereadSession, Onward, Step
  <2>3. TypeOK'
    BY <1>11, <2>1 DEF RereadSession, TypeOK, Moved
  <2>4. Shrinks
    BY <1>11, <2>1 DEF RereadSession, Shrinks, Moved, TypeOK, Id
  <2>5. Onwards(r)
    BY <1>11, <2>1 DEF RereadSession, Onward, Go, End, Onwards, Moved, Past, Taking
  <2>6. TaskOK(r)'
    BY <1>11, <2>1 DEF RereadSession, Onward, Go, End, Moved, TaskOK, Step
  <2>. QED
    BY <2>3, <2>4, <2>5, <2>6
<1>12. CASE CompleteSession(r)
  <2>1. PICK s \in {"insert"} : Moved(r, s)
    BY <1>12, GoMoves, EndMoves DEF CompleteSession, Onward, Step
  <2>2. sessions' \in [Requests -> Session \cup {None}]
    BY <1>12 DEF CompleteSession, TypeOK, Session, TaskOK
  <2>3. TypeOK'
    BY <1>12, <2>1, <2>2 DEF CompleteSession, TypeOK, Moved
  <2>4. Shrinks
    BY <1>12, <2>1 DEF CompleteSession, Shrinks, Moved, TypeOK, Id
  <2>5. Onwards(r)
    BY <1>12, <2>1 DEF CompleteSession, Onward, Go, End, Onwards, Moved, Past, Taking
  <2>6. TaskOK(r)'
    BY <1>12, <2>1 DEF CompleteSession, Onward, Go, End, Moved, TaskOK, Step
  <2>. QED
    BY <2>3, <2>4, <2>5, <2>6
<1>13. CASE InsertDisplay(r)
  <2>1. PICK s \in {"key", "done"} : Moved(r, s)
    BY <1>13, GoMoves, EndMoves DEF InsertDisplay, Onward, Step
  <2>2. displays' \in [Requests -> Display \cup {None}]
    <3>1. [slug |-> task[r].slug, machine |-> task[r].machine, key |-> FALSE] \in Display
      BY <1>13 DEF InsertDisplay, Display, TaskOK
    <3>. QED
      BY <1>13, <3>1 DEF InsertDisplay, TypeOK
  <2>3. TypeOK'
    BY <1>13, <2>1, <2>2 DEF InsertDisplay, TypeOK, Moved
  <2>4. Shrinks
    BY <1>13, <2>1 DEF InsertDisplay, Shrinks, Moved, TypeOK, Id
  <2>5. Onwards(r)
    BY <1>13, <2>1 DEF InsertDisplay, Onward, Go, End, Onwards, Moved, Past, Taking
  <2>6. TaskOK(r)'
    BY <1>13, <2>1 DEF InsertDisplay, Onward, Go, End, Moved, TaskOK, Step
  <2>. QED
    BY <2>3, <2>4, <2>5, <2>6
<1>14. CASE InsertKey(r)
  <2>1. PICK s \in {"notify", "undo"} : Moved(r, s)
    BY <1>14, GoMoves, EndMoves DEF InsertKey, Onward, Step
  <2>2. displays' \in [Requests -> Display \cup {None}]
    <3>1. displays[r] # None => [displays[r] EXCEPT !.key = TRUE] \in Display
      BY KeyedDisplay DEF TypeOK
    <3>. QED
      BY <1>14, <3>1 DEF InsertKey, TypeOK
  <2>3. TypeOK'
    BY <1>14, <2>1, <2>2 DEF InsertKey, TypeOK, Moved
  <2>4. Shrinks
    BY <1>14, <2>1 DEF InsertKey, Shrinks, Moved, TypeOK, Id
  <2>5. Onwards(r)
    BY <1>14, <2>1 DEF InsertKey, Onward, Go, End, Onwards, Moved, Past, Taking
  <2>6. TaskOK(r)'
    BY <1>14, <2>1 DEF InsertKey, Onward, Go, End, Moved, TaskOK, Step
  <2>. QED
    BY <2>3, <2>4, <2>5, <2>6
<1>15. CASE KeyFails(r)
  <2>1. PICK s \in {"undo"} : Moved(r, s)
    BY <1>15, GoMoves, EndMoves DEF KeyFails, Onward, Step
  <2>2. displays' \in [Requests -> Display \cup {None}] /\ failures' \in 0..MaxFailures
    BY <1>15 DEF KeyFails, TypeOK, Display
  <2>3. TypeOK'
    BY <1>15, <2>1, <2>2 DEF KeyFails, TypeOK, Moved
  <2>4. Shrinks
    BY <1>15, <2>1 DEF KeyFails, Shrinks, Moved, TypeOK, Id
  <2>5. Onwards(r)
    BY <1>15, <2>1 DEF KeyFails, Onward, Go, End, Onwards, Moved, Past, Taking
  <2>6. TaskOK(r)'
    BY <1>15, <2>1 DEF KeyFails, Onward, Go, End, Moved, TaskOK, Step
  <2>. QED
    BY <2>3, <2>4, <2>5, <2>6
<1>16. CASE UndoDisplay(r)
  <2>1. PICK s \in {"done"} : Moved(r, s)
    BY <1>16, GoMoves, EndMoves DEF UndoDisplay, Onward, Step
  <2>2. displays' \in [Requests -> Display \cup {None}]
    BY <1>16 DEF UndoDisplay, TypeOK, Display
  <2>3. TypeOK'
    BY <1>16, <2>1, <2>2 DEF UndoDisplay, TypeOK, Moved
  <2>4. Shrinks
    BY <1>16, <2>1 DEF UndoDisplay, Shrinks, Moved, TypeOK, Id
  <2>5. Onwards(r)
    BY <1>16, <2>1 DEF UndoDisplay, Onward, Go, End, Onwards, Moved, Past, Taking
  <2>6. TaskOK(r)'
    BY <2>1 DEF Moved, TaskOK
  <2>. QED
    BY <2>3, <2>4, <2>5, <2>6
<1>17. CASE Notify(r)
  <2>1. PICK s \in {"done"} : Moved(r, s)
    BY <1>17, GoMoves, EndMoves DEF Notify, Onward, Step
  <2>2. notices' \subseteq [attempt : Requests, display : Requests] /\ bound' \in [Requests -> Id]
    BY <1>17 DEF Notify, TypeOK, TaskOK, Id
  <2>3. TypeOK'
    BY <1>17, <2>1, <2>2 DEF Notify, TypeOK, Moved
  <2>4. Shrinks
    BY <1>17, <2>1 DEF Notify, Shrinks, Moved, TypeOK, Id
  <2>5. Onwards(r)
    BY <1>17, <2>1 DEF Notify, Onward, Go, End, Onwards, Moved, Past, Taking
  <2>6. TaskOK(r)'
    BY <2>1 DEF Moved, TaskOK
  <2>. QED
    BY <2>3, <2>4, <2>5, <2>6
<1>18. CASE FindDisplay(r)
  <2>1. PICK s \in {"revoke", "done"} : Moved(r, s)
    BY <1>18, GoMoves, EndMoves DEF FindDisplay, Onward, Step
  <2>3. TypeOK'
    BY <1>18, <2>1 DEF FindDisplay, TypeOK, Moved
  <2>4. Shrinks
    BY <1>18, <2>1 DEF FindDisplay, Shrinks, Moved, TypeOK, Id
  <2>5. Onwards(r)
    BY <1>18, <2>1 DEF FindDisplay, Onward, Go, End, Onwards, Moved, Past, Taking
  <2>6. TaskOK(r)'
    BY <1>18, <2>1 DEF FindDisplay, Onward, Go, End, Moved, TaskOK, Step
  <2>. QED
    BY <2>3, <2>4, <2>5, <2>6
<1>19. CASE RevokeKey(r)
  <2>1. PICK s \in {"delete"} : Moved(r, s)
    BY <1>19, GoMoves, EndMoves DEF RevokeKey, Onward, Step
  <2>2. displays' \in [Requests -> Display \cup {None}]
    <3>1. task[r].on \in Requests
      BY <1>19 DEF RevokeKey, TaskOK
    <3>2. displays[task[r].on] # None => [displays[task[r].on] EXCEPT !.key = FALSE] \in Display
      BY <3>1, KeyedDisplay DEF TypeOK
    <3>. QED
      BY <1>19, <3>1, <3>2 DEF RevokeKey, TypeOK
  <2>3. TypeOK'
    BY <1>19, <2>1, <2>2 DEF RevokeKey, TypeOK, Moved
  <2>4. Shrinks
    BY <1>19, <2>1 DEF RevokeKey, Shrinks, Moved, TypeOK, Id
  <2>5. Onwards(r)
    BY <1>19, <2>1 DEF RevokeKey, Onward, Go, End, Onwards, Moved, Past, Taking
  <2>6. TaskOK(r)'
    BY <1>19, <2>1 DEF RevokeKey, Onward, Go, End, Moved, TaskOK, Step
  <2>. QED
    BY <2>3, <2>4, <2>5, <2>6
<1>20. CASE DeleteDisplay(r)
  <2>1. PICK s \in {"done"} : Moved(r, s)
    BY <1>20, GoMoves, EndMoves DEF DeleteDisplay, Onward, Step
  <2>2. displays' \in [Requests -> Display \cup {None}]
    BY <1>20 DEF DeleteDisplay, TypeOK, Display, TaskOK
  <2>3. TypeOK'
    BY <1>20, <2>1, <2>2 DEF DeleteDisplay, TypeOK, Moved
  <2>4. Shrinks
    BY <1>20, <2>1 DEF DeleteDisplay, Shrinks, Moved, TypeOK, Id
  <2>5. Onwards(r)
    BY <1>20, <2>1 DEF DeleteDisplay, Onward, Go, End, Onwards, Moved, Past, Taking
  <2>6. TaskOK(r)'
    BY <2>1 DEF Moved, TaskOK
  <2>. QED
    BY <2>3, <2>4, <2>5, <2>6
<1>. QED
  BY <1>1, <1>2, <1>3, <1>4, <1>5, <1>6, <1>7, <1>8, <1>9, <1>10, <1>11, <1>12, <1>13, <1>14, <1>15, <1>16, <1>17, <1>18, <1>19, <1>20 DEF QuietAction

\* What a request brings along.
Starts(t) ==
  /\ t \in Task /\ t.kind \in Kind /\ t.tries = 0
  /\ t.step \in {"draw", "unique", "consume", "find"} \/ (t.step = "script" /\ t.kind = "close")
  /\ t.kind \in Issuing \cup {"close"} => t.owner \in Owners
  /\ t.kind \in {"rotate", "close", "unregister"} => t.on \in Requests
  /\ t.kind = "session" => t.digits \in Digits
  /\ t.kind \in {"register", "claim"} =>
       t.token \in Requests /\ t.machine \in Machines /\ (t.step # "consume" => t.slug \in Slugs)
  /\ t.kind \in {"session", "link"} => t.token = None
  /\ t.kind = "claim" => t.step = "consume" /\ Made(t.token, "link")
  /\ t.spent => t.kind = "register" /\ t.step = "find" /\ Made(t.token, "session") /\ ~IsOpen(t.token)

\* A request that starts brings no code anywhere.
LEMMA BeginStep ==
  ASSUME IInv, NEW r \in Requests, NEW t, Begin(r, t), Starts(t)
  PROVE  IInv'
<1>. USE RegistrationAssumption DEF codeVars, attemptVars, tokenVars, displayVars, boundVars
<1>1. /\ TypeOK /\ TaskOK(r)
      /\ task' \in [Requests -> Task] /\ task'[r] = t /\ task[r].step = "idle"
      /\ \A x \in Requests : x # r => task'[x] = task[x]
  BY DEF IInv, TypeOK, TaskInv, Begin, Starts
<1>2. TypeOK'
  BY <1>1 DEF Begin, TypeOK
<1>3. Shrinks
  BY DEF Begin, Shrinks
<1>4. Onwards(r)
  BY <1>1 DEF Starts, Onwards, Taking, Past
<1>5. TaskOK(r)'
  BY <1>1 DEF Starts, TaskOK, Issuing
<1>. QED
  BY <1>2, <1>3, <1>4, <1>5, QuietStep DEF IInv

\* Every request starts with what its handler is given.
LEMMA Arrives ==
  ASSUME IInv, NEW r \in Requests, Staff(r) \/ Device(r)
  PROVE  \E t : Begin(r, t) /\ Starts(t)
<1>. USE RegistrationAssumption
<1>0. expired \in SUBSET Requests /\ Idle \in Task /\ Idle.tries = 0 /\ Idle.token = None /\ ~Idle.spent
  BY IdleType DEF IInv, TypeOK, Idle
<1>a. /\ {"draw", "unique", "consume", "find", "script"} \subseteq Step
      /\ Kind \subseteq Kind \cup {None} /\ Requests \subseteq Id
      /\ {"issue", "rotate", "close", "link", "session", "register", "claim", "unregister"} \subseteq Kind
  BY DEF Step, Kind, Id
<1>1. CASE IssueAttempt(r)
  <2>. DEFINE u(o) == [Idle EXCEPT !.kind = "issue", !.step = "draw", !.owner = o, !.late = expired]
  <2>1. PICK o \in Owners : Begin(r, u(o))
    BY <1>1, Zenon DEF IssueAttempt
  <2>2. /\ u(o) \in Task /\ u(o).kind = "issue" /\ u(o).step = "draw" /\ u(o).tries = 0 /\ u(o).spent = FALSE
        /\ u(o).owner = o
    BY <1>0, <1>a DEF Task
  <2>. HIDE DEF u
  <2>3. Starts(u(o))
    BY <2>2 DEF Starts, Kind, Issuing
  <2>. QED
    BY <2>1, <2>3
<1>2. CASE RotateAttempt(r)
  <2>. DEFINE u(o, a) == [Idle EXCEPT !.kind = "rotate", !.step = "draw", !.owner = o, !.on = a,
                                          !.late = expired]
  <2>1. PICK o \in Owners, a \in Requests : Begin(r, u(o, a))
    BY <1>2, Zenon DEF RotateAttempt
  <2>2. /\ u(o, a) \in Task /\ u(o, a).kind = "rotate" /\ u(o, a).step = "draw" /\ u(o, a).tries = 0 /\ u(o, a).spent = FALSE
        /\ u(o, a).owner = o /\ u(o, a).on = a
    BY <1>0, <1>a DEF Task
  <2>. HIDE DEF u
  <2>3. Starts(u(o, a))
    BY <2>2 DEF Starts, Kind, Issuing
  <2>. QED
    BY <2>1, <2>3
<1>3. CASE CloseAttempt(r)
  <2>. DEFINE u(o, a) == [Idle EXCEPT !.kind = "close", !.step = "script", !.owner = o, !.on = a,
                                          !.late = expired]
  <2>1. PICK o \in Owners, a \in Requests : Begin(r, u(o, a))
    BY <1>3, Zenon DEF CloseAttempt
  <2>2. /\ u(o, a) \in Task /\ u(o, a).kind = "close" /\ u(o, a).step = "script" /\ u(o, a).tries = 0 /\ u(o, a).spent = FALSE
        /\ u(o, a).owner = o /\ u(o, a).on = a
    BY <1>0, <1>a DEF Task
  <2>. HIDE DEF u
  <2>3. Starts(u(o, a))
    BY <2>2 DEF Starts, Kind, Issuing
  <2>. QED
    BY <2>1, <2>3
<1>4. CASE IssueLink(r)
  <2>. DEFINE u(o, z) == [Idle EXCEPT !.kind = "link", !.step = "unique", !.owner = o, !.slug = z,
                                          !.late = expired]
  <2>1. PICK o \in Owners, z \in Slugs : Begin(r, u(o, z))
    BY <1>4, Zenon DEF IssueLink
  <2>2. /\ u(o, z) \in Task /\ u(o, z).kind = "link" /\ u(o, z).step = "unique" /\ u(o, z).tries = 0 /\ u(o, z).spent = FALSE
        /\ u(o, z).owner = o /\ u(o, z).token = None
    BY <1>0, <1>a DEF Task
  <2>. HIDE DEF u
  <2>3. Starts(u(o, z))
    BY <2>2 DEF Starts, Kind, Issuing
  <2>. QED
    BY <2>1, <2>3
<1>5. CASE UnregisterDisplay(r)
  <2>. DEFINE u(d) == [Idle EXCEPT !.kind = "unregister", !.step = "find", !.on = d]
  <2>1. PICK d \in Requests : Begin(r, u(d))
    BY <1>5, Zenon DEF UnregisterDisplay
  <2>2. /\ u(d) \in Task /\ u(d).kind = "unregister" /\ u(d).step = "find" /\ u(d).tries = 0 /\ u(d).spent = FALSE
        /\ u(d).on = d
    BY <1>0, <1>a DEF Task
  <2>. HIDE DEF u
  <2>3. Starts(u(d))
    BY <2>2 DEF Starts, Kind, Issuing
  <2>. QED
    BY <2>1, <2>3
<1>6. CASE CreateSession(r)
  <2>. DEFINE u(d) == [Idle EXCEPT !.kind = "session", !.step = "consume", !.digits = d]
  <2>1. PICK d \in Digits : Begin(r, u(d))
    BY <1>6, Zenon DEF CreateSession
  <2>2. /\ u(d) \in Task /\ u(d).kind = "session" /\ u(d).step = "consume" /\ u(d).tries = 0 /\ u(d).spent = FALSE
        /\ u(d).digits = d /\ u(d).token = None
    BY <1>0, <1>a DEF Task
  <2>. HIDE DEF u
  <2>3. Starts(u(d))
    BY <2>2 DEF Starts, Kind, Issuing
  <2>. QED
    BY <2>1, <2>3
<1>. DEFINE b(t) == sessions[t] # None /\ sessions[t].state = "completed"
<1>7. CASE RegisterDisplay(r)
  <2>. DEFINE u(t, z, m) == [Idle EXCEPT !.kind = "register", !.step = "find", !.token = t,
                                          !.slug = z, !.machine = m, !.spent = b(t)]
  <2>1. PICK t \in Requests, z \in Slugs, m \in Machines : Begin(r, u(t, z, m)) /\ Made(t, "session")
    BY <1>7, Zenon DEF RegisterDisplay
  <2>a. b(t) \in BOOLEAN
    BY Zenon
  <2>b. b(t) => ~IsOpen(t)
    BY DEF IsOpen
  <2>. HIDE DEF b
  <2>2. /\ u(t, z, m) \in Task /\ u(t, z, m).kind = "register" /\ u(t, z, m).step = "find" /\ u(t, z, m).tries = 0 /\ u(t, z, m).spent = b(t)
        /\ u(t, z, m).token = t /\ u(t, z, m).slug = z /\ u(t, z, m).machine = m
    BY <1>0, <1>a, <2>a DEF Task
  <2>. HIDE DEF u
  <2>3. Starts(u(t, z, m))
    BY <2>1, <2>2, <2>b DEF Starts, Kind, Issuing
  <2>. QED
    BY <2>1, <2>3
<1>8. CASE ClaimLink(r)
  <2>. DEFINE u(t, m) == [Idle EXCEPT !.kind = "claim", !.step = "consume", !.token = t, !.machine = m]
  <2>1. PICK t \in Requests, m \in Machines : Begin(r, u(t, m)) /\ Made(t, "link")
    BY <1>8, Zenon DEF ClaimLink
  <2>2. /\ u(t, m) \in Task /\ u(t, m).kind = "claim" /\ u(t, m).step = "consume" /\ u(t, m).tries = 0 /\ u(t, m).spent = FALSE
        /\ u(t, m).token = t /\ u(t, m).machine = m
    BY <1>0, <1>a DEF Task
  <2>. HIDE DEF u
  <2>3. Starts(u(t, m))
    BY <2>1, <2>2 DEF Starts, Kind, Issuing
  <2>. QED
    BY <2>1, <2>3
<1>. QED
  BY <1>1, <1>2, <1>3, <1>4, <1>5, <1>6, <1>7, <1>8 DEF Staff, Device

\* A request that arrives keeps the invariant.
LEMMA RequestInv ==
  ASSUME IInv, NEW r \in Requests, Staff(r) \/ Device(r)
  PROVE  IInv'
BY Arrives, BeginStep

-----------------------------------------------------------------------------
(* Steps that set more than one thing a request carries *)

\* Drawing a code writes its hash and keeps the invariant.
LEMMA DrawCodeInv ==
  ASSUME IInv, NEW r \in Requests, DrawCode(r)
  PROVE  IInv'
<1>. USE RegistrationAssumption DEF At, attemptVars, tokenVars, displayVars, boundVars
<1>0. TypeOK /\ TaskOK(r)
  BY DEF IInv, TaskInv
<1>1. PICK d \in Digits :
        /\ codes' = [codes EXCEPT ![r] = [digits |-> d, used |-> FALSE]]
        /\ task' = [task EXCEPT ![r] =
             [task[r] EXCEPT !.digits = d, !.tries = task[r].tries + 1, !.step = "lookup"]]
  BY <1>0 DEF DrawCode, TypeOK
<1>. DEFINE u == [task[r] EXCEPT !.digits = d, !.tries = task[r].tries + 1, !.step = "lookup"]
<1>2. /\ u \in Task /\ u.step = "lookup" /\ u.kind = task[r].kind
      /\ u.owner = task[r].owner /\ u.on = task[r].on
  <2>1. task[r] \in Task /\ "lookup" \in Step
    BY <1>0 DEF TypeOK, Step
  <2>2. task[r].tries + 1 \in 0..MaxTries
    BY <1>0, <2>1 DEF DrawCode, TaskOK, Task
  <2>. QED
    BY <2>1, <2>2 DEF Task
<1>3. /\ task' \in [Requests -> Task] /\ task'[r] = u
      /\ \A x \in Requests : x # r => task'[x] = task[x]
  BY <1>0, <1>1, <1>2 DEF TypeOK
<1>. HIDE DEF u
<1>4. codes' \in [Requests -> Code \cup {None}] /\ codes'[r] \in Code
  BY <1>0, <1>1 DEF TypeOK, Code
<1>5. TypeOK'
  BY <1>0, <1>3, <1>4 DEF DrawCode, TypeOK
<1>6. Shrinks
  BY <1>1, <1>4 DEF DrawCode, Shrinks, TypeOK
<1>7. Onwards(r)
  BY <1>2, <1>3 DEF DrawCode, Onwards, Taking, Past
<1>8. TaskOK(r)'
  BY <1>0, <1>2, <1>3, <1>4 DEF DrawCode, TaskOK, Issuing, Closed
<1>. QED
  BY <1>5, <1>6, <1>7, <1>8, QuietStep DEF IInv

\* A code whose digits were taken is withdrawn before anybody could have seen it.
LEMMA DropCodeInv ==
  ASSUME IInv, NEW r \in Requests, DropCode(r)
  PROVE  IInv'
<1>. USE RegistrationAssumption DEF At, attemptVars, tokenVars, displayVars, boundVars
<1>0. TypeOK /\ TaskOK(r)
  BY DEF IInv, TaskInv
<1>1. PICK s \in {"draw", "done"} : Moved(r, s) /\ (s = "draw" => task[r].tries < MaxTries)
  BY <1>0, GoMoves, EndMoves DEF DropCode, Step
<1>2. TypeOK'
  BY <1>0, <1>1 DEF DropCode, TypeOK, Moved
<1>3. Shrinks
  BY <1>0, <1>1 DEF DropCode, Shrinks, TypeOK, Moved
<1>4. Onwards(r)
  BY <1>1 DEF DropCode, Onwards, Moved, Taking, Past
<1>5. TaskOK(r)'
  BY <1>0, <1>1 DEF DropCode, TaskOK, Moved, Issuing, Closed
<1>. QED
  BY <1>2, <1>3, <1>4, <1>5, QuietStep DEF IInv

\* A device request takes an issued code from the lookup, or ends.
LEMMA TakeLookupInv ==
  ASSUME IInv, NEW r \in Requests, TakeLookup(r)
  PROVE  IInv'
<1>. USE RegistrationAssumption DEF At, attemptVars, tokenVars, displayVars, boundVars
<1>0. TypeOK /\ TaskOK(r)
  BY DEF IInv, TaskInv
<1>1. PICK c \in Id : c = lookup[task[r].digits] /\ task[r].digits \in Digits /\ (c # None => Issued(c))
  BY <1>0 DEF TakeLookup, TaskOK, Closed, TypeOK, IInv, IssuedInv
<1>. DEFINE u == [task[r] EXCEPT !.got = c, !.step = "readCode"]
<1>2. /\ u \in Task /\ u.step = "readCode" /\ u.kind = task[r].kind /\ u.got = c
      /\ u.on = task[r].on /\ u.old = task[r].old /\ u.digits = task[r].digits
  <2>1. task[r] \in Task /\ "readCode" \in Step
    BY <1>0 DEF TypeOK, Step
  <2>. QED
    BY <1>1, <2>1 DEF Task
<1>3. /\ task' \in [Requests -> Task] /\ task'[r].kind = task[r].kind
      /\ \A x \in Requests : x # r => task'[x] = task[x]
      /\ task'[r].step = "done" \/ (task'[r] = u /\ c # None)
  <2>1. CASE c = None
    BY <1>0, <1>1, <2>1, EndMoves DEF TakeLookup, Moved
  <2>2. CASE c # None
    <3>1. task' = [task EXCEPT ![r] = u]
      BY <1>0, <1>1, <2>2 DEF TakeLookup, TypeOK
    <3>. HIDE DEF u
    <3>. QED
      BY <1>0, <1>2, <2>2, <3>1 DEF TypeOK
  <2>. QED
    BY <2>1, <2>2
<1>. HIDE DEF u
<1>4. TypeOK'
  BY <1>0, <1>3 DEF TakeLookup, TypeOK, Id
<1>5. Shrinks
  BY <1>0 DEF TakeLookup, Shrinks, TypeOK
<1>6. Onwards(r)
  BY <1>2, <1>3 DEF TakeLookup, Onwards, Taking, Past
<1>7. c # None => Issued(c)'
  BY <1>1, <1>5, <1>6, IssuedStays
<1>8. TaskOK(r)'
  <2>1. task'[r].step # "done" => task'[r].step = "readCode" /\ Issued(task[r].got)'
    BY <1>2, <1>3, <1>7 DEF Issued
  <2>. QED
    BY <1>1, <1>2, <1>3, <2>1 DEF TakeLookup, TaskOK, Issuing, Closed
<1>. QED
  BY <1>4, <1>5, <1>6, <1>8, QuietStep DEF IInv

\* A claim takes the link with its slug, or ends.
LEMMA ConsumeLinkInv ==
  ASSUME IInv, NEW r \in Requests, ConsumeLink(r)
  PROVE  IInv'
<1>. USE RegistrationAssumption DEF At, codeVars, attemptVars, displayVars, boundVars
<1>0. TypeOK /\ TaskOK(r)
  BY DEF IInv, TaskInv
<1>1. PICK s \in Slugs \cup {None} : s = links[task[r].token] /\ task[r].token \in Requests
  BY <1>0 DEF ConsumeLink, TaskOK, Closed, TypeOK
<1>. DEFINE u == [task[r] EXCEPT !.slug = s, !.step = "unique"]
<1>2. /\ u \in Task /\ u.step = "unique" /\ u.kind = task[r].kind /\ u.slug = s
      /\ u.token = task[r].token /\ u.machine = task[r].machine
  <2>1. task[r] \in Task /\ "unique" \in Step
    BY <1>0 DEF TypeOK, Step
  <2>. QED
    BY <1>1, <2>1 DEF Task
<1>3. /\ task' \in [Requests -> Task] /\ task'[r].kind = task[r].kind
      /\ \A x \in Requests : x # r => task'[x] = task[x]
      /\ task'[r].step = "done" \/ (task'[r] = u /\ s # None)
  <2>1. CASE s = None
    BY <1>0, <1>1, <2>1, EndMoves DEF ConsumeLink, Moved
  <2>2. CASE s # None
    <3>1. task' = [task EXCEPT ![r] = u]
      BY <1>0, <1>1, <2>2 DEF ConsumeLink, TypeOK
    <3>. HIDE DEF u
    <3>. QED
      BY <1>0, <1>2, <2>2, <3>1 DEF TypeOK
  <2>. QED
    BY <2>1, <2>2
<1>. HIDE DEF u
<1>4. TypeOK'
  BY <1>0, <1>1, <1>3 DEF ConsumeLink, TypeOK
<1>5. Shrinks
  BY DEF ConsumeLink, Shrinks
<1>6. Onwards(r)
  BY <1>2, <1>3 DEF ConsumeLink, Onwards, Taking, Past
<1>7. TaskOK(r)'
  BY <1>0, <1>1, <1>2, <1>3 DEF ConsumeLink, TaskOK, Issuing, Closed
<1>. QED
  BY <1>4, <1>5, <1>6, <1>7, QuietStep DEF IInv

-----------------------------------------------------------------------------
(* Time *)

\* An expiry keeps the invariant.
LEMMA ExpiryInv ==
  ASSUME IInv, Expiry
  PROVE  IInv'
<1>. USE RegistrationAssumption DEF Lapse, codeVars, attemptVars, tokenVars, displayVars
<1>0. TypeOK
  BY DEF IInv
<1>1. ASSUME NEW c \in Requests, CodeExpires(c) PROVE TypeOK' /\ Shrinks /\ task' = task
  BY <1>0, <1>1 DEF CodeExpires, TypeOK, Shrinks, Id
<1>2. ASSUME NEW a \in Requests, AttemptExpires(a) PROVE TypeOK' /\ Shrinks /\ task' = task
  BY <1>0, <1>2 DEF AttemptExpires, TypeOK, Shrinks, Id
<1>3. ASSUME NEW t \in Requests, TokenExpires(t) PROVE TypeOK' /\ Shrinks /\ task' = task
  BY <1>0, <1>3 DEF TokenExpires, TypeOK, Shrinks, Id
<1>4. ASSUME NEW t \in Requests, BindingExpires(t) PROVE TypeOK' /\ Shrinks /\ task' = task
  BY <1>0, <1>4 DEF BindingExpires, TypeOK, Shrinks, Id
<1>5. ASSUME NEW o \in Owners, OpenExpires(o) PROVE TypeOK' /\ Shrinks /\ task' = task
  BY <1>0, <1>5 DEF OpenExpires, TypeOK, Shrinks, Id, IInv, OneOpenAttempt
<1>. QED
  BY <1>1, <1>2, <1>3, <1>4, <1>5, QuietTime DEF Expiry, IInv

-----------------------------------------------------------------------------
(* The scripts of the attempt store *)

\* Nothing of a request that has not yet written its code to an attempt.
LEMMA NewCode ==
  ASSUME IInv, NEW r \in Requests, task[r].kind \in Issuing, task[r].step = "script"
  PROVE  /\ home[r] = None /\ r \notin retired /\ NoSessionOf(r)
         /\ \A s \in Requests : ~Consuming(s, r)
         /\ \A a \in Requests : attempts[a] # None => attempts[a].code # r
<1>. USE RegistrationAssumption
<1>1. home[r] = None
  BY DEF IInv, IssuedInv
<1>2. r \notin retired /\ NoSessionOf(r)
  BY <1>1 DEF IInv, PlaceInv, RetiredInv, SessionInv, NoSessionOf
<1>3. \A s \in Requests : ~Consuming(s, r)
  BY <1>1 DEF IInv, PlaceInv, ConsumedInv, Id
<1>4. \A a \in Requests : attempts[a] # None => attempts[a].code # r
  BY <1>1 DEF IInv, PlaceInv, ShownInv
<1>. QED
  BY <1>1, <1>2, <1>3, <1>4

\* Script step of request r that hands out code c, and at most shows r's own code.
Scripted(r, c) ==
  /\ task[r].kind \in Issuing \cup {"close"} /\ task[r].step = "script"
  /\ task' \in [Requests -> Task]
  /\ \A x \in Requests : x # r => task'[x] = task[x]
  /\ task'[r].kind = task[r].kind
  /\ \/ task'[r].step = "done"
     \/ /\ task'[r].owner = task[r].owner /\ task'[r].on = task[r].on
        /\ \/ task'[r].step = "bind" /\ task[r].kind = "link"
           \/ task'[r].step = "read" /\ task'[r].old = c /\ c # None
  /\ UNCHANGED <<codes, lookup, sessions, bound>>
  /\ retired' = retired \cup ({c} \ {None})
  /\ c # None => \E e \in Requests : attempts[e] # None /\ attempts[e].code = c
  /\ \A x \in Requests : x # r => home'[x] = home[x]
  /\ home'[r] = home[r] \/ (task[r].kind \in Issuing /\ home'[r] \in Requests)
  /\ \A a \in Requests : attempts'[a] # None /\ attempts'[a].code # None =>
       \/ task[r].kind \in Issuing /\ attempts'[a].code = r /\ home'[r] = a
       \/ attempts[a] # None /\ attempts'[a].code = attempts[a].code /\ attempts[a].code # c

\* Retire gives Scripted its part about the task.
LEMMA Retires ==
  ASSUME TypeOK, NEW r \in Requests, NEW c \in Id, Retire(r, c)
  PROVE  /\ task' \in [Requests -> Task]
         /\ \A x \in Requests : x # r => task'[x] = task[x]
         /\ task'[r].kind = task[r].kind
         /\ \/ task'[r].step = "done"
            \/ /\ task'[r].owner = task[r].owner /\ task'[r].on = task[r].on
               /\ \/ task'[r].step = "bind" /\ task[r].kind = "link"
                  \/ task'[r].step = "read" /\ task'[r].old = c /\ c # None
<1>1. CASE c = None
  <2>1. Onward(r)
    BY <1>1 DEF Retire
  <2>2. CASE task[r].kind = "link"
    <3>1. Moved(r, "bind")
      BY <2>1, <2>2, GoMoves DEF Onward, Step
    <3>. QED
      BY <2>2, <3>1 DEF Moved
  <2>3. CASE task[r].kind # "link"
    BY <2>1, <2>3, EndMoves DEF Onward, Moved
  <2>. QED
    BY <2>2, <2>3
<1>2. CASE c # None
  <2>. DEFINE u == [task[r] EXCEPT !.old = c, !.step = "read"]
  <2>1. task[r] \in Task /\ "read" \in Step
    BY DEF TypeOK, Step
  <2>2. /\ u \in Task /\ u.kind = task[r].kind /\ u.owner = task[r].owner /\ u.on = task[r].on
        /\ u.step = "read" /\ u.old = c
    BY <2>1 DEF Task
  <2>3. task' = [task EXCEPT ![r] = u]
    BY <1>2 DEF Retire, TypeOK
  <2>. HIDE DEF u
  <2>. QED
    BY <1>2, <2>2, <2>3 DEF TypeOK
<1>. QED
  BY <1>1, <1>2

\* A script step leaves every code in one place.
LEMMA ScriptStep ==
  ASSUME IInv, NEW r \in Requests, NEW c \in Id, Scripted(r, c)
  PROVE  TaskInv' /\ IssuedInv' /\ PlaceInv'
<1>. USE RegistrationAssumption
<1>1. task[r].kind \in Issuing => /\ home[r] = None /\ r \notin retired /\ NoSessionOf(r)
                                  /\ \A s \in Requests : ~Consuming(s, r)
  BY NewCode DEF Scripted
<1>2. \A k \in Requests : Issued(k) => Issued(k)'
  BY DEF Scripted, Issued, Past, Issuing
<1>3. \A k \in Requests : home[k] # None => home'[k] = home[k]
  BY <1>1 DEF Scripted
<1>4. c # None => /\ c \in Requests /\ home[c] # None /\ NoSessionOf(c)
                  /\ \A s \in Requests : ~Consuming(s, c)
  <2>. SUFFICES ASSUME c # None
                PROVE  /\ c \in Requests /\ home[c] # None /\ NoSessionOf(c)
                       /\ \A s \in Requests : ~Consuming(s, c)
    OBVIOUS
  <2>1. PICK e \in Requests : attempts[e] # None /\ attempts[e].code = c
    BY DEF Scripted
  <2>. QED
    BY <2>1 DEF IInv, PlaceInv, ShownInv, Id
<1>5. TaskInv'
  <2>1. ASSUME NEW x \in Requests, x # r PROVE TaskOK(x)'
    <3>1. TaskOK(x) /\ task'[x] = task[x] /\ codes' = codes
      BY <2>1 DEF IInv, TaskInv, Scripted
    <3>2. task[x].step \in {"readCode", "spend", "create"} => Issued(task[x].got)'
      BY <1>2, <3>1 DEF TaskOK, Issued
    <3>. QED
      BY <1>3, <3>1, <3>2 DEF TaskOK
  <2>2. TaskOK(r)'
    <3>1. TaskOK(r)
      BY DEF IInv, TaskInv
    <3>. QED
      BY <1>3, <1>4, <3>1 DEF Scripted, TaskOK, Issuing, Closed
  <2>. QED
    BY <2>1, <2>2 DEF TaskInv
<1>6. IssuedInv'
  <2>1. (\A d \in Digits : lookup[d] # None => Issued(lookup[d]))'
    BY <1>2 DEF IInv, IssuedInv, Scripted, Issued
  <2>2. ASSUME NEW k \in Requests, home'[k] # None PROVE Issued(k)' /\ task'[k].step # "script"
    <3>1. CASE home[k] # None
      BY <1>2, <3>1 DEF IInv, IssuedInv, Scripted
    <3>2. CASE home[k] = None
      <4>1. k = r /\ task[r].kind \in Issuing /\ TaskOK(r)
        BY <2>2, <3>2 DEF Scripted, IInv, TaskInv
      <4>. QED
        BY <4>1 DEF Scripted, Issued, TaskOK, Past
    <3>. QED
      BY <3>1, <3>2
  <2>3. (\A s \in Requests : sessions[s] # None =>
           task[s].kind = "session" /\ task[s].step \in {"bind", "done"})'
    BY DEF IInv, IssuedInv, Scripted
  <2>4. (\A s \in Requests : bound[s] # None =>
           task[s].kind \in {"session", "link"} /\ task[s].step \in {"link", "done"})'
    BY DEF IInv, IssuedInv, Scripted
  <2>. QED
    BY <2>1, <2>2, <2>3, <2>4 DEF IssuedInv
<1>7. \A s \in Requests : \A k : Consuming(s, k)' <=> Consuming(s, k)
  BY DEF Scripted, Consuming, Issuing
<1>8. \A k : NoSessionOf(k)' <=> NoSessionOf(k)
  BY DEF NoSessionOf, Scripted
<1>9. ShownInv'
  <2>1. ASSUME NEW a \in Requests, attempts'[a] # None, attempts'[a].code # None
        PROVE  LET k == attempts'[a].code IN
               /\ home'[k] = a /\ k \notin retired'
               /\ NoSessionOf(k) /\ \A s \in Requests : ~Consuming(s, k)
    <3>1. CASE attempts[a] # None /\ attempts'[a].code = attempts[a].code /\ attempts[a].code # c
      <4>1. attempts[a].code \in Requests
        BY <2>1, <3>1 DEF IInv, TypeOK, Attempt, Id
      <4>. QED
        BY <2>1, <3>1, <4>1, <1>3 DEF IInv, PlaceInv, ShownInv, Scripted
    <3>2. CASE task[r].kind \in Issuing /\ attempts'[a].code = r /\ home'[r] = a
      <4>1. c # r
        BY <1>1, <1>4, <3>2
      <4>. QED
        BY <1>1, <3>2, <4>1 DEF Scripted
    <3>. QED
      BY <2>1, <3>1, <3>2 DEF Scripted
  <2>. QED
    BY <2>1, <1>7, <1>8 DEF ShownInv
<1>10. ConsumedInv'
  <2>1. ASSUME NEW s \in Requests, NEW k \in Id, Consuming(s, k)
        PROVE  /\ k \in Requests /\ task'[s].on \in Requests /\ home'[k] = task'[s].on
               /\ k \notin retired' /\ NoSessionOf(k)
               /\ \A t \in Requests : Consuming(t, k) => t = s
    <3>1. task'[s] = task[s]
      BY <2>1 DEF Consuming, Scripted, Issuing
    <3>. QED
      BY <2>1, <3>1, <1>3, <1>4 DEF IInv, PlaceInv, ConsumedInv, Scripted
  <2>. QED
    BY <2>1, <1>7, <1>8 DEF ConsumedInv
<1>11. RetiredInv'
  BY <1>3, <1>4 DEF IInv, PlaceInv, RetiredInv, Scripted, TypeOK
<1>12. SessionInv' /\ BindingIsOfTheCode'
  <2>1. ASSUME NEW s \in Requests, sessions[s] # None
        PROVE  sessions[s].code \in Requests /\ task'[s] = task[s]
    BY <2>1 DEF IInv, TypeOK, Session, IssuedInv, Scripted, Issuing
  <2>. QED
    BY <2>1, <1>3 DEF IInv, PlaceInv, SessionInv, BindingIsOfTheCode, Scripted
<1>13. CodeEndsOnce'
  BY <1>4 DEF IInv, PlaceInv, CodeEndsOnce, NoSessionOf, Scripted
<1>. QED
  BY <1>5, <1>6, <1>9, <1>10, <1>11, <1>12, <1>13 DEF PlaceInv

\* A closed attempt shows no code.
LEMMA ClosedAttempt ==
  ASSUME NEW v \in Attempt
  PROVE  LET u == [v EXCEPT !.closed = TRUE, !.code = None] IN
         u \in Attempt /\ u.code = None /\ u.closed
BY DEF Attempt, Id

\* Opening an attempt closes the owner's open one and hands out its code.
LEMMA OpenAttemptInv ==
  ASSUME IInv, NEW r \in Requests, OpenAttempt(r)
  PROVE  IInv'
<1>. USE RegistrationAssumption DEF At, codeVars, tokenVars, displayVars, boundVars
<1>. DEFINE o == task[r].owner
            e == open[o]
            there == e # None /\ attempts[e] # None
            c == IF there THEN attempts[e].code ELSE None
            fresh == [owner |-> o, closed |-> FALSE, code |-> r]
<1>0. TypeOK /\ TaskOK(r)
  BY DEF IInv, TaskInv
<1>1. o \in Owners /\ e \in Id /\ c \in Id /\ fresh \in Attempt
  <2>1. o \in Owners
    BY <1>0 DEF OpenAttempt, TaskOK, Issuing, Closed
  <2>2. e \in Id
    BY <1>0, <2>1 DEF TypeOK
  <2>3. c \in Id
    BY <1>0, <2>2 DEF TypeOK, Attempt, Id
  <2>4. fresh \in Attempt
    BY <2>1 DEF Attempt, Id
  <2>. QED
    BY <2>1, <2>2, <2>3, <2>4
<1>2. /\ Retire(r, c)
      /\ attempts' = IF there
                       THEN [attempts EXCEPT ![e] = [attempts[e] EXCEPT !.closed = TRUE, !.code = None],
                                             ![r] = fresh]
                       ELSE [attempts EXCEPT ![r] = fresh]
      /\ open' = [open EXCEPT ![o] = r]
      /\ home' = [home EXCEPT ![r] = r]
      /\ index' = [Unindexed(c) EXCEPT ![task[r].digits] = r]
  BY Zenon DEF OpenAttempt
<1>. HIDE DEF c
<1>3. \A a \in Requests : attempts'[a] =
        IF a = r THEN fresh
        ELSE IF there /\ a = e THEN [attempts[e] EXCEPT !.closed = TRUE, !.code = None]
        ELSE attempts[a]
  BY <1>0, <1>1, <1>2 DEF TypeOK, Id
<1>4. there => /\ [attempts[e] EXCEPT !.closed = TRUE, !.code = None] \in Attempt
               /\ [attempts[e] EXCEPT !.closed = TRUE, !.code = None].code = None
               /\ [attempts[e] EXCEPT !.closed = TRUE, !.code = None].closed
  <2>1. there => attempts[e] \in Attempt
    BY <1>0, <1>1 DEF TypeOK, Id
  <2>. QED
    BY <2>1, <1>1, ClosedAttempt
<1>5. attempts' \in [Requests -> Attempt \cup {None}]
  <2>. DEFINE w == [attempts[e] EXCEPT !.closed = TRUE, !.code = None]
  <2>1. there => w \in Attempt /\ e \in Requests
    BY <1>1, <1>4 DEF Id
  <2>2. attempts' = IF there THEN [attempts EXCEPT ![e] = w, ![r] = fresh]
                             ELSE [attempts EXCEPT ![r] = fresh]
    BY <1>2
  <2>3. fresh \in Attempt
    BY <1>1
  <2>. HIDE DEF w, fresh, e
  <2>4. CASE there
    <3>1. [attempts EXCEPT ![e] = w] \in [Requests -> Attempt \cup {None}]
      BY <1>0, <2>1, <2>4 DEF TypeOK
    <3>. QED
      BY <2>2, <2>3, <2>4, <3>1
  <2>5. CASE ~there
    BY <1>0, <2>2, <2>3, <2>5 DEF TypeOK
  <2>. QED
    BY <2>4, <2>5
<1>6. index' \in [Digits -> Id]
  BY <1>0, <1>2 DEF TypeOK, Unindexed, Id
<1>7. TypeOK'
  <2>1. task' \in [Requests -> Task] /\ retired' = retired \cup ({c} \ {None})
    BY <1>0, <1>1, <1>2, Retires DEF Retire
  <2>. QED
    <3>1. open' \in [Owners -> Id] /\ home' \in [Requests -> Id]
      BY <1>0, <1>1, <1>2 DEF TypeOK, Id
    <3>2. retired' \subseteq Requests
      BY <1>0, <1>1, <2>1 DEF TypeOK, Id
    <3>3. UNCHANGED <<codes, lookup, expired, sessions, bound, links, displays, notices, lapses, failures>>
      BY DEF OpenAttempt
    <3>. QED
      BY <1>0, <1>5, <1>6, <2>1, <3>1, <3>2, <3>3 DEF TypeOK
<1>8. Scripted(r, c)
  <2>1. c # None => e \in Requests /\ attempts[e] # None /\ attempts[e].code = c
    BY <1>1 DEF c, Id
  <2>2. \A a \in Requests : attempts'[a] # None /\ attempts'[a].code # None =>
          \/ attempts'[a].code = r /\ home'[r] = a
          \/ attempts[a] # None /\ attempts'[a].code = attempts[a].code /\ attempts[a].code # c
    <3>1. ASSUME NEW a \in Requests, a # r, attempts'[a] # None, attempts'[a].code # None
          PROVE  attempts[a] # None /\ attempts'[a].code = attempts[a].code /\ attempts[a].code # c
      <4>1. attempts'[a] = attempts[a] /\ ~(there /\ a = e)
        BY <1>3, <1>4, <3>1
      <4>2. attempts[a].code = c => home[c] = a
        BY <3>1, <4>1 DEF IInv, PlaceInv, ShownInv
      <4>3. c # None => home[c] = e /\ there
        BY <2>1 DEF IInv, PlaceInv, ShownInv
      <4>. QED
        BY <3>1, <4>1, <4>2, <4>3
    <3>2. attempts'[r].code = r /\ home'[r] = r
      BY <1>0, <1>2, <1>3 DEF TypeOK
    <3>. QED
      BY <3>1, <3>2
  <2>3. /\ task' \in [Requests -> Task]
        /\ \A x \in Requests : x # r => task'[x] = task[x]
        /\ task'[r].kind = task[r].kind
        /\ \/ task'[r].step = "done"
           \/ /\ task'[r].owner = task[r].owner /\ task'[r].on = task[r].on
              /\ \/ task'[r].step = "bind" /\ task[r].kind = "link"
                 \/ task'[r].step = "read" /\ task'[r].old = c /\ c # None
    BY <1>0, <1>1, <1>2, Retires
  <2>4. retired' = retired \cup ({c} \ {None}) /\ home'[r] = r
        /\ \A x \in Requests : x # r => home'[x] = home[x]
    BY <1>0, <1>2 DEF TypeOK, Retire
  <2>. QED
    BY <2>1, <2>2, <2>3, <2>4, Zenon DEF OpenAttempt, Scripted, Issuing
<1>9. OneOpenAttempt'
  <2>1. ASSUME NEW a \in Requests, attempts'[a] # None, ~attempts'[a].closed
        PROVE  open'[attempts'[a].owner] = a
    <3>1. CASE a = r
      BY <1>0, <1>1, <1>2, <1>3, <3>1 DEF TypeOK
    <3>2. CASE a # r
      <4>1. attempts'[a] = attempts[a] /\ ~(there /\ a = e)
        BY <1>3, <1>4, <2>1, <3>2
      <4>2. open[attempts[a].owner] = a /\ attempts[a].owner \in Owners
        BY <1>0, <2>1, <4>1 DEF IInv, OneOpenAttempt, TypeOK, Attempt
      <4>3. attempts[a].owner # o
        BY <2>1, <4>1, <4>2
      <4>. QED
        BY <1>0, <1>2, <4>1, <4>2, <4>3 DEF TypeOK
    <3>. QED
      BY <3>1, <3>2
  <2>. QED
    BY <2>1 DEF OneOpenAttempt
<1>. QED
  BY <1>1, <1>7, <1>8, <1>9, ScriptStep DEF IInv

\* A rotation hands out the code it replaces.
LEMMA RotateCodeInv ==
  ASSUME IInv, NEW r \in Requests, RotateCode(r)
  PROVE  IInv'
<1>. USE RegistrationAssumption DEF At, codeVars, tokenVars, displayVars, boundVars
<1>. DEFINE a == task[r].on
            c == attempts[a].code
<1>0. TypeOK /\ TaskOK(r)
  BY DEF IInv, TaskInv
<1>1. /\ a \in Requests /\ task[r].owner \in Owners /\ attempts[a] \in Attempt /\ c \in Id
      /\ attempts[a].owner = task[r].owner /\ ~attempts[a].closed /\ attempts[a] # None
      /\ open[task[r].owner] = a
  <2>1. a \in Requests /\ task[r].owner \in Owners
    BY <1>0 DEF RotateCode, TaskOK, Issuing, Closed
  <2>2. /\ attempts[a] \in Attempt /\ attempts[a] # None
        /\ attempts[a].owner = task[r].owner /\ ~attempts[a].closed
    BY <1>0, <2>1 DEF RotateCode, Rotatable, TypeOK
  <2>. QED
    BY <2>1, <2>2 DEF Attempt, IInv, OneOpenAttempt
<1>2. /\ Retire(r, c)
      /\ attempts' = [attempts EXCEPT ![a] = [attempts[a] EXCEPT !.code = r]]
      /\ open' = [open EXCEPT ![task[r].owner] = a]
      /\ home' = [home EXCEPT ![r] = a]
      /\ index' = [Unindexed(c) EXCEPT ![task[r].digits] = a]
  BY <1>0, <1>1 DEF RotateCode, TypeOK
<1>. DEFINE v == [attempts[a] EXCEPT !.code = r]
<1>3. v \in Attempt /\ v.code = r /\ v.owner = attempts[a].owner
  BY <1>1 DEF Attempt, Id
<1>4. /\ attempts' \in [Requests -> Attempt \cup {None}]
      /\ \A x \in Requests : attempts'[x] = IF x = a THEN v ELSE attempts[x]
  <2>. HIDE DEF v
  <2>1. attempts' = [attempts EXCEPT ![a] = v]
    BY <1>2 DEF v
  <2>. QED
    BY <1>0, <1>1, <1>3, <2>1 DEF TypeOK
<1>. HIDE DEF v, c, a
<1>5. index' \in [Digits -> Id]
  BY <1>0, <1>1, <1>2 DEF TypeOK, Unindexed, Id
<1>6. open' = open /\ TypeOK'
  <2>1. task' \in [Requests -> Task] /\ retired' = retired \cup ({c} \ {None})
    BY <1>0, <1>1, <1>2, Retires DEF Retire
  <2>2. open' = open
    BY <1>0, <1>1, <1>2 DEF TypeOK
  <2>. QED
    BY <1>0, <1>1, <1>2, <1>4, <1>5, <2>1, <2>2 DEF RotateCode, TypeOK, Id
<1>7. Scripted(r, c)
  <2>1. c # None => attempts[a] # None /\ attempts[a].code = c /\ home[c] = a
    BY <1>1 DEF c, IInv, PlaceInv, ShownInv
  <2>2. /\ home'[r] = a /\ \A x \in Requests : x # r => home'[x] = home[x]
        /\ retired' = retired \cup ({c} \ {None})
    BY <1>0, <1>2 DEF TypeOK, Retire
  <2>3. \A x \in Requests : attempts'[x] # None /\ attempts'[x].code # None =>
          \/ attempts'[x].code = r /\ home'[r] = x
          \/ attempts[x] # None /\ attempts'[x].code = attempts[x].code /\ attempts[x].code # c
    <3>1. ASSUME NEW x \in Requests, x # a, attempts[x] # None, attempts[x].code # None
          PROVE  attempts[x].code # c
      BY <2>1, <3>1 DEF IInv, PlaceInv, ShownInv
    <3>. QED
      BY <1>3, <1>4, <2>2, <3>1
  <2>4. /\ task' \in [Requests -> Task]
        /\ \A x \in Requests : x # r => task'[x] = task[x]
        /\ task'[r].kind = task[r].kind
        /\ \/ task'[r].step = "done"
           \/ /\ task'[r].owner = task[r].owner /\ task'[r].on = task[r].on
              /\ \/ task'[r].step = "bind" /\ task[r].kind = "link"
                 \/ task'[r].step = "read" /\ task'[r].old = c /\ c # None
    BY <1>0, <1>1, <1>2, Retires
  <2>. QED
    BY <1>1, <2>1, <2>2, <2>3, <2>4 DEF RotateCode, Scripted, Issuing
<1>8. OneOpenAttempt'
  BY <1>1, <1>3, <1>4, <1>6 DEF IInv, OneOpenAttempt
<1>. QED
  BY <1>1, <1>6, <1>7, <1>8, ScriptStep DEF IInv

\* A close hands out the code of the attempt it closes.
LEMMA CloseScriptInv ==
  ASSUME IInv, NEW r \in Requests, CloseScript(r), Rotatable(task[r].on, task[r].owner)
  PROVE  IInv'
<1>. USE RegistrationAssumption DEF At, codeVars, tokenVars, displayVars, boundVars
<1>. DEFINE a == task[r].on
            c == attempts[a].code
<1>0. TypeOK /\ TaskOK(r)
  BY DEF IInv, TaskInv
<1>1. /\ a \in Requests /\ task[r].owner \in Owners /\ attempts[a] \in Attempt /\ c \in Id
      /\ attempts[a].owner = task[r].owner /\ attempts[a] # None
      /\ open[task[r].owner] = a
  <2>1. a \in Requests /\ task[r].owner \in Owners
    BY <1>0 DEF CloseScript, TaskOK, Issuing, Closed
  <2>2. /\ attempts[a] \in Attempt /\ attempts[a] # None
        /\ attempts[a].owner = task[r].owner /\ ~attempts[a].closed
    BY <1>0, <2>1 DEF Rotatable, TypeOK
  <2>. QED
    BY <2>1, <2>2 DEF Attempt, IInv, OneOpenAttempt
<1>2. /\ Retire(r, c)
      /\ attempts' = [attempts EXCEPT ![a] = [attempts[a] EXCEPT !.closed = TRUE, !.code = None]]
      /\ open' = [open EXCEPT ![task[r].owner] = None]
      /\ index' = Unindexed(c)
  BY <1>0, <1>1 DEF CloseScript, TypeOK
<1>. DEFINE v == [attempts[a] EXCEPT !.closed = TRUE, !.code = None]
<1>3. v \in Attempt /\ v.code = None /\ v.closed
  BY <1>1, ClosedAttempt
<1>4. /\ attempts' \in [Requests -> Attempt \cup {None}]
      /\ \A x \in Requests : attempts'[x] = IF x = a THEN v ELSE attempts[x]
  <2>. HIDE DEF v
  <2>1. attempts' = [attempts EXCEPT ![a] = v]
    BY <1>2 DEF v
  <2>. QED
    BY <1>0, <1>1, <1>3, <2>1 DEF TypeOK
<1>. HIDE DEF v, c, a
<1>5. index' \in [Digits -> Id]
  BY <1>0, <1>1, <1>2 DEF TypeOK, Unindexed, Id
<1>6. TypeOK'
  <2>1. task' \in [Requests -> Task] /\ retired' = retired \cup ({c} \ {None})
    BY <1>0, <1>1, <1>2, Retires DEF Retire
  <2>. QED
    BY <1>0, <1>1, <1>2, <1>4, <1>5, <2>1 DEF CloseScript, TypeOK, Id
<1>7. Scripted(r, c)
  <2>1. c # None => attempts[a] # None /\ attempts[a].code = c /\ home[c] = a
    BY <1>1 DEF c, IInv, PlaceInv, ShownInv
  <2>2. home' = home /\ retired' = retired \cup ({c} \ {None})
    BY <1>2 DEF CloseScript, Retire
  <2>3. \A x \in Requests : attempts'[x] # None /\ attempts'[x].code # None =>
          attempts[x] # None /\ attempts'[x].code = attempts[x].code /\ attempts[x].code # c
    <3>1. ASSUME NEW x \in Requests, x # a, attempts[x] # None, attempts[x].code # None
          PROVE  attempts[x].code # c
      BY <2>1, <3>1 DEF IInv, PlaceInv, ShownInv
    <3>. QED
      BY <1>3, <1>4, <3>1
  <2>4. /\ task' \in [Requests -> Task]
        /\ \A x \in Requests : x # r => task'[x] = task[x]
        /\ task'[r].kind = task[r].kind
        /\ \/ task'[r].step = "done"
           \/ /\ task'[r].owner = task[r].owner /\ task'[r].on = task[r].on
              /\ \/ task'[r].step = "bind" /\ task[r].kind = "link"
                 \/ task'[r].step = "read" /\ task'[r].old = c /\ c # None
    BY <1>0, <1>1, <1>2, Retires
  <2>. QED
    BY <1>1, <2>1, <2>2, <2>3, <2>4 DEF CloseScript, Scripted
<1>8. OneOpenAttempt'
  <2>1. ASSUME NEW x \in Requests, attempts'[x] # None, ~attempts'[x].closed
        PROVE  open'[attempts'[x].owner] = x
    <3>1. x # a /\ attempts'[x] = attempts[x]
      BY <1>3, <1>4, <2>1
    <3>2. open[attempts[x].owner] = x /\ attempts[x].owner \in Owners
      BY <1>0, <2>1, <3>1 DEF IInv, OneOpenAttempt, TypeOK, Attempt
    <3>. QED
      BY <1>0, <1>1, <1>2, <3>1, <3>2 DEF TypeOK
  <2>. QED
    BY <2>1 DEF OneOpenAttempt
<1>. QED
  BY <1>1, <1>6, <1>7, <1>8, ScriptStep DEF IInv

\* A close that comes too late ends its request.
LEMMA CloseRefusedInv ==
  ASSUME IInv, NEW r \in Requests, CloseScript(r), ~Rotatable(task[r].on, task[r].owner)
  PROVE  IInv'
<1>. USE RegistrationAssumption DEF At, codeVars, tokenVars, displayVars, boundVars
<1>0. TypeOK
  BY DEF IInv
<1>1. Moved(r, "done")
  BY <1>0, EndMoves DEF CloseScript
<1>2. UNCHANGED <<codeVars, attemptVars, tokenVars, displayVars, boundVars>>
  BY DEF CloseScript, attemptVars
<1>3. TypeOK'
  BY <1>0, <1>1, <1>2 DEF TypeOK, Moved, attemptVars
<1>4. Shrinks
  BY <1>2 DEF Shrinks, attemptVars
<1>5. Onwards(r)
  BY <1>1 DEF CloseScript, Onwards, Moved, Taking, Past, Issuing
<1>6. TaskOK(r)'
  BY <1>1 DEF Moved, TaskOK, Closed
<1>. QED
  BY <1>3, <1>4, <1>5, <1>6, QuietStep DEF IInv

-----------------------------------------------------------------------------
(* The steps of a device that take a code on its way to a session *)

\* The code leaves its attempt for the hands of the request that typed it.
LEMMA ConsumeIndexInv ==
  ASSUME IInv, NEW r \in Requests, ConsumeIndex(r)
  PROVE  IInv'
<1>. USE RegistrationAssumption DEF At, codeVars, tokenVars, displayVars, boundVars
<1>. DEFINE d == task[r].digits
            a == index[d]
            c == IF a = None \/ attempts[a] = None \/ attempts[a].closed THEN None ELSE attempts[a].code
            shown == c # None /\ codes[c].digits = d
            v == [attempts[a] EXCEPT !.code = None]
            u == [task[r] EXCEPT !.on = a, !.old = c, !.step = "getdel"]
<1>0. TypeOK /\ TaskOK(r)
  BY DEF IInv, TaskInv
<1>1. d \in Digits /\ a \in Id
  BY <1>0, Zenon DEF ConsumeIndex, TaskOK, Closed, TypeOK
<1>2. c # None => /\ a \in Requests /\ attempts[a] \in Attempt /\ attempts[a] # None
                  /\ c = attempts[a].code /\ c \in Requests
                  /\ home[c] = a /\ c \notin retired /\ NoSessionOf(c)
                  /\ \A s \in Requests : ~Consuming(s, c)
  <2>. SUFFICES ASSUME c # None
                PROVE  /\ a \in Requests /\ attempts[a] \in Attempt /\ attempts[a] # None
                       /\ c = attempts[a].code /\ c \in Requests
                       /\ home[c] = a /\ c \notin retired /\ NoSessionOf(c)
                       /\ \A s \in Requests : ~Consuming(s, c)
    OBVIOUS
  <2>1. a \in Requests /\ attempts[a] \in Attempt /\ attempts[a] # None /\ c = attempts[a].code
    BY <1>0, <1>1 DEF TypeOK, Id
  <2>2. c \in Requests
    BY <2>1 DEF Attempt, Id
  <2>. HIDE DEF c, a
  <2>. QED
    BY <2>1, <2>2 DEF IInv, PlaceInv, ShownInv
<1>3. c # None => /\ v \in Attempt /\ v.code = None
                  /\ v.owner = attempts[a].owner /\ v.closed = attempts[a].closed
  <2>. HIDE DEF c, a
  <2>. QED
    BY <1>2 DEF Attempt, Id
<1>4. c # None => /\ u \in Task /\ u.step = "getdel" /\ u.kind = task[r].kind
                  /\ u.on = a /\ u.old = c /\ u.digits = d
  <2>1. task[r] \in Task /\ "getdel" \in Step
    BY <1>0 DEF TypeOK, Step
  <2>. HIDE DEF c, a
  <2>2. c # None => c \in Id
    BY <1>2 DEF Id
  <2>. QED
    BY <1>1, <2>1, <2>2, Zenon DEF Task
<1>5. /\ index' \in [Digits -> Id]
      /\ UNCHANGED <<codes, lookup, expired, open, home, retired, sessions, bound, links>>
      /\ UNCHANGED <<displays, notices, lapses, failures>>
  BY <1>0, <1>1, Zenon DEF ConsumeIndex, TypeOK, Id
<1>6. attempts' = IF shown THEN [attempts EXCEPT ![a] = v] ELSE attempts
  BY <1>0, Zenon DEF ConsumeIndex, TypeOK
<1>7. \/ task' = [task EXCEPT ![r] = u] /\ shown
      \/ Moved(r, "done")
  BY <1>0, EndMoves, Zenon DEF ConsumeIndex, TypeOK
<1>. HIDE DEF u, v, c, a
<1>8. /\ attempts' \in [Requests -> Attempt \cup {None}]
      /\ \A x \in Requests : attempts'[x] = IF shown /\ x = a THEN v ELSE attempts[x]
  BY <1>0, <1>2, <1>3, <1>6 DEF TypeOK
<1>9. /\ task' \in [Requests -> Task] /\ task'[r].kind = "session"
      /\ \A x \in Requests : x # r => task'[x] = task[x]
      /\ task'[r].step = "done" \/ (task'[r] = u /\ shown)
  <2>1. task[r].kind = "session"
    BY Zenon DEF ConsumeIndex
  <2>2. CASE task' = [task EXCEPT ![r] = u] /\ shown
    <3>1. u \in Task /\ u.kind = task[r].kind
      BY <1>4, <2>2
    <3>. QED
      BY <1>0, <2>1, <2>2, <3>1 DEF TypeOK
  <2>3. CASE Moved(r, "done")
    BY <2>1, <2>3 DEF Moved
  <2>. QED
    BY <1>7, <2>2, <2>3
<1>10. TypeOK'
  BY <1>0, <1>5, <1>8, <1>9 DEF TypeOK
<1>11. task[r].kind = "session" /\ task[r].step = "consume"
  BY Zenon DEF ConsumeIndex
<1>12. \A k : Issued(k) => Issued(k)'
  BY <1>5, <1>9, <1>11 DEF Issued, Issuing
<1>13. TaskInv'
  <2>1. ASSUME NEW x \in Requests, x # r PROVE TaskOK(x)'
    <3>1. TaskOK(x) /\ task'[x] = task[x]
      BY <1>9, <2>1 DEF IInv, TaskInv
    <3>2. task[x].step \in {"readCode", "spend", "create"} => Issued(task[x].got)'
      BY <1>12, <3>1 DEF TaskOK, Issued
    <3>. QED
      BY <1>5, <3>1, <3>2 DEF TaskOK
  <2>2. TaskOK(r)'
    BY <1>1, <1>4, <1>9 DEF TaskOK, Issuing, Closed
  <2>. QED
    BY <2>1, <2>2 DEF TaskInv
<1>14. IssuedInv'
  BY <1>5, <1>9, <1>11, <1>12 DEF IInv, IssuedInv, Issued, Issuing
<1>15. \A k : NoSessionOf(k)' <=> NoSessionOf(k)
  BY <1>5 DEF NoSessionOf
<1>16. ~Consuming(r, c) /\ \A k : ~Consuming(r, k)
  BY <1>11 DEF Consuming
<1>17. \A s \in Requests : \A k : s # r => (Consuming(s, k)' <=> Consuming(s, k))
  BY <1>9 DEF Consuming
<1>18. \A k : Consuming(r, k)' => shown /\ k = c /\ task'[r].on = a
  BY <1>4, <1>9 DEF Consuming
<1>19. ShownInv'
  <2>1. ASSUME NEW x \in Requests, attempts'[x] # None, attempts'[x].code # None
        PROVE  attempts'[x] = attempts[x] /\ (shown => attempts[x].code # c)
    <3>1. attempts'[x] = attempts[x] /\ (shown => x # a)
      BY <1>3, <1>8, <2>1
    <3>. QED
      BY <1>2, <2>1, <3>1 DEF IInv, PlaceInv, ShownInv
  <2>. QED
    BY <2>1, <1>5, <1>15, <1>17, <1>18 DEF IInv, PlaceInv, ShownInv
<1>20. ConsumedInv'
  <2>1. ASSUME NEW s \in Requests, NEW k \in Id, Consuming(s, k)'
        PROVE  /\ k \in Requests /\ task'[s].on \in Requests /\ home'[k] = task'[s].on
               /\ k \notin retired' /\ NoSessionOf(k)
               /\ \A t \in Requests : Consuming(t, k)' => t = s
    <3>1. CASE s = r
      BY <1>2, <1>5, <1>17, <1>18, <2>1, <3>1
    <3>2. CASE s # r
      <4>1. Consuming(s, k) /\ task'[s] = task[s]
        BY <1>9, <1>17, <2>1, <3>2
      <4>. QED
        BY <1>2, <1>5, <1>17, <1>18, <3>2, <4>1 DEF IInv, PlaceInv, ConsumedInv
    <3>. QED
      BY <3>1, <3>2
  <2>. QED
    BY <2>1, <1>15 DEF ConsumedInv
<1>21. RetiredInv' /\ CodeEndsOnce' /\ BindingIsOfTheCode'
  BY <1>5 DEF IInv, PlaceInv, RetiredInv, CodeEndsOnce, BindingIsOfTheCode
<1>22. SessionInv'
  <2>1. \A s \in Requests : sessions[s] # None => s # r
    BY <1>11 DEF IInv, IssuedInv
  <2>. QED
    BY <2>1, <1>5, <1>9 DEF IInv, PlaceInv, SessionInv
<1>23. OneOpenAttempt'
  BY <1>2, <1>3, <1>5, <1>8 DEF IInv, OneOpenAttempt
<1>. QED
  BY <1>10, <1>13, <1>14, <1>19, <1>20, <1>21, <1>22, <1>23, Zenon DEF IInv, PlaceInv

\* The code goes from the hands of the request into its session.
LEMMA WriteSessionInv ==
  ASSUME IInv, NEW r \in Requests, WriteSession(r)
  PROVE  IInv'
<1>. USE RegistrationAssumption DEF At, codeVars, attemptVars, displayVars, boundVars
<1>0. TypeOK /\ TaskOK(r)
  BY DEF IInv, TaskInv
<1>1. Moved(r, "bind") /\ task[r].kind = "session" /\ task[r].step = "create"
  BY <1>0, GoMoves DEF WriteSession, Step
<1>2. PICK c \in Requests : c = task[r].got /\ c = task[r].old /\ Consuming(r, c)
  BY <1>0, <1>1 DEF TaskOK, Issued, Consuming
<1>. DEFINE v == [code |-> c, state |-> "open"]
<1>3. v \in Session /\ v.code = c
  BY DEF Session
<1>4. sessions' = [sessions EXCEPT ![r] = v]
  BY <1>2 DEF WriteSession
<1>. HIDE DEF v
<1>5. /\ sessions' \in [Requests -> Session \cup {None}] /\ sessions'[r] = v
      /\ \A s \in Requests : s # r => sessions'[s] = sessions[s]
  BY <1>0, <1>3, <1>4 DEF TypeOK
<1>6. /\ UNCHANGED <<codes, lookup, expired, attempts, index, open, home, retired, bound>>
      /\ UNCHANGED <<links, displays, notices, lapses, failures>>
  BY DEF WriteSession
<1>7. TypeOK'
  BY <1>0, <1>1, <1>5, <1>6 DEF TypeOK, Moved
<1>8. /\ home[c] = task[r].on /\ home[c] # None /\ c \notin retired /\ NoSessionOf(c)
      /\ \A t \in Requests : Consuming(t, c) => t = r
  BY <1>2 DEF IInv, PlaceInv, ConsumedInv, Id
<1>9. \A k : Issued(k) => Issued(k)'
  BY <1>1, <1>6 DEF Issued, Issuing, Moved
<1>10. TaskInv'
  <2>1. ASSUME NEW x \in Requests, x # r PROVE TaskOK(x)'
    <3>1. TaskOK(x) /\ task'[x] = task[x]
      BY <1>1, <2>1 DEF IInv, TaskInv, Moved
    <3>2. task[x].step \in {"readCode", "spend", "create"} => Issued(task[x].got)'
      BY <1>9, <3>1 DEF TaskOK, Issued
    <3>. QED
      BY <1>6, <3>1, <3>2 DEF TaskOK
  <2>2. TaskOK(r)'
    BY <1>0, <1>1 DEF TaskOK, Issuing, Closed, Moved
  <2>. QED
    BY <2>1, <2>2 DEF TaskInv
<1>11. IssuedInv'
  <2>1. (\A d \in Digits : lookup[d] # None => Issued(lookup[d]))'
    BY <1>6, <1>9 DEF IInv, IssuedInv, Issued
  <2>2. (\A k \in Requests : home[k] # None => Issued(k) /\ task[k].step # "script")'
    BY <1>1, <1>6, <1>9 DEF IInv, IssuedInv, Moved
  <2>3. (\A s \in Requests : sessions[s] # None =>
           task[s].kind = "session" /\ task[s].step \in {"bind", "done"})'
    BY <1>1, <1>5 DEF IInv, IssuedInv, Moved
  <2>4. (\A s \in Requests : bound[s] # None =>
           task[s].kind \in {"session", "link"} /\ task[s].step \in {"link", "done"})'
    BY <1>1, <1>6 DEF IInv, IssuedInv, Moved
  <2>. QED
    BY <2>1, <2>2, <2>3, <2>4 DEF IssuedInv
<1>12. \A s \in Requests : \A k : Consuming(s, k)' => Consuming(s, k) /\ s # r /\ task'[s] = task[s]
  BY <1>1 DEF Consuming, Moved
<1>13. \A k : k # c /\ NoSessionOf(k) => NoSessionOf(k)'
  BY <1>3, <1>5 DEF NoSessionOf
<1>14. ShownInv'
  BY <1>2, <1>6, <1>12, <1>13 DEF IInv, PlaceInv, ShownInv
<1>15. ConsumedInv'
  <2>1. ASSUME NEW s \in Requests, NEW k \in Id, Consuming(s, k)'
        PROVE  Consuming(s, k) /\ k # c /\ task'[s] = task[s]
    BY <1>8, <1>12, <2>1
  <2>. QED
    BY <2>1, <1>6, <1>12, <1>13 DEF IInv, PlaceInv, ConsumedInv
<1>16. RetiredInv'
  BY <1>6 DEF IInv, PlaceInv, RetiredInv
<1>17. SessionInv'
  BY <1>1, <1>3, <1>5, <1>6, <1>8 DEF IInv, PlaceInv, SessionInv, Moved
<1>18. CodeEndsOnce'
  BY <1>3, <1>5, <1>6, <1>8 DEF IInv, PlaceInv, CodeEndsOnce, NoSessionOf
<1>19. BindingIsOfTheCode'
  <2>1. bound[r] = None
    BY <1>1 DEF IInv, IssuedInv
  <2>. QED
    BY <2>1, <1>5, <1>6 DEF IInv, PlaceInv, BindingIsOfTheCode
<1>20. OneOpenAttempt'
  BY <1>6 DEF IInv, OneOpenAttempt
<1>. QED
  BY <1>7, <1>10, <1>11, <1>14, <1>15, <1>16, <1>17, <1>18, <1>19, <1>20 DEF IInv, PlaceInv

\* A session is bound to the attempt of its code, a link to its own.
LEMMA BindInv ==
  ASSUME IInv, NEW r \in Requests, Bind(r)
  PROVE  IInv'
<1>. USE RegistrationAssumption DEF At, codeVars, attemptVars, displayVars, boundVars
<1>0. TypeOK /\ TaskOK(r)
  BY DEF IInv, TaskInv
<1>1. /\ task[r].kind \in {"session", "link"} /\ task[r].step = "bind"
      /\ \/ Moved(r, "done") /\ task[r].kind = "session" /\ bound' = [bound EXCEPT ![r] = task[r].on]
         \/ Moved(r, "link") /\ task[r].kind = "link" /\ bound' = [bound EXCEPT ![r] = r]
  BY <1>0, GoMoves, EndMoves DEF Bind, Step
<1>2. /\ task' \in [Requests -> Task] /\ task'[r].kind = task[r].kind
      /\ \A x \in Requests : x # r => task'[x] = task[x]
      /\ task'[r].step \in {"link", "done"}
      /\ task'[r].step = "link" => task[r].kind = "link" /\ task'[r].owner = task[r].owner
  BY <1>1 DEF Moved
<1>3. /\ UNCHANGED <<codes, lookup, expired, attempts, index, open, home, retired, sessions>>
      /\ UNCHANGED <<links, displays, notices, lapses, failures>>
  BY DEF Bind
<1>4. task[r].on \in Id
  BY <1>0 DEF TypeOK, Task
<1>5. TypeOK'
  BY <1>0, <1>1, <1>2, <1>3, <1>4 DEF TypeOK, Id
<1>6. \A k : Issued(k) => Issued(k)'
  BY <1>1, <1>2, <1>3 DEF Issued, Issuing, Past
<1>7. TaskInv'
  <2>1. ASSUME NEW x \in Requests, x # r PROVE TaskOK(x)'
    <3>1. TaskOK(x) /\ task'[x] = task[x]
      BY <1>2, <2>1 DEF IInv, TaskInv
    <3>2. task[x].step \in {"readCode", "spend", "create"} => Issued(task[x].got)'
      BY <1>6, <3>1 DEF TaskOK, Issued
    <3>. QED
      BY <1>3, <3>1, <3>2 DEF TaskOK
  <2>2. TaskOK(r)'
    BY <1>0, <1>1, <1>2 DEF TaskOK, Issuing, Closed
  <2>. QED
    BY <2>1, <2>2 DEF TaskInv
<1>8. IssuedInv'
  <2>1. (\A d \in Digits : lookup[d] # None => Issued(lookup[d]))'
    BY <1>3, <1>6 DEF IInv, IssuedInv, Issued
  <2>2. (\A k \in Requests : home[k] # None => Issued(k) /\ task[k].step # "script")'
    BY <1>2, <1>3, <1>6 DEF IInv, IssuedInv
  <2>3. (\A s \in Requests : sessions[s] # None =>
           task[s].kind = "session" /\ task[s].step \in {"bind", "done"})'
    BY <1>2, <1>3 DEF IInv, IssuedInv
  <2>4. (\A s \in Requests : bound[s] # None =>
           task[s].kind \in {"session", "link"} /\ task[s].step \in {"link", "done"})'
    BY <1>0, <1>1, <1>2 DEF IInv, IssuedInv, TypeOK
  <2>. QED
    BY <2>1, <2>2, <2>3, <2>4 DEF IssuedInv
<1>9. \A s \in Requests : \A k : Consuming(s, k)' <=> Consuming(s, k)
  BY <1>1, <1>2 DEF Consuming
<1>10. \A k : NoSessionOf(k)' <=> NoSessionOf(k)
  BY <1>3 DEF NoSessionOf
<1>11. ShownInv'
  BY <1>3, <1>9, <1>10 DEF IInv, PlaceInv, ShownInv
<1>12. ConsumedInv'
  <2>1. \A s \in Requests : \A k : Consuming(s, k) => task'[s] = task[s]
    BY <1>1, <1>2 DEF Consuming
  <2>. QED
    BY <2>1, <1>3, <1>9, <1>10 DEF IInv, PlaceInv, ConsumedInv
<1>13. RetiredInv' /\ CodeEndsOnce' /\ OneOpenAttempt'
  BY <1>3 DEF IInv, PlaceInv, RetiredInv, CodeEndsOnce, OneOpenAttempt
<1>14. SessionInv'
  BY <1>2, <1>3 DEF IInv, PlaceInv, SessionInv
<1>15. BindingIsOfTheCode'
  <2>1. sessions[r] # None => task[r].kind = "session" /\ home[sessions[r].code] = task[r].on
    BY <1>1 DEF IInv, IssuedInv, PlaceInv, SessionInv
  <2>2. sessions[r] # None => bound'[r] = task[r].on
    BY <2>1, <1>0, <1>1 DEF TypeOK
  <2>3. \A s \in Requests : s # r => bound'[s] = bound[s]
    BY <1>0, <1>1 DEF TypeOK
  <2>. QED
    BY <2>1, <2>2, <2>3, <1>3 DEF IInv, PlaceInv, BindingIsOfTheCode
<1>. QED
  BY <1>5, <1>7, <1>8, <1>11, <1>12, <1>13, <1>14, <1>15 DEF IInv, PlaceInv

-----------------------------------------------------------------------------
(* The theorems *)

\* The invariant holds at the start.
LEMMA InitInv == Init => IInv
<1>. SUFFICES ASSUME Init PROVE IInv
  OBVIOUS
<1>. USE RegistrationAssumption DEF Init
<1>1. TypeOK
  BY IdleType DEF TypeOK, Id
<1>2. TaskInv /\ IssuedInv
  BY DEF TaskInv, TaskOK, IssuedInv, Idle, Issuing, Closed
<1>3. PlaceInv /\ OneOpenAttempt
  BY DEF PlaceInv, ShownInv, ConsumedInv, Consuming, RetiredInv, SessionInv, CodeEndsOnce,
         BindingIsOfTheCode, OneOpenAttempt, Idle
<1>. QED
  BY <1>1, <1>2, <1>3 DEF IInv

\* Every step keeps it.
LEMMA NextInv == IInv /\ [Next]_vars => IInv'
<1>. SUFFICES ASSUME IInv, [Next]_vars PROVE IInv'
  OBVIOUS
<1>1. ASSUME NEW r \in Requests, QuietAction(r) PROVE IInv'
  BY <1>1, QuietSteps, QuietStep DEF IInv
<1>2. ASSUME NEW r \in Requests, CloseScript(r) PROVE IInv'
  BY <1>2, CloseScriptInv, CloseRefusedInv
<1>3. ASSUME NEW r \in Requests, CodeStep(r) PROVE IInv'
  BY <1>1, <1>3, DrawCodeInv, DropCodeInv DEF CodeStep, QuietAction
<1>4. ASSUME NEW r \in Requests, AttemptStep(r) PROVE IInv'
  BY <1>1, <1>2, <1>4, OpenAttemptInv, RotateCodeInv DEF AttemptStep, QuietAction
<1>5. ASSUME NEW r \in Requests, TokenStep(r) PROVE IInv'
  BY <1>1, <1>5, ConsumeIndexInv, TakeLookupInv, WriteSessionInv, BindInv DEF TokenStep, QuietAction
<1>6. ASSUME NEW r \in Requests, DisplayStep(r) PROVE IInv'
  BY <1>1, <1>6, ConsumeLinkInv DEF DisplayStep, QuietAction
<1>7. CASE UNCHANGED vars
  <2>1. TypeOK'
    BY <1>7 DEF IInv, TypeOK, vars, codeVars, attemptVars, tokenVars, displayVars, boundVars
  <2>2. Shrinks /\ task' = task
    BY <1>7 DEF Shrinks, vars, codeVars, attemptVars, tokenVars, displayVars, boundVars
  <2>. QED
    BY <2>1, <2>2, QuietTime DEF IInv
<1>. QED
  BY <1>3, <1>4, <1>5, <1>6, <1>7, RequestInv, ExpiryInv DEF Next

\* The types hold in every reachable state, whatever the requests, the digits
\* drawn and the expiries.
THEOREM RegistrationTypes == Spec => []TypeOK
<1>1. IInv => TypeOK
  BY DEF IInv
<1>. QED
  BY <1>1, InitInv, NextInv, PTL DEF Spec

\* However many requests of an owner are in progress, at most one of the owner's
\* attempts is open, and the owner's key leads to it.
THEOREM RegistrationOneOpenAttempt == Spec => []OneOpenAttempt
<1>1. IInv => OneOpenAttempt
  BY DEF IInv
<1>. QED
  BY <1>1, InitInv, NextInv, PTL DEF Spec

\* A code is made into one session at most, and never both that and handed out for
\* invalidation, however the calls of devices and staff interleave.
THEOREM RegistrationCodeEndsOnce == Spec => []CodeEndsOnce
<1>1. IInv => CodeEndsOnce
  BY DEF IInv, PlaceInv
<1>. QED
  BY <1>1, InitInv, NextInv, PTL DEF Spec

\* A session is bound to the attempt that took its code, even when the code's digits
\* were drawn again.
THEOREM RegistrationBinding == Spec => []BindingIsOfTheCode
<1>1. IInv => BindingIsOfTheCode
  BY DEF IInv, PlaceInv
<1>. QED
  BY <1>1, InitInv, NextInv, PTL DEF Spec

-----------------------------------------------------------------------------
(* Displays: the links, sessions and keys they come from *)

\* A session or a link is shown to somebody once its request has answered.
Presentable(t) == t \in Requests /\ task[t].kind \in {"session", "link"} /\ task[t].step = "done"

\* A claim that has taken its link, or has made a display of it.
PastConsumption(r) ==
  displays[r] # None \/ task[r].step \in {"unique", "insert", "key", "undo", "notify"}

\* A display may be without a key only while its registration is at work on it or
\* somebody unregisters it.
KeyComesOrGoes(d) ==
  \/ task[d].step \in {"key", "undo"}
  \/ \E u \in Requests : task[u].kind = "unregister" /\ task[u].step = "delete" /\ task[u].on = d

\* Tokens come from requests that answered; each link is taken by one claim.
TokenOK(r) ==
  /\ task[r].kind \in {"session", "link"} /\ task[r].token # None => task[r].step = "done"
  /\ task[r].kind = "claim" /\ task[r].step # "idle" => Presentable(task[r].token)
  /\ task[r].spent =>
       /\ task[r].kind = "register" /\ task[r].step = "find"
       /\ Presentable(task[r].token) /\ ~IsOpen(task[r].token)

TokenInv == \A r \in Requests : TokenOK(r)

ClaimInv == \A r \in Requests : task[r].kind = "claim" /\ PastConsumption(r) =>
  /\ links[task[r].token] = None
  /\ \A q \in Requests :
       task[q].kind = "claim" /\ task[q].token = task[r].token /\ PastConsumption(q) => q = r

DisplayInv == \A d \in Requests : displays[d] # None =>
  /\ task[d].kind \in {"register", "claim"} /\ task[d].step \in {"key", "undo", "notify", "done"}
  /\ displays[d].key \/ KeyComesOrGoes(d)

SoundInv == TokenInv /\ ClaimInv /\ DisplayInv

\* Request r, which was at work, does its next step.
Advances(r) ==
  /\ task[r].step \notin Closed
  /\ \A x \in Requests : x # r => task'[x] = task[x]
  /\ task'[r].kind = task[r].kind
  /\ \/ task'[r].token = task[r].token
     \/ task[r].kind \in {"session", "link"} /\ task'[r].step = "done"
  /\ task[r].kind = "unregister" /\ task'[r].step # "done" => task'[r].on = task[r].on
  /\ task'[r].spent => task[r].spent /\ task'[r].step = "find"

\* The tokens and the claim that a step of request r may bring about.
BringsTokens(r) ==
  /\ \A t \in Requests : links'[t] # None => links[t] # None \/ (t = r /\ task[r].kind = "link")
  /\ \A t \in Requests : IsOpen(t)' => IsOpen(t) \/ t = r
  /\ task[r].kind = "claim" /\ PastConsumption(r)' =>
       PastConsumption(r) \/ (links[task[r].token] # None /\ links'[task[r].token] = None)

\* The displays it may bring about.
BringsDisplays(r) == \A d \in Requests : displays'[d] # None =>
  /\ \/ displays[d] # None
     \/ d = r /\ task[r].kind \in {"register", "claim"} /\ task[r].step = "insert"
  /\ d = r => task'[r].step \in {"key", "undo", "notify", "done"}
  /\ displays'[d].key \/ KeyComesOrGoes(d)'

\* A step within these limits keeps links, sessions and displays as they should be.
LEMMA SoundStep ==
  ASSUME TypeOK, SoundInv, NEW r \in Requests, Advances(r), BringsTokens(r), BringsDisplays(r)
  PROVE  SoundInv'
<1>. USE RegistrationAssumption
<1>1. \A t : Presentable(t) => Presentable(t)' /\ t # r
  BY DEF Presentable, Advances, Closed
<1>a. \A t : Presentable(t) /\ ~IsOpen(t) => ~IsOpen(t)'
  BY <1>1 DEF BringsTokens, Presentable
<1>2. TokenInv'
  <2>1. ASSUME NEW x \in Requests, x # r PROVE TokenOK(x)'
    <3>1. task'[x] = task[x] /\ TokenOK(x)
      BY <2>1 DEF Advances, SoundInv, TokenInv
    <3>. QED
      BY <1>1, <1>a, <3>1 DEF TokenOK
  <2>2. TokenOK(r)'
    <3>1. TokenOK(r)
      BY DEF SoundInv, TokenInv, TokenOK
    <3>. QED
      BY <1>1, <1>a, <3>1 DEF TokenOK, Advances, Closed
  <2>. QED
    BY <2>1, <2>2 DEF TokenInv
<1>3. ClaimInv'
  <2>1. \A x \in Requests : task'[x].kind = task[x].kind /\ (task[x].kind = "claim" => task'[x].token = task[x].token)
    BY DEF Advances
  <2>2. \A x \in Requests : x # r => (PastConsumption(x)' => PastConsumption(x))
    BY DEF PastConsumption, Advances, BringsDisplays
  <2>3. \A x \in Requests : task[x].kind = "claim" /\ task[x].step # "idle" =>
          Presentable(task[x].token) /\ (links'[task[x].token] # None => links[task[x].token] # None)
    BY <1>1 DEF SoundInv, TokenInv, TokenOK, BringsTokens, Presentable
  <2>4. task[r].kind = "claim" /\ PastConsumption(r)' =>
          PastConsumption(r) \/ (links[task[r].token] # None /\ links'[task[r].token] = None)
    BY DEF BringsTokens
  <2>a. \A x \in Requests : PastConsumption(x) => task[x].step # "idle"
    BY DEF PastConsumption, SoundInv, DisplayInv
  <2>5. ASSUME NEW x \in Requests, task'[x].kind = "claim", PastConsumption(x)'
        PROVE  links'[task'[x].token] = None
    BY <2>a, <2>1, <2>2, <2>3, <2>4, <2>5 DEF SoundInv, ClaimInv
  <2>6. ASSUME NEW x \in Requests, NEW q \in Requests,
               task'[x].kind = "claim", PastConsumption(x)',
               task'[q].kind = "claim", PastConsumption(q)', task'[q].token = task'[x].token
        PROVE  q = x
    BY <2>1, <2>2, <2>4, <2>6 DEF SoundInv, ClaimInv
  <2>. QED
    BY <2>5, <2>6 DEF ClaimInv
<1>4. DisplayInv'
  BY DEF SoundInv, DisplayInv, Advances, BringsDisplays
<1>. QED
  BY <1>2, <1>3, <1>4 DEF SoundInv

\* The end of a registration or of an unregistration is the only step that leaves
\* a display without somebody who will see to its key.
LEMMA SoundQuiet ==
  ASSUME TypeOK, SoundInv, NEW r \in Requests, Advances(r), BringsTokens(r), displays' = displays,
         task[r].step \notin {"key", "undo", "delete"},
         task[r].step = "notify" => task'[r].step = "done"
  PROVE  SoundInv'
<1>1. \A d \in Requests : KeyComesOrGoes(d) => KeyComesOrGoes(d)'
  BY DEF KeyComesOrGoes, Advances
<1>2. \A d \in Requests : displays[d] # None =>
        displays[d].key \/ KeyComesOrGoes(d)
  BY DEF SoundInv, DisplayInv
<1>3. displays[r] # None => task'[r].step = "done"
  BY DEF SoundInv, DisplayInv, Advances, Closed
<1>4. BringsDisplays(r)
  BY <1>1, <1>2, <1>3 DEF BringsDisplays
<1>. QED
  BY <1>4, SoundStep

\* A request that goes on to its next call, or answers.
LEMMA GoAdvances ==
  ASSUME TypeOK, SoundInv, NEW r \in Requests, NEW s \in Step, Go(r, s),
         task[r].step \notin Closed, ~task[r].spent
  PROVE  Advances(r) /\ task'[r].step = s
<1>1. task \in [Requests -> Task]
  BY DEF TypeOK
<1>2. task'[r] = [task[r] EXCEPT !.step = s] /\ \A x \in Requests : x # r => task'[x] = task[x]
  BY <1>1 DEF Go
<1>. QED
  BY <1>1, <1>2 DEF Advances, Task

\* A request that answers with a token was asked for one.
LEMMA EndAdvances ==
  ASSUME TypeOK, NEW r \in Requests, task[r].step \notin Closed,
         End(r) \/ (Answer(r) /\ task[r].kind \in {"session", "link"})
  PROVE  Advances(r) /\ task'[r].step = "done"
<1>. DEFINE t == [Ended(task[r]) EXCEPT !.token = r]
<1>1. task \in [Requests -> Task]
  BY DEF TypeOK
<1>2. \/ task' = [task EXCEPT ![r] = Ended(task[r])]
      \/ task' = [task EXCEPT ![r] = t] /\ task[r].kind \in {"session", "link"}
  BY <1>1 DEF End, Answer
<1>3. /\ Ended(task[r]).kind = task[r].kind /\ Ended(task[r]).step = "done"
      /\ Ended(task[r]).token = task[r].token /\ Ended(task[r]).spent = FALSE
      /\ t.kind = task[r].kind /\ t.step = "done" /\ t.spent = FALSE
  BY DEF Ended, Idle
<1>. HIDE DEF t
<1>4. \A x \in Requests : x # r => task'[x] = task[x]
  BY <1>1, <1>2
<1>5. /\ task'[r].kind = task[r].kind /\ task'[r].step = "done" /\ task'[r].spent = FALSE
      /\ task'[r].token = task[r].token \/ task[r].kind \in {"session", "link"}
  BY <1>1, <1>2, <1>3
<1>. QED
  BY <1>4, <1>5 DEF Advances

\* The steps on codes and attempts have nothing to do with links, sessions or displays.
LEMMA SoundCodes ==
  ASSUME IInv, SoundInv, NEW r \in Requests, CodeStep(r) \/ AttemptStep(r)
  PROVE  SoundInv'
<1>. USE RegistrationAssumption DEF At, Issuing, Closed, Kind, codeVars, attemptVars, tokenVars, displayVars, boundVars
<1>0. TypeOK /\ TokenOK(r) /\ task \in [Requests -> Task]
  BY DEF IInv, SoundInv, TokenInv, TypeOK
<1>. USE <1>0
<1>a. ~task[r].spent
  BY DEF TokenOK, CodeStep, AttemptStep, DrawCode, SetLookup, DropCode, ReadOld, MarkOld, DeleteLookup,
         OpenAttempt, RotateCode, RotateRefused, CloseScript
<1>. USE <1>a
<1>1. CASE DrawCode(r)
  <2>1. PICK d \in Digits : task' = [task EXCEPT ![r] =
           [task[r] EXCEPT !.digits = d, !.tries = task[r].tries + 1, !.step = "lookup"]]
    BY <1>1 DEF DrawCode
  <2>2. Advances(r) /\ task'[r].step = "lookup"
    BY <1>1, <2>1 DEF DrawCode, Advances, Task
  <2>. QED
    BY <1>1, <2>2, SoundQuiet DEF DrawCode, BringsTokens, PastConsumption, IsOpen
<1>2. CASE SetLookup(r)
  <2>1. Advances(r) /\ task'[r].step \in {"script", "drop"}
    BY <1>2, GoAdvances, EndAdvances DEF SetLookup, Onward, Step
  <2>. QED
    BY <1>2, <2>1, SoundQuiet DEF SetLookup, BringsTokens, PastConsumption, IsOpen
<1>3. CASE DropCode(r)
  <2>1. Advances(r) /\ task'[r].step \in {"draw", "done"}
    BY <1>3, GoAdvances, EndAdvances DEF DropCode, Onward, Step
  <2>. QED
    BY <1>3, <2>1, SoundQuiet DEF DropCode, BringsTokens, PastConsumption, IsOpen
<1>4. CASE ReadOld(r)
  <2>1. Advances(r) /\ task'[r].step \in {"mark", "bind", "done"}
    BY <1>4, GoAdvances, EndAdvances DEF ReadOld, Onward, Step
  <2>. QED
    BY <1>4, <2>1, SoundQuiet DEF ReadOld, BringsTokens, PastConsumption, IsOpen
<1>5. CASE MarkOld(r)
  <2>1. Advances(r) /\ task'[r].step \in {"unlook"}
    BY <1>5, GoAdvances, EndAdvances DEF MarkOld, Onward, Step
  <2>. QED
    BY <1>5, <2>1, SoundQuiet DEF MarkOld, BringsTokens, PastConsumption, IsOpen
<1>6. CASE DeleteLookup(r)
  <2>1. Advances(r) /\ task'[r].step \in {"bind", "done"}
    BY <1>6, GoAdvances, EndAdvances DEF DeleteLookup, Onward, Step
  <2>. QED
    BY <1>6, <2>1, SoundQuiet DEF DeleteLookup, BringsTokens, PastConsumption, IsOpen
<1>7. CASE RotateRefused(r)
  <2>1. Advances(r) /\ task'[r].step \in {"done"}
    BY <1>7, GoAdvances, EndAdvances DEF RotateRefused, Onward, Step
  <2>. QED
    BY <1>7, <2>1, SoundQuiet DEF RotateRefused, BringsTokens, PastConsumption, IsOpen
<1>8. CASE OpenAttempt(r)
  <2>1. \/ \E c : task' = [task EXCEPT ![r].old = c, ![r].step = "read"]
        \/ Onward(r) \/ End(r)
    BY <1>8 DEF OpenAttempt, Retire
  <2>2. Advances(r) /\ task'[r].step \in {"read", "bind", "done"}
    <3>1. CASE Onward(r) \/ End(r)
      BY <1>8, <3>1, GoAdvances, EndAdvances DEF OpenAttempt, Onward, Step
    <3>2. CASE \E c : task' = [task EXCEPT ![r].old = c, ![r].step = "read"]
      BY <1>8, <3>2 DEF OpenAttempt, Advances, Task
    <3>. QED
      BY <2>1, <3>1, <3>2
  <2>. QED
    BY <1>8, <2>2, SoundQuiet DEF OpenAttempt, BringsTokens, PastConsumption, IsOpen
<1>9. CASE RotateCode(r)
  <2>1. \/ \E c : task' = [task EXCEPT ![r].old = c, ![r].step = "read"]
        \/ Onward(r) \/ End(r)
    BY <1>9 DEF RotateCode, Retire
  <2>2. Advances(r) /\ task'[r].step \in {"read", "bind", "done"}
    <3>1. CASE Onward(r) \/ End(r)
      BY <1>9, <3>1, GoAdvances, EndAdvances DEF RotateCode, Onward, Step
    <3>2. CASE \E c : task' = [task EXCEPT ![r].old = c, ![r].step = "read"]
      BY <1>9, <3>2 DEF RotateCode, Advances, Task
    <3>. QED
      BY <2>1, <3>1, <3>2
  <2>. QED
    BY <1>9, <2>2, SoundQuiet DEF RotateCode, BringsTokens, PastConsumption, IsOpen
<1>10. CASE CloseScript(r)
  <2>1. \/ \E c : task' = [task EXCEPT ![r].old = c, ![r].step = "read"]
        \/ Onward(r) \/ End(r)
    BY <1>10 DEF CloseScript, Retire
  <2>2. Advances(r) /\ task'[r].step \in {"read", "bind", "done"}
    <3>1. CASE Onward(r) \/ End(r)
      BY <1>10, <3>1, GoAdvances, EndAdvances DEF CloseScript, Onward, Step
    <3>2. CASE \E c : task' = [task EXCEPT ![r].old = c, ![r].step = "read"]
      BY <1>10, <3>2 DEF CloseScript, Advances, Task
    <3>. QED
      BY <2>1, <3>1, <3>2
  <2>. QED
    BY <1>10, <2>2, SoundQuiet DEF CloseScript, BringsTokens, PastConsumption, IsOpen
<1>. QED
  BY <1>1, <1>2, <1>3, <1>4, <1>5, <1>6, <1>7, <1>8, <1>9, <1>10 DEF CodeStep, AttemptStep

\* The steps that make and present tokens: a link appears when its request answers.
LEMMA SoundTokens ==
  ASSUME IInv, SoundInv, NEW r \in Requests, TokenStep(r)
  PROVE  SoundInv'
<1>. USE RegistrationAssumption DEF At, Issuing, Closed, Kind, codeVars, attemptVars, tokenVars, displayVars, boundVars
<1>0. TypeOK /\ TokenOK(r) /\ task \in [Requests -> Task]
  BY DEF IInv, SoundInv, TokenInv, TypeOK
<1>. USE <1>0
<1>a. ~task[r].spent /\ task[r].kind \in {"session", "link"}
  BY DEF TokenOK, TokenStep, ConsumeIndex, TakeLookup, ReadCode, SpendCode, WriteSession, Bind, WriteLink
<1>. USE <1>a
<1>1. CASE ConsumeIndex(r)
  <2>1. \/ \E a, c : task' = [task EXCEPT ![r].on = a, ![r].old = c, ![r].step = "getdel"]
        \/ End(r)
    BY <1>1 DEF ConsumeIndex
  <2>2. Advances(r) /\ task'[r].step \in {"getdel", "done"}
    <3>1. CASE End(r)
      BY <1>1, <3>1, EndAdvances DEF ConsumeIndex
    <3>2. CASE \E a, c : task' = [task EXCEPT ![r].on = a, ![r].old = c, ![r].step = "getdel"]
      <4>1. PICK a, c : task' = [task EXCEPT ![r].on = a, ![r].old = c, ![r].step = "getdel"]
        BY <3>2
      <4>2. task[r] \in Task /\ task[r].step \notin Closed
        BY <1>1 DEF ConsumeIndex
      <4>3. /\ task'[r].step = "getdel" /\ task'[r].kind = task[r].kind
            /\ task'[r].token = task[r].token /\ task'[r].spent = task[r].spent
            /\ \A x \in Requests : x # r => task'[x] = task[x]
        BY <4>1, <4>2 DEF Task
      <4>. QED
        BY <4>2, <4>3 DEF Advances
    <3>. QED
      BY <2>1, <3>1, <3>2
  <2>. QED
    BY <1>1, <2>2, SoundQuiet DEF ConsumeIndex, BringsTokens, PastConsumption, IsOpen
<1>2. CASE TakeLookup(r)
  <2>1. \/ \E c : task' = [task EXCEPT ![r].got = c, ![r].step = "readCode"]
        \/ End(r)
    BY <1>2 DEF TakeLookup
  <2>2. Advances(r) /\ task'[r].step \in {"readCode", "done"}
    <3>1. CASE End(r)
      BY <1>2, <3>1, EndAdvances DEF TakeLookup
    <3>2. CASE \E c : task' = [task EXCEPT ![r].got = c, ![r].step = "readCode"]
      BY <1>2, <3>2 DEF TakeLookup, Advances, Task
    <3>. QED
      BY <2>1, <3>1, <3>2
  <2>. QED
    BY <1>2, <2>2, SoundQuiet DEF TakeLookup, BringsTokens, PastConsumption, IsOpen
<1>3. CASE ReadCode(r)
  <2>1. Advances(r) /\ task'[r].step \in {"spend", "done"}
    BY <1>3, GoAdvances, EndAdvances DEF ReadCode, Onward, Step
  <2>. QED
    BY <1>3, <2>1, SoundQuiet DEF ReadCode, BringsTokens, PastConsumption, IsOpen
<1>4. CASE SpendCode(r)
  <2>1. Advances(r) /\ task'[r].step \in {"create", "done"}
    BY <1>4, GoAdvances, EndAdvances DEF SpendCode, Onward, Step
  <2>. QED
    BY <1>4, <2>1, SoundQuiet DEF SpendCode, BringsTokens, PastConsumption, IsOpen
<1>5. CASE WriteSession(r)
  <2>1. Advances(r) /\ task'[r].step = "bind"
    BY <1>5, GoAdvances DEF WriteSession, Step
  <2>2. \A t \in Requests : IsOpen(t)' => IsOpen(t) \/ t = r
    BY <1>5 DEF WriteSession, IsOpen, TypeOK
  <2>. QED
    BY <1>5, <2>1, <2>2, SoundQuiet DEF WriteSession, BringsTokens, PastConsumption
<1>6. CASE Bind(r)
  <2>1. Advances(r) /\ task'[r].step \in {"link", "done"}
    BY <1>6, GoAdvances, EndAdvances DEF Bind, Onward, Step
  <2>. QED
    BY <1>6, <2>1, SoundQuiet DEF Bind, BringsTokens, PastConsumption, IsOpen
<1>7. CASE WriteLink(r)
  <2>1. Advances(r) /\ task'[r].step = "done"
    BY <1>7, EndAdvances DEF WriteLink
  <2>2. \A t \in Requests : links'[t] # None => links[t] # None \/ t = r
    BY <1>7 DEF WriteLink, TypeOK
  <2>. QED
    BY <1>7, <2>1, <2>2, SoundQuiet DEF WriteLink, BringsTokens, PastConsumption, IsOpen
<1>. QED
  BY <1>1, <1>2, <1>3, <1>4, <1>5, <1>6, <1>7 DEF TokenStep

\* The steps of registrations, claims and unregistrations.
LEMMA SoundDisplays ==
  ASSUME IInv, SoundInv, NEW r \in Requests, DisplayStep(r)
  PROVE  SoundInv'
<1>. USE RegistrationAssumption DEF At, Closed, Kind, codeVars, attemptVars, tokenVars, displayVars, boundVars
<1>0. TypeOK /\ TokenOK(r) /\ TaskOK(r) /\ task \in [Requests -> Task]
  BY DEF IInv, SoundInv, TokenInv, TypeOK, TaskInv
<1>. USE <1>0
<1>1. CASE FindSession(r)
  <2>1. CASE IsOpen(task[r].token)
    <3>1. Go(r, "unique") /\ ~task[r].spent
      BY <1>1, <2>1 DEF FindSession, TokenOK
    <3>2. Advances(r)
      BY <1>1, <3>1, GoAdvances DEF FindSession, Step
    <3>. QED
      BY <1>1, <3>2, SoundQuiet DEF FindSession, BringsTokens, PastConsumption, IsOpen
  <2>2. CASE ~IsOpen(task[r].token)
    <3>1. Advances(r)
      BY <1>1, <2>2, EndAdvances DEF FindSession
    <3>. QED
      BY <1>1, <3>1, SoundQuiet DEF FindSession, BringsTokens, PastConsumption, IsOpen
  <2>. QED
    BY <2>1, <2>2
<1>a. ~FindSession(r) => ~task[r].spent
  BY DEF DisplayStep, TokenOK, ConsumeLink, CheckUnique, RereadSession, CompleteSession, InsertDisplay,
         InsertKey, KeyFails, UndoDisplay, Notify, FindDisplay, RevokeKey, DeleteDisplay
<1>2. CASE ConsumeLink(r) /\ ~task[r].spent
  <2>1. \/ \E c : task' = [task EXCEPT ![r].slug = c, ![r].step = "unique"] /\ links[task[r].token] # None
        \/ End(r)
    BY <1>2 DEF ConsumeLink
  <2>2. Advances(r) /\ (task'[r].step = "done" \/ links[task[r].token] # None)
    <3>1. CASE End(r)
      BY <1>2, <3>1, EndAdvances DEF ConsumeLink
    <3>2. CASE \E c : task' = [task EXCEPT ![r].slug = c, ![r].step = "unique"] /\ links[task[r].token] # None
      BY <1>2, <3>2 DEF ConsumeLink, Advances, Task
    <3>. QED
      BY <2>1, <3>1, <3>2
  <2>3. task[r].token \in Requests /\ links' = [links EXCEPT ![task[r].token] = None]
    BY <1>2 DEF ConsumeLink, TaskOK
  <2>4. BringsTokens(r)
    BY <1>2, <2>2, <2>3 DEF ConsumeLink, BringsTokens, PastConsumption, IsOpen, TypeOK
  <2>. QED
    BY <1>2, <2>2, <2>4, SoundQuiet DEF ConsumeLink
<1>3. CASE CheckUnique(r) /\ ~task[r].spent
  <2>1. Advances(r) /\ task'[r].step \in {"check", "insert", "draw", "done"}
    BY <1>3, GoAdvances, EndAdvances DEF CheckUnique, Step
  <2>. QED
    BY <1>3, <2>1, SoundQuiet DEF CheckUnique, BringsTokens, PastConsumption, IsOpen
<1>4. CASE RereadSession(r) /\ ~task[r].spent
  <2>1. Advances(r) /\ task'[r].step \in {"complete", "done"}
    BY <1>4, GoAdvances, EndAdvances DEF RereadSession, Step
  <2>. QED
    BY <1>4, <2>1, SoundQuiet DEF RereadSession, BringsTokens, PastConsumption, IsOpen
<1>5. CASE CompleteSession(r) /\ ~task[r].spent
  <2>1. Advances(r) /\ task[r].kind = "register"
    BY <1>5, GoAdvances DEF CompleteSession, Step
  <2>2. \A t \in Requests : IsOpen(t)' => IsOpen(t)
    BY <1>5 DEF CompleteSession, IsOpen, TypeOK, Session
  <2>. QED
    BY <1>5, <2>1, <2>2, SoundQuiet DEF CompleteSession, BringsTokens
<1>6. CASE InsertDisplay(r) /\ ~task[r].spent
  <2>1. /\ Advances(r)
        /\ \/ displays' = displays /\ task'[r].step = "done"
           \/ \E v : displays' = [displays EXCEPT ![r] = v] /\ task'[r].step = "key"
    BY <1>6, GoAdvances, EndAdvances DEF InsertDisplay, Step
  <2>2. \A d \in Requests : KeyComesOrGoes(d) => KeyComesOrGoes(d)'
    BY <1>6, <2>1 DEF InsertDisplay, KeyComesOrGoes, Advances
  <2>3. BringsDisplays(r)
    <3>1. ASSUME NEW d \in Requests, displays'[d] # None, d # r
          PROVE  displays[d] # None /\ (displays'[d].key \/ KeyComesOrGoes(d)')
      BY <2>1, <2>2, <3>1 DEF TypeOK, SoundInv, DisplayInv
    <3>2. displays[r] = None
      BY <1>6 DEF InsertDisplay, SoundInv, DisplayInv
    <3>3. displays'[r] # None => task'[r].step = "key" /\ KeyComesOrGoes(r)'
      BY <2>1, <3>2 DEF KeyComesOrGoes
    <3>. QED
      BY <1>6, <3>1, <3>3 DEF InsertDisplay, BringsDisplays
  <2>4. BringsTokens(r)
    BY <1>6 DEF InsertDisplay, BringsTokens, PastConsumption, IsOpen
  <2>. QED
    BY <2>1, <2>3, <2>4, SoundStep
<1>7. CASE InsertKey(r) /\ ~task[r].spent
  <2>1. Advances(r) /\ task'[r].step \in {"notify", "undo"}
    BY <1>7, GoAdvances, EndAdvances DEF InsertKey, Step
  <2>2. \A d \in Requests : d # r => (KeyComesOrGoes(d) => KeyComesOrGoes(d)') /\ displays'[d] = displays[d]
    BY <1>7, <2>1 DEF InsertKey, KeyComesOrGoes, Advances, TypeOK
  <2>3. displays'[r] # None => displays[r] # None /\ (displays'[r].key \/ KeyComesOrGoes(r)')
    BY <1>7, <2>1 DEF InsertKey, KeyComesOrGoes, TypeOK, Display
  <2>4. BringsDisplays(r) /\ BringsTokens(r)
    BY <1>7, <2>1, <2>2, <2>3 DEF InsertKey, BringsDisplays, BringsTokens, PastConsumption, IsOpen, SoundInv, DisplayInv
  <2>. QED
    BY <2>1, <2>4, SoundStep
<1>8. CASE KeyFails(r) /\ ~task[r].spent
  <2>1. Advances(r) /\ task'[r].step \in {"undo"}
    BY <1>8, GoAdvances, EndAdvances DEF KeyFails, Step
  <2>2. \A d \in Requests : d # r => (KeyComesOrGoes(d) => KeyComesOrGoes(d)') /\ displays'[d] = displays[d]
    BY <1>8, <2>1 DEF KeyFails, KeyComesOrGoes, Advances, TypeOK
  <2>3. displays'[r] # None => displays[r] # None /\ (displays'[r].key \/ KeyComesOrGoes(r)')
    BY <1>8, <2>1 DEF KeyFails, KeyComesOrGoes, TypeOK, Display
  <2>4. BringsDisplays(r) /\ BringsTokens(r)
    BY <1>8, <2>1, <2>2, <2>3 DEF KeyFails, BringsDisplays, BringsTokens, PastConsumption, IsOpen, SoundInv, DisplayInv
  <2>. QED
    BY <2>1, <2>4, SoundStep
<1>9. CASE UndoDisplay(r) /\ ~task[r].spent
  <2>1. Advances(r) /\ task'[r].step \in {"done"}
    BY <1>9, GoAdvances, EndAdvances DEF UndoDisplay, Step
  <2>2. \A d \in Requests : d # r => (KeyComesOrGoes(d) => KeyComesOrGoes(d)') /\ displays'[d] = displays[d]
    BY <1>9, <2>1 DEF UndoDisplay, KeyComesOrGoes, Advances, TypeOK
  <2>3. displays'[r] # None => displays[r] # None /\ (displays'[r].key \/ KeyComesOrGoes(r)')
    BY <1>9, <2>1 DEF UndoDisplay, KeyComesOrGoes, TypeOK, Display
  <2>4. BringsDisplays(r) /\ BringsTokens(r)
    BY <1>9, <2>1, <2>2, <2>3 DEF UndoDisplay, BringsDisplays, BringsTokens, PastConsumption, IsOpen, SoundInv, DisplayInv
  <2>. QED
    BY <2>1, <2>4, SoundStep
<1>10. CASE Notify(r) /\ ~task[r].spent
  <2>1. Advances(r) /\ task'[r].step = "done"
    BY <1>10, EndAdvances DEF Notify
  <2>. QED
    BY <1>10, <2>1, SoundQuiet DEF Notify, BringsTokens, PastConsumption, IsOpen
<1>11. CASE FindDisplay(r) /\ ~task[r].spent
  <2>1. Advances(r) /\ task'[r].step \in {"revoke", "done"}
    BY <1>11, GoAdvances, EndAdvances DEF FindDisplay, Step
  <2>. QED
    BY <1>11, <2>1, SoundQuiet DEF FindDisplay, BringsTokens, PastConsumption, IsOpen
<1>12. CASE RevokeKey(r) /\ ~task[r].spent
  <2>1. Advances(r) /\ task'[r].step = "delete" /\ task'[r].on = task[r].on
    BY <1>12, GoAdvances DEF RevokeKey, Step, Advances
  <2>2. \A d \in Requests : KeyComesOrGoes(d) => KeyComesOrGoes(d)'
    BY <1>12, <2>1 DEF RevokeKey, KeyComesOrGoes, Advances
  <2>3. KeyComesOrGoes(task[r].on)' /\ displays[r] = None
    BY <1>12, <2>1 DEF RevokeKey, KeyComesOrGoes, Advances, SoundInv, DisplayInv
  <2>4. ASSUME NEW d \in Requests, displays'[d] # None
        PROVE  displays[d] # None /\ (displays'[d].key \/ KeyComesOrGoes(d)')
    <3>1. displays'[d] = displays[d] \/ d = task[r].on
      BY <1>12 DEF RevokeKey, TypeOK
    <3>2. displays[d] # None
      BY <1>12, <2>4 DEF RevokeKey, TypeOK
    <3>3. d = task[r].on => KeyComesOrGoes(d)'
      BY <2>1, <2>3 DEF KeyComesOrGoes
    <3>. QED
      BY <2>2, <3>1, <3>2, <3>3 DEF SoundInv, DisplayInv
  <2>5. BringsDisplays(r) /\ BringsTokens(r)
    BY <1>12, <2>3, <2>4 DEF RevokeKey, BringsDisplays, BringsTokens, PastConsumption, IsOpen
  <2>. QED
    BY <2>1, <2>5, SoundStep
<1>13. CASE DeleteDisplay(r) /\ ~task[r].spent
  <2>1. Advances(r) /\ task'[r].step = "done"
    BY <1>13, EndAdvances DEF DeleteDisplay
  <2>2. \A d \in Requests : d # task[r].on => (KeyComesOrGoes(d) => KeyComesOrGoes(d)')
    BY <1>13, <2>1 DEF DeleteDisplay, KeyComesOrGoes, Advances
  <2>3. ASSUME NEW d \in Requests, displays'[d] # None
        PROVE  d # task[r].on /\ displays[d] # None /\ (displays'[d].key \/ KeyComesOrGoes(d)')
    BY <1>13, <2>2, <2>3 DEF DeleteDisplay, TypeOK, SoundInv, DisplayInv
  <2>4. BringsDisplays(r) /\ BringsTokens(r)
    BY <1>13, <2>1, <2>3 DEF DeleteDisplay, BringsDisplays, BringsTokens, PastConsumption, IsOpen
  <2>. QED
    BY <2>1, <2>4, SoundStep
<1>. QED
  BY <1>a, <1>1, <1>2, <1>3, <1>4, <1>5, <1>6, <1>7, <1>8, <1>9, <1>10, <1>11, <1>12, <1>13 DEF DisplayStep

\* A request that arrives: what it presents was shown by one that answered.
LEMMA SoundRequests ==
  ASSUME IInv, SoundInv, NEW r \in Requests, Staff(r) \/ Device(r)
  PROVE  SoundInv'
<1>. USE RegistrationAssumption
<1>0. TypeOK /\ task \in [Requests -> Task] /\ TokenInv
  BY DEF IInv, SoundInv, TypeOK
<1>1. \A t \in Requests : Made(t, "session") \/ Made(t, "link") => Presentable(t)
  BY <1>0 DEF Made, Presentable, TokenInv, TokenOK
<1>2. PICK t : Begin(r, t) /\ Starts(t)
  BY Arrives
<1>3. /\ t.kind \in {"session", "link"} => t.token = None
      /\ t.kind = "claim" => Presentable(t.token) /\ t.step = "consume"
      /\ t.spent => /\ t.kind = "register" /\ t.step = "find"
                    /\ Presentable(t.token) /\ ~IsOpen(t.token)
      /\ t.step \notin {"key", "undo", "delete"}
  BY <1>1, <1>2 DEF Starts
<1>4. /\ task[r].step = "idle" /\ task'[r] = t
      /\ \A x \in Requests : x # r => task'[x] = task[x]
      /\ UNCHANGED <<sessions, links, displays>>
  BY <1>0, <1>2 DEF Begin, tokenVars, displayVars
<1>5. \A x : Presentable(x) => Presentable(x)' /\ x # r
  BY <1>4 DEF Presentable
<1>6. \A x : IsOpen(x)' <=> IsOpen(x)
  BY <1>4 DEF IsOpen
<1>7. TokenInv'
  <2>1. TokenOK(r)'
    BY <1>3, <1>4, <1>5, <1>6 DEF TokenOK
  <2>2. ASSUME NEW x \in Requests, x # r PROVE TokenOK(x)'
    BY <1>0, <1>4, <1>5, <1>6, <2>2 DEF TokenOK, TokenInv
  <2>. QED
    BY <2>1, <2>2 DEF TokenInv
<1>8. displays[r] = None
  BY <1>4 DEF SoundInv, DisplayInv
<1>9. ClaimInv'
  <2>1. \A x \in Requests : task'[x].kind = "claim" /\ PastConsumption(x)' =>
           x # r /\ task'[x] = task[x] /\ PastConsumption(x)
    BY <1>3, <1>4, <1>8 DEF PastConsumption
  <2>. QED
    BY <1>4, <2>1 DEF SoundInv, ClaimInv
<1>10. DisplayInv'
  <2>1. \A d \in Requests : displays[d] # None => d # r /\ (KeyComesOrGoes(d) => KeyComesOrGoes(d)')
    BY <1>4, <1>8 DEF KeyComesOrGoes
  <2>. QED
    BY <1>4, <2>1 DEF SoundInv, DisplayInv
<1>. QED
  BY <1>7, <1>9, <1>10 DEF SoundInv

\* Time takes sessions and links away.
LEMMA SoundTime ==
  ASSUME IInv, SoundInv, Expiry \/ UNCHANGED vars
  PROVE  SoundInv'
<1>1. TypeOK
  BY DEF IInv
<1>2. /\ task' = task /\ displays' = displays
      /\ \A t \in Requests : links'[t] = links[t] \/ links'[t] = None
      /\ \A t \in Requests : sessions'[t] = sessions[t] \/ sessions'[t] = None
  BY <1>1 DEF Expiry, CodeExpires, AttemptExpires, OpenExpires, TokenExpires, BindingExpires,
              vars, codeVars, attemptVars, tokenVars, displayVars, boundVars, TypeOK
<1>3. \A t \in Requests : IsOpen(t)' => IsOpen(t)
  BY <1>2 DEF IsOpen
<1>4. \A t : Presentable(t)' <=> Presentable(t)
  BY <1>2 DEF Presentable
<1>5. TokenInv'
  BY <1>2, <1>3, <1>4 DEF SoundInv, TokenInv, TokenOK, Presentable
<1>6. ClaimInv'
  <2>1. \A x \in Requests : PastConsumption(x) => task[x].step # "idle"
    BY DEF PastConsumption, SoundInv, DisplayInv
  <2>2. \A x \in Requests : PastConsumption(x)' => PastConsumption(x)
    BY <1>2 DEF PastConsumption
  <2>3. \A x \in Requests : task[x].kind = "claim" /\ task[x].step # "idle" => task[x].token \in Requests
    BY DEF SoundInv, TokenInv, TokenOK, Presentable
  <2>. QED
    BY <1>2, <2>1, <2>2, <2>3 DEF SoundInv, ClaimInv
<1>7. DisplayInv'
  BY <1>2 DEF SoundInv, DisplayInv, KeyComesOrGoes
<1>. QED
  BY <1>5, <1>6, <1>7 DEF SoundInv

\* What the invariant says of links, sessions and displays.
LEMMA SoundDisplaysAre ==
  ASSUME IInv, SoundInv
  PROVE  DisplaysAreSound
<1>. USE RegistrationAssumption
<1>1. OneDisplayPerLink
  <2>. SUFFICES ASSUME NEW t \in Requests
                PROVE  Cardinality({r \in Claims(t) : displays[r] # None
                         \/ task[r].step \in {"unique", "insert", "key", "undo", "notify"}}) <= 1
    BY DEF OneDisplayPerLink
  <2>. DEFINE S == {r \in Claims(t) : displays[r] # None
                         \/ task[r].step \in {"unique", "insert", "key", "undo", "notify"}}
  <2>1. \A q, r \in S : q = r
    BY DEF Claims, SoundInv, ClaimInv, PastConsumption
  <2>2. CASE S = {}
    <3>. HIDE DEF S
    <3>1. Cardinality(S) = 0
      BY <2>2, FS_EmptySet
    <3>. QED
      BY <3>1 DEF S
  <2>3. CASE S # {}
    <3>1. PICK r \in S : S = {r}
      BY <2>1, <2>3
    <3>. HIDE DEF S
    <3>2. Cardinality(S) = 1
      BY <3>1, FS_Singleton
    <3>. QED
      BY <3>2 DEF S
  <2>. QED
    BY <2>2, <2>3
<1>2. CompletedSessionIsSpent
  BY DEF CompletedSessionIsSpent, SoundInv, TokenInv, TokenOK
<1>3. NoDisplayWithoutKey
  BY DEF NoDisplayWithoutKey, InProgress, Closed, SoundInv, DisplayInv, KeyComesOrGoes
<1>. QED
  BY <1>1, <1>2, <1>3 DEF DisplaysAreSound

\* However registrations, claims and unregistrations meet, whichever key insertions
\* fail and whatever expires, a link makes one display at most, a session completed
\* before a request came makes none, and no display is left without a key.
THEOREM RegistrationDisplays == Spec => []DisplaysAreSound
<1>1. Init => IInv /\ SoundInv
  <2>1. Init => SoundInv
    <3>1. ASSUME Init PROVE \A r \in Requests : task[r] = Idle /\ displays[r] = None
      BY <3>1 DEF Init
    <3>2. Idle.kind = None /\ Idle.step = "idle" /\ Idle.token = None /\ Idle.spent = FALSE
      BY DEF Idle
    <3>. QED
      BY <3>1, <3>2 DEF SoundInv, TokenInv, TokenOK, ClaimInv, PastConsumption, DisplayInv
  <2>. QED
    BY <2>1, InitInv
<1>2. IInv /\ SoundInv /\ [Next]_vars => IInv' /\ SoundInv'
  <2>. SUFFICES ASSUME IInv, SoundInv, [Next]_vars PROVE IInv' /\ SoundInv'
    OBVIOUS
  <2>. QED
    BY NextInv, SoundCodes, SoundTokens, SoundDisplays, SoundRequests, SoundTime DEF Next
<1>3. IInv /\ SoundInv => DisplaysAreSound
  BY SoundDisplaysAre
<1>. QED
  BY <1>1, <1>2, <1>3, PTL DEF Spec

-----------------------------------------------------------------------------
(* Codes in use: what leads to them *)

\* No expired code read these digits.
Fresh(d) == \A x \in expired : codes[x].digits # d

\* A code is in use from the moment its lookup key is set until it is spent, taken
\* back or given up: by the script that will show it, the attempt that shows it, the
\* request that invalidates it, or the device request that has just taken it.
AtScript(c) == task[c].kind \in Issuing /\ task[c].step = "script"
Shows(a, c) == attempts[a] # None /\ attempts[a].code = c
Undoing(r, c) == task[r].step \in {"read", "mark", "unlook"} /\ task[r].old = c
Takes(s, c) == task[s].kind = "session" /\ task[s].step = "getdel" /\ task[s].old = c
InUse(c) == AtScript(c) \/ \E x \in Requests : Shows(x, c) \/ Undoing(x, c) \/ Takes(x, c)

\* Expired codes stay what they were.
ExpiredInv == \A x \in expired : codes[x] \in Code /\ (home[x] # None \/ task[x].step = "done")

\* The digits a request carries are those of its code.
DigitsInv ==
  /\ \A d \in Digits : lookup[d] # None => codes[lookup[d]].digits = d
  /\ \A r \in Requests : task[r].kind \in Issuing /\ task[r].step \in {"lookup", "script"} =>
       codes[r].digits = task[r].digits
  /\ \A r \in Requests : task[r].kind \in Issuing /\ task[r].step = "lookup" => ~codes[r].used
  /\ \A s \in Requests : task[s].kind = "session" /\ task[s].step = "getdel" =>
       codes[task[s].old].digits = task[s].digits

\* One request invalidates a code; a closed attempt shows none; and the code a
\* device request found is the one its attempt named.
HandsInv ==
  /\ \A r, q \in Requests, c \in Id : Undoing(r, c) => c \in retired /\ (Undoing(q, c) => q = r)
  /\ \A a \in Requests : attempts[a] # None /\ attempts[a].closed => attempts[a].code = None
  /\ \A s \in Requests : task[s].step \in {"readCode", "spend"} /\ Fresh(codes[task[s].got].digits) =>
       task[s].got = task[s].old

\* The lookup key of the digits of a code in use leads to it, and it is unused until
\* the request that invalidates it says so.
LookupOK(c) == InUse(c) /\ Fresh(codes[c].digits) =>
  /\ lookup[codes[c].digits] = c
  /\ codes[c].used => \E r \in Requests : Undoing(r, c)

LookupInv == \A c \in Requests : LookupOK(c)

IndexInv == \A a, c \in Requests : Shows(a, c) /\ Fresh(codes[c].digits) => index[codes[c].digits] = a

CodeInv == ExpiredInv /\ DigitsInv /\ HandsInv /\ LookupInv /\ IndexInv

\* A request whose code has no lookup key yet has shown it to nobody.
LEMMA NotYet ==
  ASSUME IInv, CodeInv, NEW r \in Requests,
         task[r].kind \in Issuing, task[r].step \in {"draw", "lookup", "drop"}
  PROVE  /\ home[r] = None /\ r \notin expired /\ ~InUse(r)
         /\ \A d \in Digits : lookup[d] # r
         /\ \A x \in Requests : ~Shows(x, r) /\ ~Undoing(x, r) /\ ~Takes(x, r)
         /\ \A s \in Requests : task[s].step \in {"readCode", "spend"} => task[s].got # r
<1>. USE RegistrationAssumption
<1>1. ~Issued(r)
  BY DEF Issued, Past
<1>2. home[r] = None /\ \A d \in Digits : lookup[d] # r
  BY <1>1 DEF IInv, IssuedInv
<1>3. r \notin expired
  BY <1>2 DEF CodeInv, ExpiredInv
<1>4. \A x \in Requests : ~Shows(x, r) /\ ~Undoing(x, r) /\ ~Takes(x, r)
  BY <1>2 DEF Shows, Undoing, Takes, IInv, TaskInv, TaskOK, PlaceInv, ShownInv, ConsumedInv, Consuming, Id
<1>5. \A s \in Requests : task[s].step \in {"readCode", "spend"} => task[s].got # r
  BY <1>1 DEF IInv, TaskInv, TaskOK
<1>. QED
  BY <1>2, <1>3, <1>4, <1>5 DEF InUse, AtScript

\* A code in use has been issued.
LEMMA InUseIssued ==
  ASSUME IInv, NEW c \in Requests, InUse(c)
  PROVE  Issued(c)
<1>. USE RegistrationAssumption
<1>1. CASE AtScript(c)
  BY <1>1 DEF AtScript, IInv, TaskInv, TaskOK, Issued, Past
<1>2. CASE home[c] # None
  BY <1>2 DEF IInv, IssuedInv
<1>3. ~AtScript(c) => home[c] # None
  BY DEF InUse, Shows, Undoing, Takes, IInv, TaskInv, TaskOK, PlaceInv, ShownInv, ConsumedInv, Consuming, Id
<1>. QED
  BY <1>1, <1>2, <1>3

\* A code is in the hands of one at a time: no code in two of the four ways.
LEMMA OneHand ==
  ASSUME IInv, CodeInv, NEW c \in Requests
  PROVE  /\ AtScript(c) => \A x \in Requests : ~Shows(x, c) /\ ~Undoing(x, c) /\ ~Takes(x, c)
         /\ \A x \in Requests : Shows(x, c) =>
              \A y \in Requests : ~Undoing(y, c) /\ ~Takes(y, c) /\ (Shows(y, c) => y = x)
         /\ \A x \in Requests : Undoing(x, c) =>
              \A y \in Requests : ~Takes(y, c) /\ (Undoing(y, c) => y = x)
         /\ \A x \in Requests : Takes(x, c) => \A y \in Requests : Takes(y, c) => y = x
<1>. USE RegistrationAssumption
<1>1. AtScript(c) => home[c] = None
  BY DEF AtScript, IInv, IssuedInv
<1>2. \A x \in Requests : Shows(x, c) => home[c] = x /\ c \notin retired /\ \A s \in Requests : ~Consuming(s, c)
  BY DEF Shows, IInv, PlaceInv, ShownInv
<1>3. \A x \in Requests : Undoing(x, c) => home[c] # None /\ c \in retired /\ \A y \in Requests : Undoing(y, c) => y = x
  BY DEF Undoing, IInv, TaskInv, TaskOK, CodeInv, HandsInv, Id
<1>4. \A x \in Requests : Takes(x, c) => Consuming(x, c)
  BY DEF Takes, Consuming
<1>5. \A x \in Requests : Consuming(x, c) =>
        home[c] # None /\ c \notin retired /\ \A y \in Requests : Consuming(y, c) => y = x
  BY DEF IInv, PlaceInv, ConsumedInv, Id
<1>. QED
  BY <1>1, <1>2, <1>3, <1>4, <1>5

\* The digits of a code change only while its request draws or gives up.
CodesKept(r) == \A x \in Requests :
  \/ codes'[x] = codes[x]
  \/ codes[x] \in Code /\ codes'[x] \in Code /\ codes'[x].digits = codes[x].digits
  \/ x = r /\ task[r].kind \in Issuing /\ task[r].step \in {"draw", "drop"}

\* What every step of a request does to codes.
Steps(r) ==
  /\ \A x \in Requests : x # r => task'[x] = task[x]
  /\ task[r].step = "done" => task'[r].step = "done"
  /\ \A x \in Requests : home[x] # None => home'[x] # None
  /\ expired' = expired
  /\ CodesKept(r)

\* Expired codes stay as they were, and no digits become fresh again.
LEMMA FreshBack ==
  ASSUME IInv, CodeInv, NEW r \in Requests, Steps(r)
  PROVE  ExpiredInv' /\ \A d : Fresh(d)' <=> Fresh(d)
<1>1. \A x \in expired : x \in Requests /\ codes'[x] \in Code /\ codes'[x].digits = codes[x].digits
  BY NotYet DEF Steps, CodesKept, CodeInv, ExpiredInv, IInv, TypeOK
<1>2. ExpiredInv'
  BY <1>1 DEF Steps, CodeInv, ExpiredInv
<1>3. \A d : Fresh(d)' <=> Fresh(d)
  BY <1>1 DEF Steps, Fresh
<1>. QED
  BY <1>2, <1>3

\* A request that neither begins nor ends to hold a code.
Calm(r) ==
  /\ UNCHANGED <<codes, lookup, expired, attempts, index, home, retired>>
  /\ \A x \in Requests : x # r => task'[x] = task[x]
  /\ task[r].step = "done" => task'[r].step = "done"
  /\ task[r].step \notin {"read", "mark", "unlook"} /\ task'[r].step \notin {"read", "mark", "unlook"}
  /\ task'[r].kind \in Issuing => task'[r].step \notin {"lookup", "script"}
  /\ task'[r].kind = "session" => task'[r].step # "getdel"
  /\ task'[r].step \in {"readCode", "spend"} =>
       task[r].step \in {"readCode", "spend"} /\ task'[r].got = task[r].got /\ task'[r].old = task[r].old

\* Such a step keeps the ways to the codes in use.
LEMMA CodeCalm ==
  ASSUME IInv, CodeInv, NEW r \in Requests, Calm(r)
  PROVE  CodeInv'
<1>1. ExpiredInv' /\ \A d : Fresh(d)' <=> Fresh(d)
  BY FreshBack DEF Calm, Steps, CodesKept
<1>2. /\ \A x, c \in Requests : (Shows(x, c)' <=> Shows(x, c)) /\ (Takes(x, c)' => Takes(x, c))
      /\ \A x \in Requests, c \in Id : Undoing(x, c)' <=> Undoing(x, c)
      /\ \A c \in Requests : AtScript(c)' => AtScript(c)
  BY DEF Calm, Shows, Takes, Undoing, AtScript
<1>3. \A c \in Requests : InUse(c)' => InUse(c)
  BY <1>2 DEF InUse, Id
<1>4. DigitsInv'
  BY DEF CodeInv, DigitsInv, Calm
<1>5. HandsInv'
  <2>1. \A x \in Requests : task'[x].step \in {"readCode", "spend"} =>
          /\ task[x].step \in {"readCode", "spend"}
          /\ task'[x].got = task[x].got /\ task'[x].old = task[x].old
    BY DEF Calm
  <2>2. \A x \in Requests : task'[x].step \in {"readCode", "spend"} /\ Fresh(codes[task[x].got].digits)
           => task'[x].got = task'[x].old
    BY <2>1 DEF CodeInv, HandsInv
  <2>3. (\A x \in Requests : task[x].step \in {"readCode", "spend"} /\ Fresh(codes[task[x].got].digits)
           => task[x].got = task[x].old)'
    BY <1>1, <2>1, <2>2 DEF Calm
  <2>. QED
    BY <1>2, <2>3 DEF CodeInv, HandsInv, Calm
<1>6. LookupInv'
  BY <1>1, <1>2, <1>3 DEF CodeInv, LookupInv, LookupOK, Calm, Id
<1>7. IndexInv'
  BY <1>1, <1>2 DEF CodeInv, IndexInv, Calm
<1>. QED
  BY <1>1, <1>4, <1>5, <1>6, <1>7 DEF CodeInv

\* Digits are drawn for a code that nobody has seen.
LEMMA CodeDraw ==
  ASSUME IInv, CodeInv, NEW r \in Requests, DrawCode(r)
  PROVE  CodeInv'
<1>. USE RegistrationAssumption DEF At, attemptVars
<1>0. TypeOK /\ task[r].kind \in Issuing /\ task[r].step = "draw"
  BY DEF IInv, DrawCode
<1>1. PICK d \in Digits :
        /\ codes' = [codes EXCEPT ![r] = [digits |-> d, used |-> FALSE]]
        /\ task' = [task EXCEPT ![r] =
             [task[r] EXCEPT !.digits = d, !.tries = task[r].tries + 1, !.step = "lookup"]]
  BY DEF DrawCode
<1>2. /\ \A x \in Requests : x # r => task'[x] = task[x] /\ codes'[x] = codes[x]
      /\ task'[r].kind = task[r].kind /\ task'[r].step = "lookup" /\ task'[r].digits = d
      /\ codes'[r].digits = d /\ codes'[r].used = FALSE
      /\ UNCHANGED <<lookup, expired, attempts, index, home, retired>>
  BY <1>0, <1>1 DEF TypeOK, Task, DrawCode
<1>3. ExpiredInv' /\ \A e : Fresh(e)' <=> Fresh(e)
  BY <1>0, <1>2, FreshBack DEF Steps, CodesKept
<1>4. /\ home[r] = None /\ \A e \in Digits : lookup[e] # r
      /\ \A x \in Requests : ~Shows(x, r) /\ ~Undoing(x, r) /\ ~Takes(x, r)
      /\ \A q \in Requests : task[q].step \in {"readCode", "spend"} => task[q].got # r
  BY <1>0, NotYet
<1>5. /\ \A x, c \in Requests : (Shows(x, c)' <=> Shows(x, c)) /\ (Takes(x, c)' <=> Takes(x, c))
      /\ \A x \in Requests, c \in Id : Undoing(x, c)' <=> Undoing(x, c)
      /\ \A c \in Requests : AtScript(c)' <=> AtScript(c)
  BY <1>0, <1>2 DEF Shows, Takes, Undoing, AtScript
<1>6. \A c \in Requests : InUse(c)' => InUse(c) /\ c # r
  BY <1>2, <1>4, <1>5 DEF InUse, Id, AtScript
<1>7. DigitsInv'
  <2>1. \A q \in Requests : task[q].kind = "session" /\ task[q].step = "getdel" => task[q].old # r /\ task[q].old \in Requests
    BY <1>4 DEF Takes, IInv, PlaceInv, ConsumedInv, Consuming, TypeOK, Task, Id
  <2>2. \A e \in Digits : lookup[e] # None => lookup[e] \in Requests \ {r}
    BY <1>0, <1>4 DEF TypeOK, Id
  <2>. QED
    BY <1>0, <1>2, <2>1, <2>2 DEF CodeInv, DigitsInv, Issuing
<1>8. HandsInv'
  <2>1. \A q \in Requests : task'[q].step \in {"readCode", "spend"} =>
           q # r /\ codes'[task[q].got] = codes[task[q].got]
    BY <1>2, <1>4 DEF IInv, TaskInv, TaskOK, Issued
  <2>2. (\A x \in Requests : task[x].step \in {"readCode", "spend"} /\ Fresh(codes[task[x].got].digits)
           => task[x].got = task[x].old)'
    BY <1>2, <1>3, <2>1 DEF CodeInv, HandsInv
  <2>. QED
    BY <1>2, <1>5, <2>2 DEF CodeInv, HandsInv
<1>9. LookupInv'
  BY <1>2, <1>3, <1>5, <1>6 DEF CodeInv, LookupInv, LookupOK, Id
<1>10. IndexInv'
  <2>1. \A a, c \in Requests : Shows(a, c) => codes'[c] = codes[c]
    BY <1>2, <1>4
  <2>. QED
    BY <1>2, <1>3, <1>5, <2>1 DEF CodeInv, IndexInv
<1>. QED
  BY <1>3, <1>7, <1>8, <1>9, <1>10 DEF CodeInv

\* The lookup key is set only where there is none, so it leads to one code at a time.
LEMMA CodeLookup ==
  ASSUME IInv, CodeInv, NEW r \in Requests, SetLookup(r)
  PROVE  CodeInv'
<1>. USE RegistrationAssumption DEF At, attemptVars
<1>. DEFINE d == task[r].digits
<1>0. TypeOK /\ task[r].kind \in Issuing /\ task[r].step = "lookup"
  BY DEF IInv, SetLookup
<1>1. /\ UNCHANGED <<codes, expired, attempts, index, home, retired>>
      /\ \A x \in Requests : x # r => task'[x] = task[x]
      /\ task'[r].kind = task[r].kind /\ task'[r].digits = d
      /\ \/ task'[r].step = "drop" /\ lookup' = lookup
         \/ task'[r].step = "script" /\ lookup[d] = None /\ lookup' = [lookup EXCEPT ![d] = r]
  BY <1>0, GoMoves DEF SetLookup, Moved, Step
<1>2. ExpiredInv' /\ \A e : Fresh(e)' <=> Fresh(e)
  BY <1>0, <1>1, FreshBack DEF Steps, CodesKept
<1>3. \A x \in Requests : ~Shows(x, r) /\ ~Undoing(x, r) /\ ~Takes(x, r)
  BY <1>0, NotYet
<1>4. /\ \A x, c \in Requests : (Shows(x, c)' <=> Shows(x, c)) /\ (Takes(x, c)' <=> Takes(x, c))
      /\ \A x \in Requests, c \in Id : Undoing(x, c)' <=> Undoing(x, c)
      /\ \A c \in Requests : c # r => (AtScript(c)' <=> AtScript(c))
  BY <1>0, <1>1 DEF Shows, Takes, Undoing, AtScript
<1>5. codes[r].digits = d /\ ~codes[r].used
  BY <1>0 DEF CodeInv, DigitsInv
<1>6. d \in Digits
  <2>1. codes[r] \in Code
    BY <1>0 DEF IInv, TaskInv, TaskOK
  <2>. QED
    BY <1>5, <2>1 DEF Code
<1>7. DigitsInv'
  BY <1>0, <1>1, <1>5, <1>6 DEF CodeInv, DigitsInv, TypeOK, Issuing
<1>8. HandsInv'
  <2>1. (\A x \in Requests : task[x].step \in {"readCode", "spend"} /\ Fresh(codes[task[x].got].digits)
           => task[x].got = task[x].old)'
    BY <1>1, <1>2 DEF CodeInv, HandsInv
  <2>. QED
    BY <1>1, <1>4, <2>1 DEF CodeInv, HandsInv
<1>9. LookupInv'
  <2>. SUFFICES ASSUME NEW c \in Requests, InUse(c)', Fresh(codes[c].digits)'
                PROVE  /\ lookup'[codes'[c].digits] = c
                       /\ codes'[c].used => \E x \in Requests : Undoing(x, c)'
    BY DEF LookupInv, LookupOK
  <2>1. Fresh(codes[c].digits)
    BY <1>1, <1>2
  <2>2. CASE c = r
    <3>1. task'[r].step = "script"
      BY <1>1, <1>3, <1>4, <2>2 DEF InUse, AtScript, Id
    <3>. QED
      BY <1>0, <1>1, <1>5, <1>6, <2>2, <3>1 DEF TypeOK
  <2>3. CASE c # r
    <3>1. InUse(c)
      BY <1>4, <2>3 DEF InUse, Id
    <3>2. lookup[codes[c].digits] = c /\ (codes[c].used => \E x \in Requests : Undoing(x, c))
      BY <2>1, <3>1 DEF CodeInv, LookupInv, LookupOK
    <3>3. lookup'[codes[c].digits] = c
      <4>1. codes[c].digits \in Digits
        BY <3>1, InUseIssued DEF Issued, Code
      <4>. QED
        BY <1>0, <1>1, <1>6, <2>3, <3>2, <4>1 DEF TypeOK
    <3>. QED
      BY <1>1, <1>4, <3>2, <3>3 DEF Id
  <2>. QED
    BY <2>2, <2>3
<1>10. IndexInv'
  BY <1>1, <1>2, <1>4 DEF CodeInv, IndexInv
<1>. QED
  BY <1>2, <1>7, <1>8, <1>9, <1>10 DEF CodeInv

\* A code that found its digits taken is forgotten.
LEMMA CodeDrop ==
  ASSUME IInv, CodeInv, NEW r \in Requests, DropCode(r)
  PROVE  CodeInv'
<1>. USE RegistrationAssumption DEF At, attemptVars
<1>0. TypeOK /\ task[r].kind \in Issuing /\ task[r].step = "drop"
  BY DEF IInv, DropCode
<1>1. /\ \A x \in Requests : x # r => task'[x] = task[x] /\ codes'[x] = codes[x]
      /\ task'[r].kind = task[r].kind /\ task'[r].step \in {"draw", "done"}
      /\ UNCHANGED <<lookup, expired, attempts, index, home, retired>>
  BY <1>0, GoMoves, EndMoves DEF DropCode, Moved, Step, TypeOK
<1>2. ExpiredInv' /\ \A e : Fresh(e)' <=> Fresh(e)
  BY <1>0, <1>1, FreshBack DEF Steps, CodesKept
<1>3. /\ home[r] = None /\ \A e \in Digits : lookup[e] # r
      /\ \A x \in Requests : ~Shows(x, r) /\ ~Undoing(x, r) /\ ~Takes(x, r)
      /\ \A q \in Requests : task[q].step \in {"readCode", "spend"} => task[q].got # r
  BY <1>0, NotYet
<1>4. /\ \A x, c \in Requests : (Shows(x, c)' <=> Shows(x, c)) /\ (Takes(x, c)' <=> Takes(x, c))
      /\ \A x \in Requests, c \in Id : Undoing(x, c)' <=> Undoing(x, c)
      /\ \A c \in Requests : AtScript(c)' <=> AtScript(c)
  BY <1>0, <1>1 DEF Shows, Takes, Undoing, AtScript
<1>5. \A c \in Requests : InUse(c)' => InUse(c) /\ c # r
  BY <1>0, <1>3, <1>4 DEF InUse, Id, AtScript
<1>6. DigitsInv'
  <2>1. \A q \in Requests : task[q].kind = "session" /\ task[q].step = "getdel" => task[q].old # r /\ task[q].old \in Requests
    BY <1>3 DEF Takes, IInv, PlaceInv, ConsumedInv, Consuming, TypeOK, Task, Id
  <2>2. \A e \in Digits : lookup[e] # None => lookup[e] \in Requests \ {r}
    BY <1>0, <1>3 DEF TypeOK, Id
  <2>. QED
    BY <1>0, <1>1, <2>1, <2>2 DEF CodeInv, DigitsInv, Issuing
<1>7. HandsInv'
  <2>1. \A q \in Requests : task'[q].step \in {"readCode", "spend"} =>
           q # r /\ codes'[task[q].got] = codes[task[q].got]
    BY <1>1, <1>3 DEF IInv, TaskInv, TaskOK, Issued
  <2>2. (\A x \in Requests : task[x].step \in {"readCode", "spend"} /\ Fresh(codes[task[x].got].digits)
           => task[x].got = task[x].old)'
    BY <1>1, <1>2, <2>1 DEF CodeInv, HandsInv
  <2>. QED
    BY <1>1, <1>4, <2>2 DEF CodeInv, HandsInv
<1>8. LookupInv'
  BY <1>1, <1>2, <1>4, <1>5 DEF CodeInv, LookupInv, LookupOK, Id
<1>9. IndexInv'
  <2>1. \A a, c \in Requests : Shows(a, c) => codes'[c] = codes[c]
    BY <1>1, <1>3
  <2>. QED
    BY <1>1, <1>2, <1>4, <2>1 DEF CodeInv, IndexInv
<1>. QED
  BY <1>2, <1>6, <1>7, <1>8, <1>9 DEF CodeInv

\* Invalidation: a code leaves use when it was found spent or over, or when its
\* lookup key goes; so long as its digits are fresh the key is its own.
LEMMA CodeUndo ==
  ASSUME IInv, CodeInv, NEW r \in Requests, ReadOld(r) \/ MarkOld(r) \/ DeleteLookup(r)
  PROVE  CodeInv'
<1>. USE RegistrationAssumption DEF At, attemptVars
<1>0. PICK o \in Requests :
        /\ TypeOK /\ task[r].step \in {"read", "mark", "unlook"}
        /\ o = task[r].old /\ home[o] # None /\ codes[o] \in Code
  BY DEF IInv, TaskInv, TaskOK, IssuedInv, Issued, ReadOld, MarkOld, DeleteLookup
<1>1. /\ UNCHANGED <<expired, attempts, index, home, retired>>
      /\ \A x \in Requests : x # r => task'[x] = task[x]
      /\ task'[r].kind = task[r].kind
      /\ \/ /\ task'[r].step \in {"mark", "unlook"} /\ task'[r].old = o /\ lookup' = lookup
            /\ codes' = codes \/ codes' = [codes EXCEPT ![o].used = TRUE]
         \/ /\ task'[r].step \in {"bind", "done"} /\ codes' = codes
            /\ lookup' = lookup \/ lookup' = [lookup EXCEPT ![codes[o].digits] = None]
  <2>1. CASE ReadOld(r)
    BY <1>0, <2>1, GoMoves, EndMoves DEF ReadOld, Onward, Moved, Step, codeVars
  <2>2. CASE MarkOld(r)
    BY <1>0, <2>2, GoMoves DEF MarkOld, Moved, Step
  <2>3. CASE DeleteLookup(r)
    BY <1>0, <2>3, GoMoves, EndMoves DEF DeleteLookup, Onward, Moved, Step
  <2>. QED
    BY <2>1, <2>2, <2>3
<1>2. /\ \A x \in Requests : x # o => codes'[x] = codes[x]
      /\ codes'[o] \in Code /\ codes'[o].digits = codes[o].digits
  <2>. DEFINE m == [codes[o] EXCEPT !.used = TRUE]
  <2>1. m \in Code /\ m.digits = codes[o].digits
    BY <1>0 DEF Code
  <2>2. codes' = codes \/ codes' = [codes EXCEPT ![o] = m]
    BY <1>1
  <2>. HIDE DEF m
  <2>. QED
    BY <1>0, <2>1, <2>2 DEF TypeOK
<1>3. ExpiredInv' /\ \A e : Fresh(e)' <=> Fresh(e)
  BY <1>0, <1>1, <1>2, FreshBack DEF Steps, CodesKept
<1>4. /\ \A x, c \in Requests : (Shows(x, c)' <=> Shows(x, c)) /\ (Takes(x, c)' => Takes(x, c))
      /\ \A x \in Requests, c \in Id : Undoing(x, c)' => Undoing(x, c)
      /\ \A x \in Requests, c \in Requests : c # o => (Undoing(x, c)' <=> Undoing(x, c))
      /\ \A c \in Requests : AtScript(c)' => AtScript(c)
  BY <1>0, <1>1 DEF Shows, Takes, Undoing, AtScript
<1>5. \A c \in Requests : InUse(c)' => InUse(c)
  BY <1>4 DEF InUse, Id
<1>6. InUse(o)' => Undoing(r, o)'
  <2>1. Undoing(r, o)
    BY <1>0 DEF Undoing
  <2>2. \A x \in Requests : ~Shows(x, o) /\ ~Takes(x, o) /\ (Undoing(x, o) => x = r)
    BY <1>0, <2>1, OneHand
  <2>3. ~AtScript(o)
    BY <1>0, <2>1, OneHand
  <2>. QED
    BY <1>0, <1>4, <2>2, <2>3 DEF InUse, Id
<1>a. /\ \A x \in Requests : codes'[x].digits = codes[x].digits
      /\ \A q \in Requests : task[q].step \in {"readCode", "spend"} => task[q].got \in Requests
      /\ \A q \in Requests : task[q].kind = "session" /\ task[q].step = "getdel" => task[q].old \in Requests
  BY <1>2 DEF IInv, TaskInv, TaskOK, Issued, PlaceInv, ConsumedInv, Consuming, TypeOK, Task
<1>7. DigitsInv'
  <2>1. (\A e \in Digits : lookup[e] # None => codes[lookup[e]].digits = e)'
    <3>1. \A e \in Digits : lookup'[e] # None => lookup'[e] = lookup[e] /\ lookup[e] \in Requests
      BY <1>0, <1>1 DEF TypeOK, Id
    <3>. QED
      BY <1>a, <3>1 DEF CodeInv, DigitsInv
  <2>2. \A x \in Requests : task'[x].kind \in Issuing /\ task'[x].step \in {"lookup", "script"} =>
           \/ x # r /\ x # o
           \/ task[x].step = "script"
    BY <1>0, <1>1 DEF IInv, IssuedInv, Issued, Past
  <2>3. \A x \in Requests : task'[x].kind \in Issuing /\ task'[x].step = "lookup" => x # r /\ x # o
    BY <1>0, <1>1 DEF IInv, IssuedInv, Issued, Past
  <2>. QED
    BY <1>1, <1>2, <1>a, <2>1, <2>2, <2>3 DEF CodeInv, DigitsInv, Issuing
<1>8. HandsInv'
  <2>1. (\A x \in Requests : task[x].step \in {"readCode", "spend"} /\ Fresh(codes[task[x].got].digits)
           => task[x].got = task[x].old)'
    <3>1. \A x \in Requests : task'[x].step \in {"readCode", "spend"} => task'[x] = task[x]
      BY <1>1
    <3>. QED
      BY <1>3, <1>a, <3>1 DEF CodeInv, HandsInv
  <2>. QED
    BY <1>1, <1>4, <2>1 DEF CodeInv, HandsInv
<1>9. LookupInv'
  <2>. SUFFICES ASSUME NEW c \in Requests, InUse(c)', Fresh(codes[c].digits)'
                PROVE  /\ lookup'[codes'[c].digits] = c
                       /\ codes'[c].used => \E x \in Requests : Undoing(x, c)'
    BY DEF LookupInv, LookupOK
  <2>1. codes'[c].digits = codes[c].digits /\ Fresh(codes[c].digits)
    BY <1>3, <1>a
  <2>2. lookup[codes[c].digits] = c /\ (codes[c].used => \E x \in Requests : Undoing(x, c))
    BY <1>5, <2>1 DEF CodeInv, LookupInv, LookupOK
  <2>3. CASE c = o
    <3>1. Undoing(r, o)'
      BY <1>6, <2>3
    <3>2. task'[r].step \in {"mark", "unlook"}
      BY <1>1, <3>1 DEF Undoing
    <3>. QED
      BY <1>1, <2>1, <2>2, <2>3, <3>1, <3>2
  <2>4. CASE c # o
    <3>1. codes[c].digits = codes[o].digits => lookup' = lookup
      <4>1. InUse(o)
        BY <1>0 DEF InUse, Undoing
      <4>2. Fresh(codes[o].digits) => lookup[codes[o].digits] = o
        BY <1>0, <4>1 DEF CodeInv, LookupInv, LookupOK
      <4>. QED
        BY <2>1, <2>2, <2>4, <4>2
    <3>2. lookup'[codes[c].digits] = c
      <4>1. codes[c].digits \in Digits
        BY <1>5, InUseIssued DEF Issued, Code
      <4>. QED
        BY <1>0, <1>1, <2>2, <3>1, <4>1 DEF TypeOK
    <3>. QED
      BY <1>2, <1>4, <2>1, <2>2, <2>4, <3>2
  <2>. QED
    BY <2>3, <2>4
<1>10. IndexInv'
  BY <1>1, <1>3, <1>4, <1>a DEF CodeInv, IndexInv
<1>. QED
  BY <1>3, <1>7, <1>8, <1>9, <1>10 DEF CodeInv

\* A script step of request r that takes code c from its attempt and, unless it only
\* closes, shows r's own code in attempt b.
Takeover(r, c, b) ==
  /\ task[r].kind \in Issuing \cup {"close"} /\ task[r].step = "script"
  /\ \A x \in Requests : x # r => task'[x] = task[x]
  /\ task'[r].kind = task[r].kind
  /\ task'[r].step \in {"done", "bind"} \/ (task'[r].step = "read" /\ task'[r].old = c /\ c # None)
  /\ UNCHANGED <<codes, lookup, expired>>
  /\ retired' = retired \cup ({c} \ {None})
  /\ \A x \in Requests : home[x] # None => home'[x] # None
  /\ c # None => \E e \in Requests : Shows(e, c)
  /\ \A a, x \in Requests : Shows(a, x)' =>
       (x = r /\ a = b /\ task[r].kind \in Issuing) \/ (Shows(a, x) /\ x # c)
  /\ \A a \in Requests : attempts'[a] # None /\ attempts'[a].closed => attempts'[a].code = None
  /\ \A e \in Digits : index'[e] =
       IF task[r].kind \in Issuing /\ e = task[r].digits THEN b
       ELSE IF c # None /\ e = codes[c].digits THEN None ELSE index[e]

\* Such a step keeps the ways to the codes in use: the index entry it deletes and the
\* one it writes are those of its two codes, if their digits are fresh.
LEMMA CodeTakeover ==
  ASSUME IInv, CodeInv, NEW r \in Requests, NEW c \in Id, NEW b \in Requests, Takeover(r, c, b)
  PROVE  CodeInv'
<1>. USE RegistrationAssumption
<1>1. ExpiredInv' /\ \A e : Fresh(e)' <=> Fresh(e)
  BY FreshBack DEF Takeover, Steps, CodesKept
<1>2. /\ \A x, k \in Requests : Takes(x, k)' <=> Takes(x, k)
      /\ \A x \in Requests, k \in Id : Undoing(x, k)' <=> Undoing(x, k) \/ (x = r /\ k = c /\ Undoing(r, c)')
      /\ \A k \in Requests : AtScript(k)' => AtScript(k)
      /\ Undoing(r, c)' => c # None
  BY DEF Takeover, Takes, Undoing, AtScript, Issuing
<1>3. AtScript(r) <=> task[r].kind \in Issuing
  BY DEF Takeover, AtScript
<1>4. \A k \in Requests : InUse(k)' => InUse(k)
  BY <1>2, <1>3 DEF InUse, Takeover, Id
<1>5. DigitsInv'
  BY DEF CodeInv, DigitsInv, Takeover, Issuing
<1>6. HandsInv'
  <2>1. (\A x \in Requests : task[x].step \in {"readCode", "spend"} /\ Fresh(codes[task[x].got].digits)
           => task[x].got = task[x].old)'
    <3>1. \A x \in Requests : task'[x].step \in {"readCode", "spend"} => task'[x] = task[x]
      BY DEF Takeover
    <3>. QED
      BY <1>1, <3>1 DEF CodeInv, HandsInv, Takeover
  <2>2. (\A x, q \in Requests, k \in Id : Undoing(x, k) => k \in retired /\ (Undoing(q, k) => q = x))'
    <3>1. c # None => \A x \in Requests : ~Undoing(x, c)
      BY OneHand DEF Takeover, Id
    <3>2. \A x, q \in Requests, k \in Id : Undoing(x, k) => k \in retired /\ (Undoing(q, k) => q = x)
      BY DEF CodeInv, HandsInv
    <3>3. retired' = retired \cup ({c} \ {None})
      BY DEF Takeover
    <3>. QED
      BY <1>2, <3>1, <3>2, <3>3
  <2>3. (\A a \in Requests : attempts[a] # None /\ attempts[a].closed => attempts[a].code = None)'
    BY DEF Takeover
  <2>. QED
    BY <2>1, <2>2, <2>3 DEF HandsInv
<1>7. LookupInv'
  BY <1>1, <1>2, <1>4 DEF CodeInv, LookupInv, LookupOK, Takeover, Id
<1>8. IndexInv'
  <2>. SUFFICES ASSUME NEW a \in Requests, NEW k \in Requests, Shows(a, k)', Fresh(codes[k].digits)'
                PROVE  index'[codes'[k].digits] = a
    BY DEF IndexInv
  <2>1. codes'[k] = codes[k] /\ Fresh(codes[k].digits)
    BY <1>1 DEF Takeover
  <2>2. task[r].kind \in Issuing => AtScript(r) /\ codes[r].digits = task[r].digits /\ InUse(r)
    BY <1>3 DEF CodeInv, DigitsInv, AtScript, InUse
  <2>3. CASE k = r /\ a = b /\ task[r].kind \in Issuing
    <3>1. codes[r].digits \in Digits
      BY <2>2, InUseIssued, <2>3 DEF Issued, Code
    <3>. QED
      BY <2>1, <2>2, <2>3, <3>1 DEF Takeover
  <2>4. CASE Shows(a, k) /\ k # c
    <3>1. InUse(k) /\ index[codes[k].digits] = a
      BY <2>1, <2>4 DEF InUse, CodeInv, IndexInv
    <3>2. lookup[codes[k].digits] = k /\ codes[k].digits \in Digits
      BY <2>1, <3>1, InUseIssued DEF CodeInv, LookupInv, LookupOK, Issued, Code
    <3>3. task[r].kind \in Issuing => codes[k].digits # task[r].digits
      <4>1. task[r].kind \in Issuing /\ codes[k].digits = task[r].digits => lookup[codes[k].digits] = r
        BY <2>1, <2>2 DEF CodeInv, LookupInv, LookupOK
      <4>. QED
        BY <2>2, <2>4, <3>2, <4>1, OneHand
    <3>4. c # None => codes[k].digits # codes[c].digits
      <4>1. c # None => c \in Requests /\ InUse(c)
        BY DEF Takeover, InUse, Id
      <4>. QED
        BY <2>1, <2>4, <3>2, <4>1 DEF CodeInv, LookupInv, LookupOK
    <3>. QED
      BY <2>1, <3>1, <3>2, <3>3, <3>4 DEF Takeover
  <2>. QED
    BY <2>3, <2>4 DEF Takeover
<1>. QED
  BY <1>1, <1>5, <1>6, <1>7, <1>8 DEF CodeInv

\* Opening, rotating and closing are such steps.
LEMMA CodeOpen ==
  ASSUME IInv, CodeInv, NEW r \in Requests, OpenAttempt(r)
  PROVE  CodeInv'
<1>. USE RegistrationAssumption DEF At, codeVars
<1>. DEFINE o == task[r].owner
            e == open[o]
            there == e # None /\ attempts[e] # None
            c == IF there THEN attempts[e].code ELSE None
            fresh == [owner |-> o, closed |-> FALSE, code |-> r]
            w == [attempts[e] EXCEPT !.closed = TRUE, !.code = None]
<1>0. TypeOK /\ TaskOK(r) /\ task[r].kind \in {"issue", "link"} /\ task[r].step = "script"
  BY DEF IInv, TaskInv, OpenAttempt
<1>1. o \in Owners /\ e \in Id /\ c \in Id /\ (there => e \in Requests /\ attempts[e] \in Attempt)
  BY <1>0 DEF TaskOK, Issuing, Closed, TypeOK, Attempt, Id
<1>2. /\ Retire(r, c) /\ UNCHANGED <<codes, lookup, expired>>
      /\ attempts' = IF there
                       THEN [attempts EXCEPT ![e] = w, ![r] = fresh]
                       ELSE [attempts EXCEPT ![r] = fresh]
      /\ home' = [home EXCEPT ![r] = r]
      /\ index' = [Unindexed(c) EXCEPT ![task[r].digits] = r]
  BY Zenon DEF OpenAttempt, codeVars
<1>3. c # None => there /\ Shows(e, c)
  BY DEF Shows
<1>4. fresh.code = r /\ ~fresh.closed /\ (there => w.code = None)
  BY <1>1, ClosedAttempt
<1>. HIDE DEF c, fresh, w, there, e
<1>5. \A a \in Requests :
        attempts'[a] = IF a = r THEN fresh ELSE IF there /\ a = e THEN w ELSE attempts[a]
  BY <1>0, <1>1, <1>2 DEF TypeOK
<1>6. ASSUME NEW a \in Requests, NEW x \in Requests, Shows(a, x)'
      PROVE  (x = r /\ a = r) \/ (Shows(a, x) /\ x # c)
  <2>1. CASE a = r
    BY <1>4, <1>5, <1>6, <2>1 DEF Shows
  <2>2. CASE a # r
    <3>1. Shows(a, x) /\ ~(there /\ a = e)
      BY <1>4, <1>5, <1>6, <2>2 DEF Shows
    <3>2. c # None => \A y \in Requests : Shows(y, c) => y = e
      BY <1>1, <1>3, OneHand DEF Id
    <3>. QED
      BY <1>3, <3>1, <3>2
  <2>. QED
    BY <2>1, <2>2
<1>7. \A a \in Requests : attempts'[a] # None /\ attempts'[a].closed => attempts'[a].code = None
  BY <1>4, <1>5 DEF CodeInv, HandsInv
<1>8. \A y \in Digits : index'[y] =
        IF y = task[r].digits THEN r
        ELSE IF c # None /\ y = codes[c].digits THEN None ELSE index[y]
  BY <1>2 DEF Unindexed
<1>9. /\ \A x \in Requests : x # r => task'[x] = task[x]
      /\ task'[r].kind = task[r].kind
      /\ task'[r].step \in {"done", "bind"} \/ (task'[r].step = "read" /\ task'[r].old = c /\ c # None)
  BY <1>0, <1>1, <1>2, Retires
<1>10. \A x \in Requests : home[x] # None => home'[x] # None
  BY <1>0, <1>2 DEF TypeOK
<1>11. retired' = retired \cup ({c} \ {None})
  BY <1>2 DEF Retire
<1>12. c # None => \E y \in Requests : Shows(y, c)
  BY <1>1, <1>3
<1>13. Takeover(r, c, r)
  <2>1. task[r].kind \in Issuing /\ task[r].step = "script"
    BY <1>0 DEF Issuing
  <2>2. \A a, x \in Requests : Shows(a, x)' =>
          (x = r /\ a = r /\ task[r].kind \in Issuing) \/ (Shows(a, x) /\ x # c)
    BY <1>6, <2>1
  <2>3. \A y \in Digits : index'[y] =
          IF task[r].kind \in Issuing /\ y = task[r].digits THEN r
          ELSE IF c # None /\ y = codes[c].digits THEN None ELSE index[y]
    BY <1>8, <2>1
  <2>4. UNCHANGED <<codes, lookup, expired>>
    BY <1>2
  <2>. QED
    BY <1>7, <1>9, <1>10, <1>11, <1>12, <2>1, <2>2, <2>3, <2>4 DEF Takeover
<1>. QED
  BY <1>1, <1>13, CodeTakeover

\* Rotating an attempt's code is such a step.
LEMMA CodeRotate ==
  ASSUME IInv, CodeInv, NEW r \in Requests, RotateCode(r)
  PROVE  CodeInv'
<1>. USE RegistrationAssumption DEF At, codeVars
<1>. DEFINE a == task[r].on
            c == attempts[a].code
            v == [attempts[a] EXCEPT !.code = r]
<1>0. TypeOK /\ TaskOK(r) /\ task[r].kind = "rotate" /\ task[r].step = "script"
  BY DEF IInv, TaskInv, RotateCode
<1>1. a \in Requests /\ attempts[a] \in Attempt /\ c \in Id /\ ~attempts[a].closed /\ attempts[a] # None
  <2>1. a \in Requests
    BY <1>0 DEF TaskOK, Issuing, Closed
  <2>2. attempts[a] \in Attempt /\ ~attempts[a].closed /\ attempts[a] # None
    BY <1>0, <2>1 DEF RotateCode, Rotatable, TypeOK
  <2>. QED
    BY <2>1, <2>2 DEF Attempt
<1>2. /\ Retire(r, c) /\ UNCHANGED <<codes, lookup, expired>>
      /\ attempts' = [attempts EXCEPT ![a] = v]
      /\ home' = [home EXCEPT ![r] = a]
      /\ index' = [Unindexed(c) EXCEPT ![task[r].digits] = a]
  BY <1>0, <1>1 DEF RotateCode, TypeOK
<1>3. v.code = r /\ ~v.closed
  BY <1>1 DEF Attempt
<1>4. c # None => Shows(a, c)
  BY <1>1 DEF Shows
<1>. HIDE DEF v, c, a
<1>5. \A x \in Requests : attempts'[x] = IF x = a THEN v ELSE attempts[x]
  BY <1>0, <1>1, <1>2 DEF TypeOK
<1>6. ASSUME NEW y \in Requests, NEW x \in Requests, Shows(y, x)'
      PROVE  (x = r /\ y = a) \/ (Shows(y, x) /\ x # c)
  <2>1. CASE y = a
    BY <1>3, <1>5, <1>6, <2>1 DEF Shows
  <2>2. CASE y # a
    <3>1. Shows(y, x)
      BY <1>5, <1>6, <2>2 DEF Shows
    <3>2. c # None => \A z \in Requests : Shows(z, c) => z = a
      BY <1>1, <1>4, OneHand DEF Id
    <3>. QED
      BY <2>2, <3>1, <3>2
  <2>. QED
    BY <2>1, <2>2
<1>7. \A x \in Requests : attempts'[x] # None /\ attempts'[x].closed => attempts'[x].code = None
  BY <1>3, <1>5 DEF CodeInv, HandsInv
<1>8. \A y \in Digits : index'[y] =
        IF y = task[r].digits THEN a
        ELSE IF c # None /\ y = codes[c].digits THEN None ELSE index[y]
  BY <1>2 DEF Unindexed
<1>9. /\ \A x \in Requests : x # r => task'[x] = task[x]
      /\ task'[r].kind = task[r].kind
      /\ task'[r].step \in {"done", "bind"} \/ (task'[r].step = "read" /\ task'[r].old = c /\ c # None)
  BY <1>0, <1>1, <1>2, Retires
<1>10. \A x \in Requests : home[x] # None => home'[x] # None
  BY <1>0, <1>1, <1>2 DEF TypeOK
<1>11. retired' = retired \cup ({c} \ {None})
  BY <1>2 DEF Retire
<1>13. Takeover(r, c, a)
  BY <1>0, <1>1, <1>2, <1>4, <1>6, <1>7, <1>8, <1>9, <1>10, <1>11 DEF Takeover, Issuing
<1>. QED
  BY <1>1, <1>13, CodeTakeover

\* Closing an attempt is such a step.
LEMMA CodeClose ==
  ASSUME IInv, CodeInv, NEW r \in Requests, CloseScript(r), Rotatable(task[r].on, task[r].owner)
  PROVE  CodeInv'
<1>. USE RegistrationAssumption DEF At, codeVars
<1>. DEFINE a == task[r].on
            c == attempts[a].code
            v == [attempts[a] EXCEPT !.closed = TRUE, !.code = None]
<1>0. TypeOK /\ TaskOK(r) /\ task[r].kind = "close" /\ task[r].step = "script"
  BY DEF IInv, TaskInv, CloseScript
<1>1. a \in Requests /\ attempts[a] \in Attempt /\ c \in Id /\ attempts[a] # None
  <2>1. a \in Requests
    BY <1>0 DEF TaskOK, Issuing, Closed
  <2>2. attempts[a] \in Attempt /\ attempts[a] # None
    BY <1>0, <2>1 DEF Rotatable, TypeOK
  <2>. QED
    BY <2>1, <2>2 DEF Attempt
<1>2. /\ Retire(r, c) /\ UNCHANGED <<codes, lookup, expired, home>>
      /\ attempts' = [attempts EXCEPT ![a] = v]
      /\ index' = Unindexed(c)
  BY <1>0, <1>1 DEF CloseScript, TypeOK
<1>3. v.code = None
  BY <1>1, ClosedAttempt
<1>4. c # None => Shows(a, c)
  BY <1>1 DEF Shows
<1>. HIDE DEF v, c, a
<1>5. \A x \in Requests : attempts'[x] = IF x = a THEN v ELSE attempts[x]
  BY <1>0, <1>1, <1>2 DEF TypeOK
<1>6. ASSUME NEW y \in Requests, NEW x \in Requests, Shows(y, x)'
      PROVE  Shows(y, x) /\ x # c
  <2>1. y # a
    BY <1>3, <1>5, <1>6 DEF Shows
  <2>2. Shows(y, x)
    BY <1>5, <1>6, <2>1 DEF Shows
  <2>3. c # None => \A z \in Requests : Shows(z, c) => z = a
    BY <1>1, <1>4, OneHand DEF Id
  <2>. QED
    BY <2>1, <2>2, <2>3
<1>7. \A x \in Requests : attempts'[x] # None /\ attempts'[x].closed => attempts'[x].code = None
  BY <1>3, <1>5 DEF CodeInv, HandsInv
<1>8. \A y \in Digits : index'[y] = IF c # None /\ y = codes[c].digits THEN None ELSE index[y]
  BY <1>2 DEF Unindexed
<1>9. /\ \A x \in Requests : x # r => task'[x] = task[x]
      /\ task'[r].kind = task[r].kind
      /\ task'[r].step \in {"done", "bind"} \/ (task'[r].step = "read" /\ task'[r].old = c /\ c # None)
  BY <1>0, <1>1, <1>2, Retires
<1>11. retired' = retired \cup ({c} \ {None})
  BY <1>2 DEF Retire
<1>13. Takeover(r, c, a)
  BY <1>0, <1>1, <1>2, <1>4, <1>6, <1>7, <1>8, <1>9, <1>11 DEF Takeover, Issuing
<1>. QED
  BY <1>1, <1>13, CodeTakeover

\* A device takes the code from its attempt: if the index leads to an attempt that
\* shows a code of these digits, no other attempt loses its entry.
LEMMA CodeConsume ==
  ASSUME IInv, CodeInv, NEW r \in Requests, ConsumeIndex(r)
  PROVE  CodeInv'
<1>. USE RegistrationAssumption DEF At, codeVars
<1>0. /\ TypeOK /\ task[r].kind = "session" /\ task[r].step = "consume" /\ task[r] \in Task
      /\ task[r].digits \in Digits
  BY DEF IInv, TaskInv, TaskOK, Closed, TypeOK, ConsumeIndex
<1>1. PICK d \in Digits : d = task[r].digits
  BY <1>0
<1>2. PICK a \in Id : a = index[d]
  BY <1>0 DEF TypeOK
<1>3. PICK c : c = IF a = None \/ attempts[a] = None \/ attempts[a].closed THEN None ELSE attempts[a].code
  OBVIOUS
<1>. DEFINE shown == c # None /\ codes[c].digits = d
<1>4. /\ UNCHANGED <<codes, lookup, expired, open, home, retired>>
      /\ index' = IF c = None \/ shown THEN [index EXCEPT ![d] = None] ELSE index
      /\ attempts' = IF shown THEN [attempts EXCEPT ![a].code = None] ELSE attempts
      /\ IF shown /\ c \notin expired
           THEN task' = [task EXCEPT ![r].on = a, ![r].old = c, ![r].step = "getdel"]
           ELSE End(r)
  BY <1>1, <1>2, <1>3, Zenon DEF ConsumeIndex
<1>5. c # None => a \in Requests /\ Shows(a, c) /\ c \in Requests /\ attempts[a] \in Attempt
  BY <1>0, <1>2, <1>3 DEF Shows, TypeOK, Id, Attempt
<1>6. /\ \A x \in Requests : x # r => task'[x] = task[x]
      /\ task'[r].kind = "session"
      /\ \/ task'[r].step = "done"
         \/ /\ task'[r].step = "getdel" /\ task'[r].old = c /\ task'[r].digits = d
            /\ c # None /\ codes[c].digits = d
  <2>1. CASE End(r)
    BY <1>0, <2>1, EndMoves DEF Moved
  <2>2. CASE ~End(r)
    BY <1>0, <1>1, <1>4, <2>2 DEF TypeOK, Task
  <2>. QED
    BY <2>1, <2>2
<1>7. \A x \in Requests : attempts'[x] = attempts[x] \/ (x = a /\ attempts'[x].code = None /\ shown)
  BY <1>0, <1>4, <1>5 DEF TypeOK, Attempt
<1>8. shown => attempts'[a].code = None
  BY <1>0, <1>4, <1>5 DEF TypeOK, Attempt
<1>. HIDE DEF shown
<1>9. ExpiredInv' /\ \A e : Fresh(e)' <=> Fresh(e)
  BY <1>0, <1>4, <1>6, FreshBack DEF Steps, CodesKept
<1>10. /\ \A x, k \in Requests : Shows(x, k)' => Shows(x, k) /\ attempts'[x] = attempts[x]
       /\ \A x, k \in Requests : Takes(x, k)' => Takes(x, k) \/ (x = r /\ k = c /\ c # None)
       /\ \A x \in Requests, k \in Id : Undoing(x, k)' <=> Undoing(x, k)
       /\ \A k \in Requests : AtScript(k)' <=> AtScript(k)
  BY <1>0, <1>6, <1>7 DEF Shows, Takes, Undoing, AtScript, Issuing
<1>11. \A k \in Requests : InUse(k)' => InUse(k)
  BY <1>5, <1>10 DEF InUse, Id
<1>12. DigitsInv'
  BY <1>0, <1>4, <1>6 DEF CodeInv, DigitsInv, Issuing
<1>13. HandsInv'
  <2>1. (\A x \in Requests : task[x].step \in {"readCode", "spend"} /\ Fresh(codes[task[x].got].digits)
           => task[x].got = task[x].old)'
    <3>1. \A x \in Requests : task'[x].step \in {"readCode", "spend"} => task'[x] = task[x]
      BY <1>6
    <3>. QED
      BY <1>4, <1>9, <3>1 DEF CodeInv, HandsInv
  <2>2. (\A x \in Requests : attempts[x] # None /\ attempts[x].closed => attempts[x].code = None)'
    BY <1>7 DEF CodeInv, HandsInv
  <2>. QED
    BY <1>4, <1>10, <2>1, <2>2 DEF CodeInv, HandsInv
<1>14. LookupInv'
  BY <1>4, <1>9, <1>10, <1>11 DEF CodeInv, LookupInv, LookupOK, Id
<1>15. IndexInv'
  <2>. SUFFICES ASSUME NEW x \in Requests, NEW k \in Requests, Shows(x, k)', Fresh(codes[k].digits)'
                PROVE  index'[codes'[k].digits] = x
    BY DEF IndexInv
  <2>1. Shows(x, k) /\ codes'[k] = codes[k] /\ Fresh(codes[k].digits) /\ attempts'[x] = attempts[x]
    BY <1>4, <1>9, <1>10
  <2>2. index[codes[k].digits] = x /\ codes[k].digits \in Digits
    BY <2>1, InUseIssued DEF CodeInv, IndexInv, InUse, Issued, Code
  <2>3. CASE codes[k].digits = d
    <3>1. a = x /\ attempts[x] # None /\ attempts[x].code = k /\ ~attempts[x].closed
      BY <1>2, <2>1, <2>2, <2>3 DEF Shows, CodeInv, HandsInv
    <3>2. c = k
      BY <1>3, <3>1
    <3>3. shown
      BY <2>3, <3>2 DEF shown
    <3>. QED
      BY <1>8, <2>1, <3>1, <3>3
  <2>4. CASE codes[k].digits # d
    BY <1>0, <1>4, <2>1, <2>2, <2>4 DEF TypeOK
  <2>. QED
    BY <2>3, <2>4
<1>. QED
  BY <1>9, <1>12, <1>13, <1>14, <1>15 DEF CodeInv

\* The lookup key a device takes is that of the code it took from the attempt, if the
\* digits are fresh.
LEMMA CodeTake ==
  ASSUME IInv, CodeInv, NEW r \in Requests, TakeLookup(r)
  PROVE  CodeInv'
<1>. USE RegistrationAssumption DEF At, attemptVars
<1>0. /\ TypeOK /\ task[r].kind = "session" /\ task[r].step = "getdel" /\ task[r] \in Task
      /\ task[r].digits \in Digits
  BY DEF IInv, TaskInv, TaskOK, Closed, TypeOK, TakeLookup
<1>1. PICK d \in Digits : d = task[r].digits
  BY <1>0
<1>2. PICK c \in Id : c = lookup[d]
  BY <1>0 DEF TypeOK
<1>3. PICK o \in Id : o = task[r].old
  BY <1>0 DEF Task
<1>4. /\ UNCHANGED <<codes, expired, attempts, index, home, retired>>
      /\ lookup' = [lookup EXCEPT ![d] = None]
      /\ IF c = None THEN End(r)
                     ELSE task' = [task EXCEPT ![r].got = c, ![r].step = "readCode"]
  BY <1>1, <1>2, Zenon DEF TakeLookup
<1>5. /\ \A x \in Requests : x # r => task'[x] = task[x]
      /\ task'[r].kind = "session"
      /\ \/ task'[r].step = "done"
         \/ task'[r].step = "readCode" /\ task'[r].got = c /\ task'[r].old = o /\ c # None
  <2>1. CASE End(r)
    BY <1>0, <2>1, EndMoves DEF Moved
  <2>2. CASE ~End(r)
    BY <1>0, <1>3, <1>4, <2>2 DEF TypeOK, Task
  <2>. QED
    BY <2>1, <2>2
<1>6. ExpiredInv' /\ \A e : Fresh(e)' <=> Fresh(e)
  BY <1>0, <1>4, <1>5, FreshBack DEF Steps, CodesKept
<1>7. o \in Requests /\ Takes(r, o) /\ InUse(o) /\ codes[o].digits = d
  <2>1. Consuming(r, o) /\ Takes(r, o)
    BY <1>0, <1>3 DEF Consuming, Takes
  <2>2. o \in Requests
    BY <2>1 DEF IInv, PlaceInv, ConsumedInv
  <2>. QED
    BY <1>0, <1>1, <1>3, <2>1, <2>2 DEF InUse, CodeInv, DigitsInv
<1>8. Fresh(d) => c = o
  BY <1>2, <1>7 DEF CodeInv, LookupInv, LookupOK
<1>9. /\ \A x, k \in Requests : (Shows(x, k)' <=> Shows(x, k)) /\ (Takes(x, k)' => Takes(x, k) /\ x # r)
      /\ \A x \in Requests, k \in Id : Undoing(x, k)' <=> Undoing(x, k)
      /\ \A k \in Requests : AtScript(k)' <=> AtScript(k)
  BY <1>0, <1>4, <1>5 DEF Shows, Takes, Undoing, AtScript, Issuing
<1>10. \A k \in Requests : InUse(k)' => InUse(k) /\ k # o
  <2>1. /\ ~AtScript(o)
        /\ \A x \in Requests : ~Shows(x, o) /\ ~Undoing(x, o) /\ (Takes(x, o) => x = r)
    BY <1>7, OneHand
  <2>. QED
    BY <1>7, <1>9, <2>1 DEF InUse, Id
<1>11. DigitsInv'
  <2>1. \A e \in Digits : lookup'[e] # None => lookup'[e] = lookup[e]
    BY <1>0, <1>4 DEF TypeOK
  <2>. QED
    BY <1>0, <1>4, <1>5, <2>1 DEF CodeInv, DigitsInv, Issuing
<1>12. HandsInv'
  <2>1. (\A x \in Requests : task[x].step \in {"readCode", "spend"} /\ Fresh(codes[task[x].got].digits)
           => task[x].got = task[x].old)'
    <3>1. \A x \in Requests : task'[x].step \in {"readCode", "spend"} =>
             task'[x] = task[x] \/ (x = r /\ task'[r].got = c /\ task'[r].old = o /\ c # None)
      BY <1>5
    <3>2. c # None => codes[c].digits = d
      BY <1>2 DEF CodeInv, DigitsInv
    <3>. QED
      BY <1>4, <1>6, <1>8, <3>1, <3>2 DEF CodeInv, HandsInv
  <2>. QED
    BY <1>4, <1>9, <2>1 DEF CodeInv, HandsInv
<1>13. LookupInv'
  <2>. SUFFICES ASSUME NEW k \in Requests, InUse(k)', Fresh(codes[k].digits)'
                PROVE  /\ lookup'[codes'[k].digits] = k
                       /\ codes'[k].used => \E x \in Requests : Undoing(x, k)'
    BY DEF LookupInv, LookupOK
  <2>1. codes'[k] = codes[k] /\ Fresh(codes[k].digits) /\ InUse(k) /\ k # o
    BY <1>4, <1>6, <1>10
  <2>2. lookup[codes[k].digits] = k /\ (codes[k].used => \E x \in Requests : Undoing(x, k))
    BY <2>1 DEF CodeInv, LookupInv, LookupOK
  <2>3. codes[k].digits # d
    BY <1>2, <1>8, <2>1, <2>2
  <2>. QED
    BY <1>0, <1>4, <1>9, <2>1, <2>2, <2>3, InUseIssued DEF TypeOK, Id, Issued, Code
<1>14. IndexInv'
  BY <1>4, <1>6, <1>9 DEF CodeInv, IndexInv
<1>. QED
  BY <1>6, <1>11, <1>12, <1>13, <1>14 DEF CodeInv

\* The code a device spends is in no use but its own, if the digits are fresh.
LEMMA CodeSpend ==
  ASSUME IInv, CodeInv, NEW r \in Requests, SpendCode(r)
  PROVE  CodeInv'
<1>. USE RegistrationAssumption DEF At, attemptVars
<1>0. /\ TypeOK /\ task[r].kind = "session" /\ task[r].step = "spend"
  BY DEF IInv, SpendCode
<1>1. PICK g \in Requests : g = task[r].got /\ codes[g] \in Code
  BY <1>0 DEF IInv, TaskInv, TaskOK, Issued
<1>2. /\ UNCHANGED <<lookup, expired, attempts, index, home, retired>>
      /\ \A x \in Requests : x # r => task'[x] = task[x]
      /\ task'[r].kind = "session" /\ task'[r].step \in {"create", "done"}
  BY <1>0, GoMoves, EndMoves DEF SpendCode, Moved, Step
<1>3. /\ \A x \in Requests : x # g => codes'[x] = codes[x]
      /\ codes'[g] \in Code /\ codes'[g].digits = codes[g].digits
  <2>. DEFINE m == [codes[g] EXCEPT !.used = TRUE]
  <2>1. m \in Code /\ m.digits = codes[g].digits
    BY <1>1 DEF Code
  <2>2. codes' = [codes EXCEPT ![g] = m]
    BY <1>1 DEF SpendCode
  <2>. HIDE DEF m
  <2>. QED
    BY <1>0, <2>1, <2>2 DEF TypeOK
<1>4. ExpiredInv' /\ \A e : Fresh(e)' <=> Fresh(e)
  BY <1>0, <1>1, <1>2, <1>3, FreshBack DEF Steps, CodesKept
<1>5. /\ \A x, k \in Requests : (Shows(x, k)' <=> Shows(x, k)) /\ (Takes(x, k)' <=> Takes(x, k))
      /\ \A x \in Requests, k \in Id : Undoing(x, k)' <=> Undoing(x, k)
      /\ \A k \in Requests : AtScript(k)' <=> AtScript(k)
  BY <1>0, <1>2 DEF Shows, Takes, Undoing, AtScript, Issuing
<1>6. \A k \in Requests : InUse(k)' => InUse(k)
  BY <1>5 DEF InUse, Id
<1>7. Fresh(codes[g].digits) => ~InUse(g)
  <2>. SUFFICES ASSUME Fresh(codes[g].digits) PROVE ~InUse(g)
    OBVIOUS
  <2>1. g = task[r].old
    BY <1>0, <1>1 DEF CodeInv, HandsInv
  <2>2. Consuming(r, g)
    BY <1>0, <2>1 DEF Consuming
  <2>3. home[g] # None /\ g \notin retired /\ \A x \in Requests : Consuming(x, g) => x = r
    BY <2>2 DEF IInv, PlaceInv, ConsumedInv, Id
  <2>4. ~AtScript(g)
    BY <2>3 DEF AtScript, IInv, IssuedInv
  <2>5. \A x \in Requests : ~Shows(x, g)
    BY <2>2 DEF Shows, IInv, PlaceInv, ShownInv
  <2>6. \A x \in Requests : ~Undoing(x, g)
    BY <2>3 DEF CodeInv, HandsInv, Id
  <2>7. \A x \in Requests : ~Takes(x, g)
    BY <1>0, <2>3 DEF Takes, Consuming
  <2>. QED
    BY <2>4, <2>5, <2>6, <2>7 DEF InUse
<1>a. /\ \A x \in Requests : codes'[x].digits = codes[x].digits
      /\ \A q \in Requests : task[q].step \in {"readCode", "spend"} => task[q].got \in Requests
      /\ \A q \in Requests : task[q].kind = "session" /\ task[q].step = "getdel" => task[q].old \in Requests
      /\ \A e \in Digits : lookup[e] # None => lookup[e] \in Requests
  BY <1>0, <1>3 DEF IInv, TaskInv, TaskOK, Issued, PlaceInv, ConsumedInv, Consuming, TypeOK, Task, Id
<1>8. DigitsInv'
  <2>1. \A x \in Requests : task[x].kind \in Issuing /\ task[x].step = "lookup" => x # g
    BY <1>0, <1>1 DEF IInv, TaskInv, TaskOK, Issued, Past
  <2>. QED
    BY <1>0, <1>2, <1>3, <1>a, <2>1 DEF CodeInv, DigitsInv, Issuing
<1>9. HandsInv'
  <2>1. (\A x \in Requests : task[x].step \in {"readCode", "spend"} /\ Fresh(codes[task[x].got].digits)
           => task[x].got = task[x].old)'
    <3>1. \A x \in Requests : task'[x].step \in {"readCode", "spend"} => task'[x] = task[x]
      BY <1>2
    <3>. QED
      BY <1>4, <1>a, <3>1 DEF CodeInv, HandsInv
  <2>. QED
    BY <1>2, <1>5, <2>1 DEF CodeInv, HandsInv
<1>10. LookupInv'
  <2>. SUFFICES ASSUME NEW k \in Requests, InUse(k)', Fresh(codes[k].digits)'
                PROVE  /\ lookup'[codes'[k].digits] = k
                       /\ codes'[k].used => \E x \in Requests : Undoing(x, k)'
    BY DEF LookupInv, LookupOK
  <2>1. codes'[k].digits = codes[k].digits /\ Fresh(codes[k].digits) /\ InUse(k)
    BY <1>4, <1>6, <1>a
  <2>2. codes'[k] = codes[k]
    BY <1>3, <1>7, <2>1
  <2>. QED
    BY <1>2, <1>5, <2>1, <2>2 DEF CodeInv, LookupInv, LookupOK, Id
<1>11. IndexInv'
  BY <1>2, <1>4, <1>5, <1>a DEF CodeInv, IndexInv
<1>. QED
  BY <1>4, <1>8, <1>9, <1>10, <1>11 DEF CodeInv

\* Expiry takes keys away only of codes whose digits are no longer fresh.
LEMMA CodeTime ==
  ASSUME IInv, CodeInv, Expiry \/ UNCHANGED vars
  PROVE  CodeInv'
<1>. USE RegistrationAssumption DEF Lapse, codeVars, attemptVars, tokenVars, displayVars, boundVars
<1>0. TypeOK
  BY DEF IInv
<1>1. CASE UNCHANGED <<codes, lookup, expired, attempts, index, home, retired, task>>
  BY <1>1 DEF CodeInv, ExpiredInv, DigitsInv, HandsInv, LookupInv, LookupOK, IndexInv, Fresh, InUse, AtScript,
              Shows, Undoing, Takes
<1>2. ASSUME NEW a \in Requests, AttemptExpires(a) PROVE CodeInv'
  <2>1. /\ UNCHANGED <<codes, lookup, expired, index, home, retired, task>>
        /\ \A x \in Requests : attempts'[x] = attempts[x] \/ attempts'[x] = None
    BY <1>0, <1>2 DEF AttemptExpires, TypeOK
  <2>2. /\ \A x, k \in Requests : (Shows(x, k)' => Shows(x, k)) /\ (Takes(x, k)' <=> Takes(x, k))
        /\ \A x \in Requests, k \in Id : Undoing(x, k)' <=> Undoing(x, k)
        /\ \A k \in Requests : AtScript(k)' <=> AtScript(k)
        /\ \A e : Fresh(e)' <=> Fresh(e)
    BY <2>1 DEF Shows, Takes, Undoing, AtScript, Fresh
  <2>3. \A k \in Requests : InUse(k)' => InUse(k)
    BY <2>2 DEF InUse, Id
  <2>4. ExpiredInv' /\ DigitsInv'
    BY <2>1 DEF CodeInv, ExpiredInv, DigitsInv
  <2>5. HandsInv'
    <3>1. (\A x \in Requests : task[x].step \in {"readCode", "spend"} /\ Fresh(codes[task[x].got].digits)
             => task[x].got = task[x].old)'
      BY <2>1, <2>2 DEF CodeInv, HandsInv
    <3>. QED
      BY <2>1, <2>2, <3>1 DEF CodeInv, HandsInv
  <2>6. LookupInv' /\ IndexInv'
    BY <2>1, <2>2, <2>3 DEF CodeInv, LookupInv, LookupOK, IndexInv, Id
  <2>. QED
    BY <2>4, <2>5, <2>6 DEF CodeInv
<1>3. ASSUME NEW c \in Requests, CodeExpires(c) PROVE CodeInv'
  <2>1. /\ UNCHANGED <<codes, attempts, home, retired, task>>
        /\ expired' = expired \cup {c} /\ codes[c] \in Code /\ (home[c] # None \/ task[c].step = "done")
        /\ \A d \in Digits : lookup'[d] = IF lookup[d] = c THEN None ELSE lookup[d]
        /\ \A d \in Digits : index'[d] =
             IF index[d] # None /\ attempts[index[d]] # None /\ attempts[index[d]].code = c
               THEN None ELSE index[d]
    BY <1>0, <1>3 DEF CodeExpires, TypeOK
  <2>2. /\ \A x, k \in Requests : (Shows(x, k)' <=> Shows(x, k)) /\ (Takes(x, k)' <=> Takes(x, k))
        /\ \A x \in Requests, k \in Id : Undoing(x, k)' <=> Undoing(x, k)
        /\ \A k \in Requests : (AtScript(k)' <=> AtScript(k)) /\ (InUse(k)' <=> InUse(k))
        /\ \A e : Fresh(e)' => Fresh(e) /\ codes[c].digits # e
    BY <2>1 DEF Shows, Takes, Undoing, AtScript, Fresh, InUse
  <2>3. ExpiredInv' /\ DigitsInv'
    BY <2>1 DEF CodeInv, ExpiredInv, DigitsInv
  <2>4. HandsInv'
    <3>1. (\A x \in Requests : task[x].step \in {"readCode", "spend"} /\ Fresh(codes[task[x].got].digits)
             => task[x].got = task[x].old)'
      BY <2>1, <2>2 DEF CodeInv, HandsInv
    <3>. QED
      BY <2>1, <2>2, <3>1 DEF CodeInv, HandsInv
  <2>a. \A k \in Requests : InUse(k) => codes[k].digits \in Digits
    BY InUseIssued DEF Issued, Code
  <2>5. LookupInv'
    <3>. SUFFICES ASSUME NEW k \in Requests, InUse(k)', Fresh(codes[k].digits)'
                  PROVE  /\ lookup'[codes'[k].digits] = k
                         /\ codes'[k].used => \E x \in Requests : Undoing(x, k)'
      BY DEF LookupInv, LookupOK
    <3>1. InUse(k) /\ codes'[k] = codes[k] /\ Fresh(codes[k].digits) /\ k # c
      BY <2>1, <2>2
    <3>2. lookup[codes[k].digits] = k /\ (codes[k].used => \E x \in Requests : Undoing(x, k))
      BY <3>1 DEF CodeInv, LookupInv, LookupOK
    <3>. QED
      BY <2>1, <2>2, <2>a, <3>1, <3>2 DEF Id
  <2>6. IndexInv'
    <3>. SUFFICES ASSUME NEW a \in Requests, NEW k \in Requests, Shows(a, k)', Fresh(codes[k].digits)'
                  PROVE  index'[codes'[k].digits] = a
      BY DEF IndexInv
    <3>1. Shows(a, k) /\ InUse(k) /\ codes'[k] = codes[k] /\ Fresh(codes[k].digits) /\ k # c
      BY <2>1, <2>2 DEF InUse
    <3>2. index[codes[k].digits] = a
      BY <3>1 DEF CodeInv, IndexInv
    <3>. QED
      BY <2>1, <2>a, <3>1, <3>2 DEF Shows
  <2>. QED
    BY <2>3, <2>4, <2>5, <2>6 DEF CodeInv
<1>4. UNCHANGED vars => UNCHANGED <<codes, lookup, expired, attempts, index, home, retired, task>>
  BY DEF vars
<1>5. ASSUME NEW x, TokenExpires(x) \/ BindingExpires(x) \/ OpenExpires(x)
      PROVE  UNCHANGED <<codes, lookup, expired, attempts, index, home, retired, task>>
  BY <1>5 DEF TokenExpires, BindingExpires, OpenExpires
<1>. QED
  BY <1>1, <1>2, <1>3, <1>4, <1>5 DEF Expiry

\* The other steps of a request neither begin nor end to hold a code.
LEMMA CodeOther ==
  ASSUME IInv, CodeInv, NEW r \in Requests,
         \/ Staff(r) \/ Device(r) \/ RotateRefused(r) \/ ReadCode(r) \/ WriteSession(r)
         \/ Bind(r) \/ WriteLink(r) \/ DisplayStep(r)
         \/ CloseScript(r) /\ ~Rotatable(task[r].on, task[r].owner)
  PROVE  CodeInv'
<1>. USE RegistrationAssumption DEF At, codeVars, attemptVars, tokenVars, displayVars, boundVars
<1>0. TypeOK
  BY DEF IInv
<1>1. CASE Staff(r) \/ Device(r)
  <2>1. PICK t : Begin(r, t) /\ Starts(t)
    BY <1>1, Arrives
  <2>2. task[r].step = "idle" /\ task'[r] = t /\ \A x \in Requests : x # r => task'[x] = task[x]
    BY <1>0, <2>1 DEF Begin, TypeOK
  <2>3. Calm(r)
    BY <2>1, <2>2 DEF Begin, Starts, Calm, Issuing
  <2>. QED
    BY <2>3, CodeCalm
<1>2. ASSUME NEW s \in {"spend", "bind", "link", "unique", "check", "insert", "draw", "complete", "key",
                       "notify", "undo", "revoke", "delete", "done"}, Moved(r, s),
             task[r].step \notin {"idle", "done", "read", "mark", "unlook"},
             s = "spend" => task[r].step = "readCode",
             UNCHANGED <<codes, lookup, expired, attempts, index, home, retired>>
      PROVE  CodeInv'
  <2>1. Calm(r)
    BY <1>2 DEF Calm, Moved
  <2>. QED
    BY <2>1, CodeCalm
<1>3. CASE RotateRefused(r)
  BY <1>0, <1>2, <1>3, EndMoves DEF RotateRefused
<1>4. CASE ReadCode(r)
  BY <1>0, <1>2, <1>4, GoMoves, EndMoves DEF ReadCode, Step
<1>5. CASE WriteSession(r)
  BY <1>0, <1>2, <1>5, GoMoves DEF WriteSession, Step
<1>6. CASE Bind(r)
  BY <1>0, <1>2, <1>6, GoMoves, EndMoves DEF Bind, Step
<1>7. CASE WriteLink(r)
  BY <1>0, <1>2, <1>7, EndMoves DEF WriteLink
<1>8. CASE CloseScript(r) /\ ~Rotatable(task[r].on, task[r].owner)
  BY <1>0, <1>2, <1>8, EndMoves DEF CloseScript
<1>9. CASE DisplayStep(r)
  <2>1. CASE FindSession(r) \/ CheckUnique(r) \/ RereadSession(r) \/ CompleteSession(r)
    BY <1>0, <1>2, <2>1, GoMoves, EndMoves DEF FindSession, CheckUnique, RereadSession, CompleteSession, Step
  <2>2. CASE InsertDisplay(r) \/ InsertKey(r) \/ KeyFails(r) \/ UndoDisplay(r) \/ Notify(r)
    BY <1>0, <1>2, <2>2, GoMoves, EndMoves DEF InsertDisplay, InsertKey, KeyFails, UndoDisplay, Notify, Step
  <2>3. CASE FindDisplay(r) \/ RevokeKey(r) \/ DeleteDisplay(r)
    BY <1>0, <1>2, <2>3, GoMoves, EndMoves DEF FindDisplay, RevokeKey, DeleteDisplay, Step
  <2>4. CASE ConsumeLink(r)
    <3>1. End(r) \/ \E c : task' = [task EXCEPT ![r].slug = c, ![r].step = "unique"]
      BY <2>4 DEF ConsumeLink
    <3>2. CASE End(r)
      BY <1>0, <1>2, <2>4, <3>2, EndMoves DEF ConsumeLink
    <3>3. CASE \E c : task' = [task EXCEPT ![r].slug = c, ![r].step = "unique"]
      <4>1. /\ \A x \in Requests : x # r => task'[x] = task[x]
            /\ task'[r].step = "unique"
        BY <1>0, <3>3 DEF TypeOK, Task
      <4>2. Calm(r)
        BY <2>4, <4>1 DEF ConsumeLink, Calm
      <4>. QED
        BY <4>2, CodeCalm
    <3>. QED
      BY <3>1, <3>2, <3>3
  <2>. QED
    BY <1>9, <2>1, <2>2, <2>3, <2>4 DEF DisplayStep
<1>. QED
  BY <1>1, <1>3, <1>4, <1>5, <1>6, <1>7, <1>8, <1>9

\* The code an attempt shows can be used by whoever types it, however codes of the
\* same digits are drawn, invalidated and consumed around it, so long as no expired
\* code read the same.
THEOREM RegistrationShownCode == Spec => []ShownCodeWorks
<1>1. Init => IInv /\ CodeInv
  <2>1. ASSUME Init PROVE CodeInv
    <3>1. /\ expired = {} /\ \A d \in Digits : lookup[d] = None
          /\ \A r \in Requests : attempts[r] = None /\ task[r].step = "idle"
      BY <2>1 DEF Init, Idle
    <3>2. \A c : (c \in Requests => ~AtScript(c)) /\ \A x \in Requests : ~Shows(x, c) /\ ~Undoing(x, c) /\ ~Takes(x, c)
      BY <3>1 DEF AtScript, Shows, Undoing, Takes
    <3>. QED
      BY <3>1, <3>2 DEF CodeInv, ExpiredInv, DigitsInv, HandsInv, LookupInv, LookupOK, IndexInv, InUse
  <2>. QED
    BY <2>1, InitInv
<1>2. IInv /\ CodeInv /\ [Next]_vars => IInv' /\ CodeInv'
  <2>. SUFFICES ASSUME IInv, CodeInv, [Next]_vars PROVE CodeInv'
    BY NextInv
  <2>1. ASSUME NEW r \in Requests, CodeStep(r) PROVE CodeInv'
    BY <2>1, CodeDraw, CodeLookup, CodeDrop, CodeUndo DEF CodeStep
  <2>2. ASSUME NEW r \in Requests, AttemptStep(r) PROVE CodeInv'
    BY <2>2, CodeOpen, CodeRotate, CodeClose, CodeOther DEF AttemptStep
  <2>3. ASSUME NEW r \in Requests, TokenStep(r) PROVE CodeInv'
    BY <2>3, CodeConsume, CodeTake, CodeSpend, CodeOther DEF TokenStep
  <2>4. ASSUME NEW r \in Requests, Staff(r) \/ Device(r) \/ DisplayStep(r) PROVE CodeInv'
    BY <2>4, CodeOther
  <2>. QED
    BY <2>1, <2>2, <2>3, <2>4, CodeTime DEF Next
<1>3. IInv /\ CodeInv => ShownCodeWorks
  <2>. SUFFICES ASSUME IInv, CodeInv, NEW a \in Requests, NEW c, c = attempts[a].code,
                       attempts[a] # None, c # None, Fresh(codes[c].digits)
                PROVE  index[codes[c].digits] = a /\ lookup[codes[c].digits] = c /\ ~codes[c].used
    BY DEF ShownCodeWorks, Fresh
  <2>1. c \in Requests /\ Shows(a, c) /\ InUse(c)
    BY DEF IInv, TypeOK, Attempt, Id, Shows, InUse
  <2>2. \A r \in Requests : ~Undoing(r, c)
    BY <2>1, OneHand
  <2>. QED
    BY <2>1, <2>2 DEF CodeInv, LookupInv, LookupOK, IndexInv
<1>. QED
  BY <1>1, <1>2, <1>3, PTL DEF Spec
=============================================================================
