------------------------------- MODULE Playback -------------------------------
(***************************************************************************)
(* What the displays play: the manifest a display fetches, put together    *)
(* from one read after the other, under the entity tag it was given last   *)
(* time; the emergency that goes before any schedule, with its slots; the  *)
(* changes made to all of this; and the notices that tell a display over   *)
(* its event stream to fetch again.                                        *)
(*                                                                         *)
(* A notice is sent after the change, by the request that made it, to the  *)
(* streams open at that moment.  Slots, uploads and the clock send none:   *)
(* every heartbeat of a display sends it a notice as well.  One playlist   *)
(* and one flash content are scheduled on every display.                   *)
(***************************************************************************)
EXTENDS Naturals, FiniteSets, FiniteSetsExt, Fleet

CONSTANTS Slots,
          Contents,    \* what a playlist or a slot can hold
          Flash,       \* the content of the flash schedule
          Requests     \* places for API requests: as many are served at a time

Kinds == {"PLAYLIST", "FLASH"}
Detail == [sum : Nat \ {0}, ready : BOOLEAN]
Manifest == [mode : {"EMERGENCY", "SCHEDULE"}, since : Nat, files : SUBSET (Contents \X Nat),
             flash : Nat, windows : Nat, nonce : Nat]

ASSUME PlaybackAssumption ==
  /\ None \notin Displays \cup Slots \cup Contents
  /\ None \notin Detail /\ None \notin Manifest
  /\ Flash \notin Contents \cup {None}
  /\ MaxChanges \in Nat /\ MaxFaults \in Nat

VARIABLES content,    \* content -> its checksum and whether it is READY, or None
          slots,      \* slot -> content, or None
          emergency,  \* the slot that is active, or None, and since when
          items,      \* the contents of the playlist
          schedule,   \* display -> revision of its windows, and which it is time for
          nonce,      \* display -> refreshes asked for
          stream,     \* the displays whose event stream is open
          told,       \* the displays with a notice not yet acted on
          fetch,      \* display -> what its manifest request has read
          held,       \* display -> the manifest it has, or None
          step,       \* what each API request does next
          task,       \* what each API request holds in memory
          changes, faults,
          missed,     \* history: displays that a notice did not reach
          undercut    \* history: slots changed under the emergency relying on them

vars == <<content, slots, emergency, items, schedule, nonce, stream, told, fetch, held,
          step, task, changes, faults, missed, undercut>>
library == <<content, slots, undercut>>
plans == <<emergency, items, schedule, nonce>>
displays == <<stream, told, fetch, held, missed>>
api == <<step, task>>

Renderable(c) == content[c] # None /\ content[c].ready
Playable(k) == slots[k] # None /\ Renderable(slots[k])

-----------------------------------------------------------------------------
(* The manifest                                                            *)

Unread == [at |-> "idle", left |-> {}, nonce |-> 0, windows |-> 0, due |-> {},
           emergency |-> [slot |-> None, since |-> 0], flash |-> 0, asset |-> None,
           items |-> {}, files |-> {}]

File(c) == <<c, content[c].sum>>

EmergencyManifest(f, file) ==
  [mode |-> "EMERGENCY", since |-> f.emergency.since, files |-> {file}, flash |-> 0,
   windows |-> f.windows, nonce |-> f.nonce]

ScheduleManifest(f) ==
  [mode |-> "SCHEDULE", since |-> 0, files |-> f.files, flash |-> f.flash,
   windows |-> f.windows, nonce |-> f.nonce]

\* Mutant: the version is made of the contents' ids, without their checksums.
Version_Ids(m) ==
  <<m.mode, m.since, {file[1] : file \in m.files}, m.flash, m.windows, m.nonce>>

\* The entity tag: a hash of everything a manifest says.
Version(m) == <<m.mode, m.since, m.files, m.flash, m.windows, m.nonce>>

Reading(d, at) == fetch[d].at = at
To(d, at, f) == fetch' = [fetch EXCEPT ![d] = [f EXCEPT !.at = at]]
ToSchedule(d, f) == To(d, IF "PLAYLIST" \in f.due THEN "items" ELSE "reply", f)
ToEmergency(d, f) == IF f.emergency.slot # None THEN To(d, "slot", f) ELSE ToSchedule(d, f)
End(d) == To(d, "idle", Unread)

\* The display acts on its notices: it asks for the manifest.
BeginFetch(d) ==
  /\ d \in told /\ Reading(d, "idle")
  /\ told' = told \ {d}
  /\ fetch' = [fetch EXCEPT ![d] = [Unread EXCEPT
       !.at = "read", !.left = {"display", "schedules", "control"}]]
  /\ UNCHANGED <<library, plans, stream, held, missed, api, changes, faults>>

\* Three reads at once, which end in any order.
Read(d) ==
  /\ Reading(d, "read")
  /\ \E what \in fetch[d].left :
       LET f == [fetch[d] EXCEPT !.left = @ \ {what}]
           g == CASE what = "display" -> [f EXCEPT !.nonce = nonce[d]]
                  [] what = "schedules" -> [f EXCEPT !.windows = schedule[d].windows,
                                                     !.due = schedule[d].due]
                  [] what = "control" -> [f EXCEPT !.emergency = emergency]
       IN  IF g.left # {} THEN To(d, "read", g)
           ELSE IF "FLASH" \in g.due THEN To(d, "flash", g)
           ELSE ToEmergency(d, g)
  /\ UNCHANGED <<library, plans, stream, told, held, missed, api, changes, faults>>

\* A flash that is not READY is left out.
ReadFlash(d) ==
  /\ Reading(d, "flash")
  /\ ToEmergency(d, [fetch[d] EXCEPT
       !.flash = IF Renderable(Flash) THEN content[Flash].sum ELSE 0])
  /\ UNCHANGED <<library, plans, stream, told, held, missed, api, changes, faults>>

\* Without a slot, without a content in it, or when the read fails, the schedule is
\* played although there is an emergency.
ReadSlot(d) ==
  LET f == fetch[d]
      k == f.emergency.slot
  IN  /\ Reading(d, "slot")
      /\ \/ /\ IF slots[k] = None THEN ToSchedule(d, f)
               ELSE To(d, "asset", [f EXCEPT !.asset = slots[k]])
            /\ UNCHANGED <<missed, faults>>
         \/ /\ faults < MaxFaults /\ faults' = faults + 1
            /\ missed' = missed \cup {d}
            /\ ToSchedule(d, f)
      /\ UNCHANGED <<library, plans, stream, told, held, api, changes>>

\* Keeps what the display has when the tag it sends is that of the answer.
Answer(d, m) ==
  /\ \/ held' = [held EXCEPT ![d] = m]
     \/ held[d] # None /\ Version(held[d]) = Version(m) /\ UNCHANGED held
  /\ End(d)

ReadAsset(d) ==
  LET f == fetch[d]
  IN  /\ Reading(d, "asset")
      /\ IF Renderable(f.asset)
         THEN Answer(d, EmergencyManifest(f, File(f.asset)))
         ELSE ToSchedule(d, f) /\ UNCHANGED held
      /\ UNCHANGED <<library, plans, stream, told, missed, api, changes, faults>>

ReadItems(d) ==
  /\ Reading(d, "items")
  /\ To(d, "contents", [fetch[d] EXCEPT !.items = items])
  /\ UNCHANGED <<library, plans, stream, told, held, missed, api, changes, faults>>

\* A content that was deleted since makes the request fail.
ReadContents(d) ==
  LET f == fetch[d]
  IN  /\ Reading(d, "contents")
      /\ IF \E c \in f.items : content[c] = None
         THEN End(d) /\ missed' = missed \cup {d}
         ELSE /\ To(d, "reply", [f EXCEPT !.items = {}, !.files = {File(c) : c \in f.items}])
              /\ UNCHANGED missed
      /\ UNCHANGED <<library, plans, stream, told, held, api, changes, faults>>

Reply(d) ==
  /\ Reading(d, "reply")
  /\ Answer(d, ScheduleManifest(fetch[d]))
  /\ UNCHANGED <<library, plans, stream, told, missed, api, changes, faults>>

-----------------------------------------------------------------------------
(* Notices                                                                 *)

\* Sent to the streams that are open; who has none misses it.
Publish(to) ==
  /\ told' = told \cup (to \cap stream)
  /\ missed' = (missed \ (to \cap stream)) \cup (to \ stream)

Connect(d) ==
  /\ d \notin stream /\ stream' = stream \cup {d}
  /\ UNCHANGED <<library, plans, told, fetch, held, missed, api, changes, faults>>

Disconnect(d) ==
  /\ faults < MaxFaults /\ faults' = faults + 1
  /\ d \in stream /\ stream' = stream \ {d}
  /\ UNCHANGED <<library, plans, told, fetch, held, missed, api, changes>>

\* Mutant: a heartbeat is only noted down.
Heartbeat_Quiet(d) == FALSE /\ UNCHANGED vars

Heartbeat(d) ==
  /\ d \in stream \ told
  /\ Publish({d})
  /\ UNCHANGED <<library, plans, stream, fetch, held, api, changes, faults>>

-----------------------------------------------------------------------------
(* Requests                                                                *)

NoTask == [slot |-> None, content |-> None, since |-> 0, to |-> {}]

Go(p, s, t) == step' = [step EXCEPT ![p] = s] /\ task' = [task EXCEPT ![p] = t]
Rest(p) == Go(p, "idle", NoTask)
Owe(p, to) == Go(p, "tell", [NoTask EXCEPT !.to = to])
Change == changes < MaxChanges /\ changes' = changes + 1
Begin(p) == step[p] = "idle" /\ Change

SetGlobalEmergency(k, at) == emergency' = [slot |-> k, since |-> at]

\* The last statement of a request that changes what is played.
Tell(p) ==
  /\ step[p] = "tell"
  /\ Publish(task[p].to)
  /\ Rest(p)
  /\ UNCHANGED <<library, plans, stream, fetch, held, changes, faults>>

\* The slot of the emergency, and those about to be.
Relied(k) ==
  \/ emergency.slot = k
  \/ \E p \in Requests : step[p] \in {"vet", "activate"} /\ task[p].slot = k

\* An emergency is dated before anything is looked at.
BeginActivate(p, k) ==
  /\ Begin(p)
  /\ IF slots[k] = None THEN Rest(p)
     ELSE Go(p, "vet", [NoTask EXCEPT !.slot = k, !.content = slots[k], !.since = changes + 1])
  /\ undercut' = IF Relied(k) THEN undercut ELSE undercut \ {k}
  /\ UNCHANGED <<content, slots, plans, displays, faults>>

\* Mutant: any slot can be activated.
VetEmergency_None(p) ==
  /\ step[p] = "vet"
  /\ Go(p, "activate", task[p])
  /\ UNCHANGED <<library, plans, displays, changes, faults>>

VetEmergency(p) ==
  /\ step[p] = "vet"
  /\ IF Renderable(task[p].content) THEN Go(p, "activate", task[p]) ELSE Rest(p)
  /\ UNCHANGED <<library, plans, displays, changes, faults>>

\* Mutant: the displays are told before it is so.
Activate_After(p) ==
  /\ step[p] = "activate"
  /\ IF task[p].to = {}
     THEN Publish(Displays) /\ Go(p, "activate", [task[p] EXCEPT !.to = Displays])
          /\ UNCHANGED emergency
     ELSE Rest(p) /\ UNCHANGED <<told, missed>>
          /\ SetGlobalEmergency(task[p].slot, task[p].since)
  /\ UNCHANGED <<library, items, schedule, nonce, stream, fetch, held, changes, faults>>

Activate(p) ==
  /\ step[p] = "activate"
  /\ SetGlobalEmergency(task[p].slot, task[p].since)
  /\ Owe(p, Displays)
  /\ UNCHANGED <<library, items, schedule, nonce, displays, changes, faults>>

Deactivate(p) ==
  /\ Begin(p)
  /\ SetGlobalEmergency(None, 0)
  /\ Owe(p, Displays)
  /\ UNCHANGED <<library, items, schedule, nonce, displays, faults>>

\* History: this step takes from a slot what an emergency relies on.
Undercut ==
  undercut' = undercut \cup
    {k \in Slots : Relied(k) /\ (slots'[k] # slots[k] \/ (Playable(k) /\ ~Playable(k)'))}

BeginFillSlot(p, k, c) ==
  /\ Begin(p)
  /\ IF Renderable(c) THEN Go(p, "fill", [NoTask EXCEPT !.slot = k, !.content = c])
     ELSE Rest(p)
  /\ UNCHANGED <<library, plans, displays, faults>>

\* No notice; a content deleted meanwhile cannot be referred to.
FillSlot(p) ==
  LET t == task[p]
  IN  /\ step[p] = "fill" /\ Rest(p)
      /\ slots' = IF content[t.content] = None THEN slots
                  ELSE [slots EXCEPT ![t.slot] = t.content]
      /\ UNCHANGED <<content, plans, displays, changes, faults>>
      /\ Undercut

ClearSlot(p, k) ==
  /\ Begin(p) /\ Rest(p)
  /\ slots' = [slots EXCEPT ![k] = None]
  /\ UNCHANGED <<content, plans, displays, faults>>
  /\ Undercut

\* PATCH /content/:id gives a text or a flash another checksum; of a flash the
\* displays are told.
EditContent(p, c) ==
  /\ Begin(p) /\ content[c] # None
  /\ content' = [content EXCEPT ![c].sum = @ + 1]
  /\ IF c = Flash THEN Owe(p, Displays) ELSE Rest(p)
  /\ UNCHANGED <<slots, undercut, plans, displays, faults>>

\* Another file: not READY until the worker has looked at it.
ReplaceFile(p, c) ==
  /\ Begin(p) /\ Rest(p)
  /\ c \notin items \cup {Flash} /\ Renderable(c)
  /\ content' = [content EXCEPT ![c] = [sum |-> @.sum + 1, ready |-> FALSE]]
  /\ UNCHANGED slots /\ Undercut
  /\ UNCHANGED <<plans, displays, faults>>

Ingested(c) ==
  /\ content[c] # None /\ ~content[c].ready
  /\ content' = [content EXCEPT ![c].ready = TRUE]
  /\ UNCHANGED slots /\ Undercut
  /\ UNCHANGED <<plans, displays, api, changes, faults>>

\* Mutant: what is on the playlist goes too.
DeleteContent_Used(p, c) ==
  /\ Begin(p) /\ Rest(p)
  /\ c # Flash
  /\ content' = [content EXCEPT ![c] = None]
  /\ slots' = [k \in Slots |-> IF slots[k] = c THEN None ELSE slots[k]]
  /\ Undercut
  /\ UNCHANGED <<plans, displays, faults>>

\* What is on the playlist stays; a slot is emptied by the foreign key.
DeleteContent(p, c) ==
  /\ Begin(p) /\ Rest(p)
  /\ c \notin items \cup {Flash}
  /\ content' = [content EXCEPT ![c] = None]
  /\ slots' = [k \in Slots |-> IF slots[k] = c THEN None ELSE slots[k]]
  /\ Undercut
  /\ UNCHANGED <<plans, displays, faults>>

SetItems(p, chosen) ==
  /\ Begin(p)
  /\ chosen # {} /\ \A c \in chosen : content[c] # None
  /\ items' = chosen
  /\ Owe(p, Displays)
  /\ UNCHANGED <<library, emergency, schedule, nonce, displays, faults>>

EditSchedule(p, d, due) ==
  /\ Begin(p) /\ Cardinality(SymDiff(due, schedule[d].due)) <= 1
  /\ schedule' = [schedule EXCEPT ![d] = [windows |-> @.windows + 1, due |-> due]]
  /\ Owe(p, {d})
  /\ UNCHANGED <<library, emergency, items, nonce, displays, faults>>

\* POST /displays/:id/refresh
RequestRefresh(p, d) ==
  /\ Begin(p)
  /\ nonce' = [nonce EXCEPT ![d] = @ + 1]
  /\ Owe(p, {d})
  /\ UNCHANGED <<library, emergency, items, schedule, displays, faults>>

\* It is time for something else.
Tick(d, due) ==
  /\ Change
  /\ Cardinality(SymDiff(due, schedule[d].due)) = 1
  /\ schedule' = [schedule EXCEPT ![d].due = due]
  /\ UNCHANGED <<library, emergency, items, nonce, displays, api, faults>>

\* The process stops with its requests and streams.
Restart ==
  /\ faults < MaxFaults /\ faults' = faults + 1
  /\ step' = [p \in Requests |-> "idle"]
  /\ task' = [p \in Requests |-> NoTask]
  /\ stream' = {} /\ missed' = Displays
  /\ fetch' = [d \in Displays |-> Unread]
  /\ UNCHANGED <<library, plans, told, held, changes>>

-----------------------------------------------------------------------------
Init ==
  /\ content = [c \in Contents \cup {Flash} |-> [sum |-> 1, ready |-> TRUE]]
  /\ items = {CHOOSE c \in Contents : TRUE}
  /\ \E c \in Contents \ items : slots = [k \in Slots |-> c]
  /\ emergency = [slot |-> None, since |-> 0]
  /\ schedule = [d \in Displays |-> [windows |-> 1, due |-> Kinds]]
  /\ nonce = [d \in Displays |-> 0]
  /\ stream = Displays /\ told = Displays
  /\ fetch = [d \in Displays |-> Unread] /\ held = [d \in Displays |-> None]
  /\ step = [p \in Requests |-> "idle"] /\ task = [p \in Requests |-> NoTask]
  /\ changes = 0 /\ faults = 0 /\ missed = {} /\ undercut = {}

Fetch(d) ==
  \/ BeginFetch(d) \/ Read(d) \/ ReadFlash(d) \/ ReadSlot(d) \/ ReadAsset(d)
  \/ ReadItems(d) \/ ReadContents(d) \/ Reply(d)

Ask(p) ==
  \/ \E k \in Slots :
       \/ BeginActivate(p, k) \/ ClearSlot(p, k)
       \/ \E c \in Contents : BeginFillSlot(p, k, c)
  \/ Deactivate(p)
  \/ \E c \in Contents \cup {Flash} : EditContent(p, c) \/ ReplaceFile(p, c) \/ DeleteContent(p, c)
  \/ \E chosen \in SUBSET Contents : SetItems(p, chosen)
  \/ \E d \in Displays : RequestRefresh(p, d) \/ \E due \in SUBSET Kinds : EditSchedule(p, d, due)

Serve(p) == VetEmergency(p) \/ Activate(p) \/ FillSlot(p) \/ Tell(p)

Next ==
  \/ \E d \in Displays :
       \/ Fetch(d) \/ Connect(d) \/ Disconnect(d) \/ Heartbeat(d)
       \/ \E due \in SUBSET Kinds : Tick(d, due)
  \/ \E p \in Requests : Ask(p) \/ Serve(p)
  \/ \E c \in Contents : Ingested(c)
  \/ Restart

\* A display opens its stream, sends its heartbeats and fetches when told to.
Fairness ==
  /\ \A d \in Displays : WF_vars(Fetch(d)) /\ WF_vars(Connect(d)) /\ WF_vars(Heartbeat(d))
  /\ \A p \in Requests : WF_vars(Serve(p))

Spec == Init /\ [][Next]_vars /\ Fairness

-----------------------------------------------------------------------------
(* Properties                                                              *)

\* The playlist holds contents that are there, and so do the slots.
TypeOK ==
  /\ \A c \in Contents \cup {Flash} :
       content[c] = None \/ content[c] \in Detail
  /\ items \subseteq {c \in Contents : content[c] # None}
  /\ \A k \in Slots : slots[k] = None \/ content[slots[k]] # None
  /\ emergency.slot \in Slots \cup {None}
  /\ (emergency.slot = None) = (emergency.since = 0)
  /\ stream \subseteq Displays /\ told \subseteq Displays

Answering(d) ==
  fetch[d].at \in {"asset", "reply"} /\ fetch'[d].at = "idle" /\ UNCHANGED faults

\* What a fresh manifest would say at this moment.
Due(d) ==
  LET f == [Unread EXCEPT
              !.nonce = nonce[d], !.windows = schedule[d].windows, !.emergency = emergency,
              !.flash = IF "FLASH" \in schedule[d].due /\ Renderable(Flash)
                        THEN content[Flash].sum ELSE 0,
              !.files = IF "PLAYLIST" \in schedule[d].due THEN {File(c) : c \in items} ELSE {}]
  IN  IF emergency.slot # None /\ Playable(emergency.slot)
      THEN EmergencyManifest(f, File(slots[emergency.slot]))
      ELSE ScheduleManifest(f)

\* A display that is answered "not modified" has the manifest it would have been
\* sent: the tag tells all manifests apart (matchesIfNoneMatch, computePlaylistVersion).
KeptIsExact ==
  [][\A d \in Displays : Answering(d) =>
       \/ fetch[d].at = "asset"
            /\ held'[d] = EmergencyManifest(fetch[d], File(fetch[d].asset))
       \/ fetch[d].at = "reply" /\ held'[d] = ScheduleManifest(fetch[d])]_vars

Caught(d) == d \in stream \ (told \cup missed) /\ Reading(d, "idle")
Owing(d) == \E p \in Requests : step[p] = "tell" /\ d \in task[p].to

\* Once its notice is out and acted on, a change that is announced is in what the
\* display has, without any heartbeat: an emergency begun or ended, a refresh, the
\* windows, the playlist's items and the flash's words.
AnnouncedIsSeen ==
  \A d \in Displays : Caught(d) /\ ~Owing(d) =>
    LET m == held[d]
    IN  /\ m # None /\ m.nonce = nonce[d] /\ m.windows = schedule[d].windows
        /\ m.mode = "EMERGENCY" => m.since = emergency.since
        /\ m.mode = "SCHEDULE" /\ m.files # {} => {file[1] : file \in m.files} = items
        /\ m.flash # 0 => m.flash = content[Flash].sum

\* An emergency with nothing to play had something when it was asked for: its slot
\* was changed or its content replaced or deleted since, which nothing forbids
\* (ActivateGlobalEmergencyUseCase, ClearEmergencySlotUseCase).
EmptyEmergencyWasUndercut ==
  emergency.slot # None => Playable(emergency.slot) \/ emergency.slot \in undercut

\* When changes come to an end every display has the manifest of the tables, the
\* changes nobody announces included.
InTheEndShown == <>[](\A d \in Displays : held[d] = Due(d))

\* The rows refer to what is there, and an emergency has something to play.
Inv == TypeOK /\ EmptyEmergencyWasUndercut
=============================================================================
