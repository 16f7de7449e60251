-------------------------- MODULE DisplayRuntimeProofs --------------------------
(***************************************************************************)
(* What displays play and what is known of them: theorems about Playback   *)
(* and about DisplayStatus, for any displays, requests, slots and contents *)
(* and any number of changes and failures.  The two share the displays and *)
(* nothing that changes.                                                   *)
(***************************************************************************)
EXTENDS Playback, DisplayStatus, TLAPS

(***************************************************************************)
(* What the rows, the requests and the displays hold.                      *)
(***************************************************************************)

Sources == {"display", "schedules", "control"}

FetchState ==
  [at : {"idle", "read", "flash", "slot", "asset", "items", "contents", "reply"},
   left : SUBSET Sources, nonce : Nat, windows : Nat, due : SUBSET Kinds,
   emergency : [slot : Slots \cup {None}, since : Nat], flash : Nat,
   asset : Contents \cup {None}, items : SUBSET Contents, files : SUBSET (Contents \X Nat)]

Task == [slot : Slots \cup {None}, content : Contents \cup {None}, since : Nat,
         to : SUBSET Displays]

RowsInv ==
  /\ content \in [Contents \cup {Flash} -> Detail \cup {None}]
  /\ slots \in [Slots -> Contents \cup {None}]
  /\ \A k \in Slots : slots[k] # None => content[slots[k]] # None
  /\ items \subseteq {c \in Contents : content[c] # None}
  /\ emergency \in [slot : Slots \cup {None}, since : Nat]
  /\ (emergency.slot = None) = (emergency.since = 0)
  /\ schedule \in [Displays -> [windows : Nat, due : SUBSET Kinds]]
  /\ nonce \in [Displays -> Nat]
  /\ changes \in Nat

\* A request for a slot has the slot and what was in it; its emergency is dated.
TasksInv ==
  /\ step \in [Requests -> {"idle", "vet", "activate", "fill", "tell"}]
  /\ task \in [Requests -> Task]
  /\ \A p \in Requests :
       /\ step[p] \in {"vet", "activate", "fill"} => task[p].slot # None
       /\ step[p] \in {"vet", "fill"} => task[p].content # None
       /\ step[p] \in {"vet", "activate"} => task[p].since # 0

DisplaysInv ==
  /\ stream \subseteq Displays /\ told \subseteq Displays /\ missed \subseteq Displays
  /\ held \in [Displays -> Manifest \cup {None}]

\* A manifest request that has begun with the reads that follow has done the first three.
FetchInv ==
  /\ fetch \in [Displays -> FetchState]
  /\ \A d \in Displays :
       /\ fetch[d].at \notin {"idle", "read"} => fetch[d].left = {}
       /\ fetch[d].at = "slot" => fetch[d].emergency.slot # None
       /\ fetch[d].at = "asset" => fetch[d].asset # None

TypeInv == RowsInv /\ TasksInv /\ DisplaysInv /\ FetchInv

-----------------------------------------------------------------------------
(* Types                                                                   *)

\* What a manifest request has before it reads.
LEMMA UnreadType == Unread \in FetchState /\ Unread.at = "idle"
<1> QED
  BY DEF Unread, FetchState

\* What a request holds before it begins.
LEMMA NoTaskType == NoTask \in Task
<1> QED
  BY DEF NoTask, Task

\* Going on with a manifest request.
LEMMA ToFacts ==
  ASSUME FetchInv, NEW d \in Displays, NEW f \in FetchState,
         NEW at \in {"flash", "slot", "asset", "items", "contents", "reply"}, To(d, at, f),
         f.left = {}, at = "slot" => f.emergency.slot # None, at = "asset" => f.asset # None
  PROVE  /\ FetchInv'
         /\ fetch'[d] = [f EXCEPT !.at = at]
         /\ \A e \in Displays \ {d} : fetch'[e] = fetch[e]
<1>1. [f EXCEPT !.at = at] \in FetchState
  BY DEF FetchState
<1>2. fetch' = [fetch EXCEPT ![d] = [f EXCEPT !.at = at]]
  BY DEF To
<1>3. fetch' \in [Displays -> FetchState]
  BY <1>1, <1>2 DEF FetchInv
<1>4. fetch'[d] = [f EXCEPT !.at = at] /\ \A e \in Displays \ {d} : fetch'[e] = fetch[e]
  BY <1>2 DEF FetchInv
<1>5. fetch'[d].at = at /\ fetch'[d].left = {} /\ fetch'[d].emergency = f.emergency
      /\ fetch'[d].asset = f.asset
  BY <1>4 DEF FetchState
<1> QED
  BY <1>3, <1>4, <1>5 DEF FetchInv

\* Where a manifest request is after the first reads and the flash.
Later == {"slot", "items", "reply"}

\* What follows the flash moves the request on and changes nothing it has read.
LEMMA ToEmergencyFacts ==
  ASSUME FetchInv, NEW d \in Displays, NEW f \in FetchState, f.left = {},
         ToEmergency(d, f) \/ ToSchedule(d, f)
  PROVE  /\ FetchInv'
         /\ \E at \in Later : fetch'[d] = [f EXCEPT !.at = at]
         /\ \A e \in Displays \ {d} : fetch'[e] = fetch[e]
<1>1. (To(d, "slot", f) /\ f.emergency.slot # None) \/ To(d, "items", f) \/ To(d, "reply", f)
  BY DEF ToEmergency, ToSchedule
<1>2. CASE To(d, "slot", f) /\ f.emergency.slot # None
  BY <1>2, ToFacts DEF Later
<1>3. CASE To(d, "items", f)
  BY <1>3, ToFacts DEF Later
<1>4. CASE To(d, "reply", f)
  BY <1>4, ToFacts DEF Later
<1> QED
  BY <1>1, <1>2, <1>3, <1>4

\* A request that ends.
LEMMA EndFacts ==
  ASSUME FetchInv, NEW d \in Displays, End(d)
  PROVE  /\ FetchInv'
         /\ fetch'[d].at = "idle" /\ fetch'[d] = Unread
         /\ \A e \in Displays \ {d} : fetch'[e] = fetch[e]
<1>1. [Unread EXCEPT !.at = "idle"] = Unread
  BY DEF Unread
<1>2. fetch' = [fetch EXCEPT ![d] = Unread]
  BY <1>1 DEF End, To
<1> QED
  BY <1>2, UnreadType DEF FetchInv

\* The manifests of a request are manifests.
LEMMA ManifestType ==
  ASSUME TypeInv, NEW d \in Displays
  PROVE  /\ ScheduleManifest(fetch[d]) \in Manifest
         /\ Reading(d, "asset") /\ Renderable(fetch[d].asset) =>
              EmergencyManifest(fetch[d], File(fetch[d].asset)) \in Manifest
<1>1. fetch[d] \in FetchState /\ fetch[d].emergency.since \in Nat
  BY DEF TypeInv, FetchInv, FetchState
<1>2. ScheduleManifest(fetch[d]) \in Manifest
  BY <1>1 DEF ScheduleManifest, Manifest, FetchState
<1>3. ASSUME Reading(d, "asset"), Renderable(fetch[d].asset)
      PROVE  EmergencyManifest(fetch[d], File(fetch[d].asset)) \in Manifest
  <2>1. fetch[d].asset \in Contents
    BY <1>1, <1>3 DEF Reading, TypeInv, FetchInv, FetchState
  <2>2. content[fetch[d].asset] \in Detail
    BY <2>1, <1>3 DEF Renderable, TypeInv, RowsInv
  <2>3. File(fetch[d].asset) \in Contents \X Nat
    BY <2>1, <2>2 DEF File, Detail
  <2> QED
    BY <1>1, <2>3 DEF EmergencyManifest, Manifest, FetchState
<1> QED
  BY <1>2, <1>3

\* The entity tag says everything of a manifest: equal tags are equal manifests.
LEMMA VersionIsExact ==
  ASSUME NEW m \in Manifest, NEW n \in Manifest, Version(m) = Version(n)
  PROVE  m = n
<1>1. m.mode = n.mode /\ m.since = n.since /\ m.files = n.files /\ m.flash = n.flash
      /\ m.windows = n.windows /\ m.nonce = n.nonce
  BY DEF Version
<1> QED
  BY <1>1 DEF Manifest

\* Whatever the tag a display sent, it has the answer afterwards.
LEMMA AnswerFacts ==
  ASSUME TypeInv, NEW d \in Displays, NEW m \in Manifest, Answer(d, m)
  PROVE  /\ held'[d] = m /\ held' \in [Displays -> Manifest \cup {None}]
         /\ \A e \in Displays \ {d} : held'[e] = held[e]
<1>1. CASE held' = [held EXCEPT ![d] = m]
  BY <1>1 DEF TypeInv, DisplaysInv
<1>2. CASE held[d] # None /\ Version(held[d]) = Version(m) /\ UNCHANGED held
  <2>1. held[d] = m
    BY <1>2, VersionIsExact DEF TypeInv, DisplaysInv
  <2> QED
    BY <1>2, <2>1 DEF TypeInv, DisplaysInv
<1> QED
  BY <1>1, <1>2 DEF Answer

-----------------------------------------------------------------------------
(* Manifest requests.  What a step reads is said once, for the types and   *)
(* for what the display is to have.                                        *)

\* The request begins with nothing.
LEMMA BeginFetchFacts ==
  ASSUME TypeInv, NEW d \in Displays, BeginFetch(d)
  PROVE  /\ FetchInv' /\ UNCHANGED held
         /\ fetch'[d].at = "read" /\ fetch'[d].left = Sources
         /\ fetch'[d].flash = 0 /\ fetch'[d].files = {}
         /\ \A e \in Displays \ {d} : fetch'[e] = fetch[e]
<1> DEFINE f == [Unread EXCEPT !.at = "read", !.left = {"display", "schedules", "control"}]
<1>1. f \in FetchState /\ f.at = "read" /\ f.left = Sources /\ f.flash = 0 /\ f.files = {}
  BY DEF Unread, FetchState, Sources
<1>2. fetch' = [fetch EXCEPT ![d] = f]
  BY DEF BeginFetch
<1> HIDE DEF f
<1> QED
  BY <1>1, <1>2 DEF BeginFetch, TypeInv, FetchInv

\* One of the first three reads: what it reads is so, the rest stays.
LEMMA ReadFacts ==
  ASSUME TypeInv, NEW d \in Displays, Read(d)
  PROVE  /\ FetchInv' /\ UNCHANGED held
         /\ fetch'[d].at # "idle" /\ fetch'[d].at \notin {"asset", "contents"}
         /\ fetch'[d].flash = fetch[d].flash /\ fetch'[d].files = fetch[d].files
         /\ \A e \in Displays \ {d} : fetch'[e] = fetch[e]
         /\ \/ fetch'[d].nonce = nonce[d]
            \/ "display" \in fetch'[d].left
            \/ fetch'[d].nonce = fetch[d].nonce /\ "display" \notin fetch[d].left
         /\ \/ fetch'[d].windows = schedule[d].windows
            \/ "schedules" \in fetch'[d].left
            \/ fetch'[d].windows = fetch[d].windows /\ "schedules" \notin fetch[d].left
         /\ \/ fetch'[d].emergency = emergency
            \/ "control" \in fetch'[d].left
            \/ fetch'[d].emergency = fetch[d].emergency /\ "control" \notin fetch[d].left
<1>0. fetch[d] \in FetchState
  BY DEF TypeInv, FetchInv
<1>1. PICK what \in fetch[d].left :
       LET f == [fetch[d] EXCEPT !.left = @ \ {what}]
           g == CASE what = "display" -> [f EXCEPT !.nonce = nonce[d]]
                  [] what = "schedules" -> [f EXCEPT !.windows = schedule[d].windows,
                                                     !.due = schedule[d].due]
                  [] what = "control" -> [f EXCEPT !.emergency = emergency]
       IN  IF g.left # {} THEN To(d, "read", g)
           ELSE IF "FLASH" \in g.due THEN To(d, "flash", g)
           ELSE ToEmergency(d, g)
  BY DEF Read
<1> DEFINE f == [fetch[d] EXCEPT !.left = @ \ {what}]
           g == CASE what = "display" -> [f EXCEPT !.nonce = nonce[d]]
                  [] what = "schedules" -> [f EXCEPT !.windows = schedule[d].windows,
                                                     !.due = schedule[d].due]
                  [] what = "control" -> [f EXCEPT !.emergency = emergency]
<1>2. /\ what \in Sources
      /\ nonce[d] \in Nat /\ schedule[d] \in [windows : Nat, due : SUBSET Kinds]
      /\ emergency \in [slot : Slots \cup {None}, since : Nat]
  BY <1>0, <1>1 DEF TypeInv, RowsInv, FetchState
<1>3. f \in FetchState
  BY <1>0 DEF FetchState
<1>4. /\ g \in FetchState /\ g.left = fetch[d].left \ {what}
      /\ g.flash = fetch[d].flash /\ g.files = fetch[d].files
      /\ g.nonce = IF what = "display" THEN nonce[d] ELSE fetch[d].nonce
      /\ g.windows = IF what = "schedules" THEN schedule[d].windows ELSE fetch[d].windows
      /\ g.emergency = IF what = "control" THEN emergency ELSE fetch[d].emergency
  <2>1. CASE what = "display"
    <3>1. g = [f EXCEPT !.nonce = nonce[d]]
      BY <2>1
    <3> HIDE DEF g
    <3> QED
      BY <1>0, <1>2, <2>1, <3>1 DEF FetchState
  <2>2. CASE what = "schedules"
    <3>1. g = [f EXCEPT !.windows = schedule[d].windows, !.due = schedule[d].due]
      BY <2>2
    <3> HIDE DEF g
    <3> QED
      BY <1>0, <1>2, <2>2, <3>1 DEF FetchState
  <2>3. CASE what = "control"
    <3>1. g = [f EXCEPT !.emergency = emergency]
      BY <2>3
    <3> HIDE DEF g
    <3> QED
      BY <1>0, <1>2, <2>3, <3>1 DEF FetchState
  <2> QED
    BY <1>2, <2>1, <2>2, <2>3 DEF Sources
<1>5. IF g.left # {} THEN To(d, "read", g)
      ELSE IF "FLASH" \in g.due THEN To(d, "flash", g)
      ELSE ToEmergency(d, g)
  BY <1>1
<1> HIDE DEF g, f
<1>6. /\ FetchInv'
      /\ \A e \in Displays \ {d} : fetch'[e] = fetch[e]
      /\ \E at \in {"read", "flash", "slot", "items", "reply"} : fetch'[d] = [g EXCEPT !.at = at]
  <2>1. CASE g.left # {}
    <3>1. fetch' = [fetch EXCEPT ![d] = [g EXCEPT !.at = "read"]]
      BY <1>5, <2>1 DEF To
    <3>2. [g EXCEPT !.at = "read"] \in FetchState
      BY <1>4 DEF FetchState
    <3>3. fetch'[d].at = "read"
      BY <1>4, <3>1 DEF TypeInv, FetchInv, FetchState
    <3> QED
      BY <3>1, <3>2, <3>3 DEF TypeInv, FetchInv
  <2>2. CASE g.left = {} /\ "FLASH" \in g.due
    <3>1. To(d, "flash", g)
      BY <1>5, <2>2
    <3> QED
      BY <1>4, <2>2, <3>1, ToFacts DEF TypeInv
  <2>3. CASE g.left = {} /\ "FLASH" \notin g.due
    <3>1. ToEmergency(d, g)
      BY <1>5, <2>3
    <3> QED
      BY <1>4, <2>3, <3>1, ToEmergencyFacts DEF TypeInv, Later
  <2> QED
    BY <2>1, <2>2, <2>3
<1>7. PICK at \in {"read", "flash", "slot", "items", "reply"} : fetch'[d] = [g EXCEPT !.at = at]
  BY <1>6
<1>8. /\ fetch'[d].at = at /\ fetch'[d].left = g.left /\ fetch'[d].flash = g.flash
      /\ fetch'[d].files = g.files /\ fetch'[d].nonce = g.nonce
      /\ fetch'[d].windows = g.windows /\ fetch'[d].emergency = g.emergency
  BY <1>4, <1>7 DEF FetchState
<1>9. UNCHANGED held
  BY DEF Read
<1> QED
  BY <1>2, <1>4, <1>6, <1>8, <1>9 DEF Sources

\* What the first reads brought stays, once they are done.
Brought(d) ==
  /\ fetch[d].left = {} /\ fetch'[d].left = {}
  /\ fetch'[d].nonce = fetch[d].nonce /\ fetch'[d].windows = fetch[d].windows
  /\ fetch'[d].emergency = fetch[d].emergency

\* A later step that goes on: it may read the flash, the items and the contents.
LEMMA LaterFacts ==
  ASSUME TypeInv, NEW d \in Displays,
         \/ ReadFlash(d) \/ ReadSlot(d) \/ ReadItems(d)
         \/ ReadAsset(d) /\ fetch'[d].at # "idle"
         \/ ReadContents(d) /\ fetch'[d].at # "idle"
  PROVE  /\ FetchInv' /\ UNCHANGED held
         /\ fetch[d].at \notin {"idle", "read"} /\ fetch'[d].at \notin {"idle", "read"}
         /\ Brought(d)
         /\ fetch'[d].flash \in {0, fetch[d].flash, content[Flash].sum}
         /\ fetch'[d].at = "contents" => fetch'[d].items = items
         /\ \/ fetch'[d].files = fetch[d].files
            \/ fetch[d].at = "contents" /\ fetch'[d].files = {File(c) : c \in fetch[d].items}
         /\ \A e \in Displays \ {d} : fetch'[e] = fetch[e]
<1>0. fetch[d] \in FetchState /\ (fetch[d].at \notin {"idle", "read"} => fetch[d].left = {})
  BY DEF TypeInv, FetchInv
<1>1. CASE ReadFlash(d)
  <2> DEFINE f == [fetch[d] EXCEPT !.flash = IF Renderable(Flash) THEN content[Flash].sum ELSE 0]
  <2>1. /\ f \in FetchState /\ f.left = {} /\ f.nonce = fetch[d].nonce
        /\ f.windows = fetch[d].windows /\ f.emergency = fetch[d].emergency
        /\ f.flash \in {0, content[Flash].sum} /\ f.files = fetch[d].files
    <3>1. Renderable(Flash) => content[Flash].sum \in Nat
      BY DEF Renderable, TypeInv, RowsInv, Detail
    <3>2. (IF Renderable(Flash) THEN content[Flash].sum ELSE 0) \in Nat
      BY <3>1
    <3> QED
      BY <1>0, <1>1, <3>2 DEF ReadFlash, Reading, FetchState
  <2>2. ToEmergency(d, f)
    BY <1>1 DEF ReadFlash
  <2> HIDE DEF f
  <2>3. PICK at \in Later : fetch'[d] = [f EXCEPT !.at = at]
    BY <2>1, <2>2, ToEmergencyFacts DEF TypeInv
  <2>4. FetchInv' /\ \A e \in Displays \ {d} : fetch'[e] = fetch[e]
    BY <2>1, <2>2, ToEmergencyFacts DEF TypeInv
  <2>5. /\ fetch'[d].at = at /\ fetch'[d].left = f.left /\ fetch'[d].flash = f.flash
        /\ fetch'[d].files = f.files /\ fetch'[d].nonce = f.nonce
        /\ fetch'[d].windows = f.windows /\ fetch'[d].emergency = f.emergency
    BY <2>1, <2>3 DEF FetchState
  <2> QED
    BY <1>0, <1>1, <2>1, <2>4, <2>5 DEF ReadFlash, Reading, Brought, Later
<1>2. CASE ReadSlot(d) /\ ToSchedule(d, fetch[d])
  <2>1. fetch[d].left = {} /\ fetch[d].at = "slot"
    BY <1>0, <1>2 DEF ReadSlot, Reading
  <2>2. PICK at \in Later : fetch'[d] = [fetch[d] EXCEPT !.at = at]
    BY <1>0, <1>2, <2>1, ToEmergencyFacts DEF TypeInv
  <2>3. FetchInv' /\ \A e \in Displays \ {d} : fetch'[e] = fetch[e]
    BY <1>0, <1>2, <2>1, ToEmergencyFacts DEF TypeInv
  <2>4. UNCHANGED held
    BY <1>2 DEF ReadSlot
  <2> QED
    BY <1>0, <2>1, <2>2, <2>3, <2>4 DEF Brought, Later, FetchState
<1>3. CASE ReadSlot(d) /\ ~ToSchedule(d, fetch[d])
  <2> DEFINE f == [fetch[d] EXCEPT !.asset = slots[fetch[d].emergency.slot]]
  <2>1. fetch[d].left = {} /\ fetch[d].at = "slot"
    BY <1>0, <1>3 DEF ReadSlot, Reading
  <2>2. slots[fetch[d].emergency.slot] # None /\ To(d, "asset", f)
    BY <1>3 DEF ReadSlot
  <2>3. fetch[d].emergency.slot \in Slots
    BY <1>0, <2>1 DEF TypeInv, FetchInv, FetchState
  <2>4. slots[fetch[d].emergency.slot] \in Contents
    BY <2>2, <2>3 DEF TypeInv, RowsInv
  <2>5. f \in FetchState /\ f.left = {} /\ f.asset # None
    BY <1>0, <2>1, <2>2, <2>4 DEF FetchState
  <2>6. /\ FetchInv' /\ fetch'[d] = [f EXCEPT !.at = "asset"]
        /\ \A e \in Displays \ {d} : fetch'[e] = fetch[e]
    BY <2>2, <2>5, ToFacts DEF TypeInv
  <2>7. UNCHANGED held
    BY <1>3 DEF ReadSlot
  <2> QED
    BY <1>0, <2>1, <2>6, <2>7 DEF Brought, FetchState
<1>4. CASE ReadItems(d)
  <2> DEFINE f == [fetch[d] EXCEPT !.items = items]
  <2>1. fetch[d].left = {} /\ fetch[d].at = "items"
    BY <1>0, <1>4 DEF ReadItems, Reading
  <2>2. f \in FetchState /\ f.left = {}
    BY <1>0, <2>1 DEF FetchState, TypeInv, RowsInv
  <2>3. To(d, "contents", f)
    BY <1>4 DEF ReadItems
  <2>4. /\ FetchInv' /\ fetch'[d] = [f EXCEPT !.at = "contents"]
        /\ \A e \in Displays \ {d} : fetch'[e] = fetch[e]
    BY <2>2, <2>3, ToFacts DEF TypeInv
  <2>5. UNCHANGED held
    BY <1>4 DEF ReadItems
  <2> QED
    BY <1>0, <2>1, <2>4, <2>5 DEF Brought, FetchState
<1>5. CASE ReadAsset(d) /\ fetch'[d].at # "idle"
  <2>1. fetch[d].left = {} /\ fetch[d].at = "asset"
    BY <1>0, <1>5 DEF ReadAsset, Reading
  <2>2. ToSchedule(d, fetch[d]) /\ UNCHANGED held
    <3>1. End(d) => fetch'[d].at = "idle"
      BY EndFacts DEF TypeInv
    <3> QED
      BY <1>5, <3>1 DEF ReadAsset, Answer
  <2>3. PICK at \in Later : fetch'[d] = [fetch[d] EXCEPT !.at = at]
    BY <1>0, <2>1, <2>2, ToEmergencyFacts DEF TypeInv
  <2>4. FetchInv' /\ \A e \in Displays \ {d} : fetch'[e] = fetch[e]
    BY <1>0, <2>1, <2>2, ToEmergencyFacts DEF TypeInv
  <2> QED
    BY <1>0, <2>1, <2>2, <2>3, <2>4 DEF Brought, Later, FetchState
<1>6. CASE ReadContents(d) /\ fetch'[d].at # "idle"
  <2> DEFINE f == [fetch[d] EXCEPT !.items = {}, !.files = {File(c) : c \in fetch[d].items}]
  <2>1. fetch[d].left = {} /\ fetch[d].at = "contents"
    BY <1>0, <1>6 DEF ReadContents, Reading
  <2>2. To(d, "reply", f) /\ \A c \in fetch[d].items : content[c] # None
    <3>1. End(d) => fetch'[d].at = "idle"
      BY EndFacts DEF TypeInv
    <3> QED
      BY <1>6, <3>1 DEF ReadContents
  <2>3. {File(c) : c \in fetch[d].items} \subseteq Contents \X Nat
    <3>1. \A c \in fetch[d].items : c \in Contents /\ content[c] \in Detail
      BY <1>0, <2>2 DEF FetchState, TypeInv, RowsInv
    <3> QED
      BY <3>1 DEF File, Detail
  <2>4. f \in FetchState /\ f.left = {}
    BY <1>0, <2>1, <2>3 DEF FetchState
  <2>5. /\ FetchInv' /\ fetch'[d] = [f EXCEPT !.at = "reply"]
        /\ \A e \in Displays \ {d} : fetch'[e] = fetch[e]
    BY <2>2, <2>4, ToFacts DEF TypeInv
  <2>6. UNCHANGED held
    BY <1>6 DEF ReadContents
  <2> QED
    BY <1>0, <2>1, <2>5, <2>6 DEF Brought, FetchState
<1> QED
  BY <1>1, <1>2, <1>3, <1>4, <1>5, <1>6

\* An answer is what the request has read.
LEMMA AnswerStep ==
  ASSUME TypeInv, NEW d \in Displays, ReadAsset(d) \/ Reply(d), fetch'[d].at = "idle"
  PROVE  /\ FetchInv' /\ held' \in [Displays -> Manifest \cup {None}]
         /\ \A e \in Displays \ {d} : fetch'[e] = fetch[e] /\ held'[e] = held[e]
         /\ held'[d] \in Manifest
         /\ \/ fetch[d].at = "asset"
                 /\ held'[d] = EmergencyManifest(fetch[d], File(fetch[d].asset))
            \/ fetch[d].at = "reply" /\ held'[d] = ScheduleManifest(fetch[d])
<1>1. CASE ReadAsset(d)
  <2>1. Reading(d, "asset")
    BY <1>1 DEF ReadAsset
  <2>2. ~ToSchedule(d, fetch[d])
    <3>1. fetch[d] \in FetchState /\ fetch[d].left = {}
      BY <2>1 DEF Reading, TypeInv, FetchInv
    <3>2. ASSUME ToSchedule(d, fetch[d]) PROVE FALSE
      <4>1. PICK at \in Later : fetch'[d] = [fetch[d] EXCEPT !.at = at]
        BY <3>1, <3>2, ToEmergencyFacts DEF TypeInv
      <4> QED
        BY <3>1, <4>1 DEF Later, FetchState
    <3> QED
      BY <3>2
  <2>3. /\ Renderable(fetch[d].asset)
        /\ Answer(d, EmergencyManifest(fetch[d], File(fetch[d].asset)))
    BY <1>1, <2>2 DEF ReadAsset
  <2>4. EmergencyManifest(fetch[d], File(fetch[d].asset)) \in Manifest
    BY <2>1, <2>3, ManifestType
  <2> HIDE DEF EmergencyManifest
  <2>5. End(d)
    BY <2>3 DEF Answer
  <2> QED
    BY <2>1, <2>3, <2>4, <2>5, AnswerFacts, EndFacts DEF TypeInv, Reading
<1>2. CASE Reply(d)
  <2>1. Reading(d, "reply") /\ Answer(d, ScheduleManifest(fetch[d]))
    BY <1>2 DEF Reply
  <2>2. ScheduleManifest(fetch[d]) \in Manifest
    BY ManifestType
  <2>3. End(d)
    BY <2>1 DEF Answer
  <2> QED
    BY <2>1, <2>2, <2>3, AnswerFacts, EndFacts DEF TypeInv, Reading
<1> QED
  BY <1>1, <1>2

\* A step of a manifest request changes nothing but what the displays hold.
LEMMA FetchFrame ==
  ASSUME NEW d \in Displays, Fetch(d)
  PROVE  UNCHANGED <<library, plans, stream, api, changes>>
<1> QED
  BY DEF Fetch, BeginFetch, Read, ReadFlash, ReadSlot, ReadAsset, ReadItems, ReadContents, Reply

\* The steps of a manifest request, by what becomes of it: it begins, goes on, or ends with
\* an answer or without.
LEMMA FetchCases ==
  ASSUME TypeInv, NEW d \in Displays, Fetch(d)
  PROVE  \/ BeginFetch(d) \/ Read(d)
         \/ ReadFlash(d) \/ ReadSlot(d) \/ ReadItems(d)
         \/ (ReadAsset(d) \/ ReadContents(d)) /\ fetch'[d].at # "idle"
         \/ (ReadAsset(d) \/ Reply(d)) /\ fetch'[d].at = "idle"
         \/ ReadContents(d) /\ End(d) /\ missed' = missed \cup {d} /\ UNCHANGED held
<1>1. CASE Reply(d)
  BY <1>1, EndFacts DEF Reply, Answer, TypeInv
<1>2. CASE ReadContents(d)
  <2>1. CASE \E c \in fetch[d].items : content[c] = None
    BY <1>2, <2>1 DEF ReadContents
  <2>2. CASE ~\E c \in fetch[d].items : content[c] = None
    <3> DEFINE f == [fetch[d] EXCEPT !.items = {}, !.files = {File(c) : c \in fetch[d].items}]
    <3>1. fetch[d] \in FetchState /\ fetch' = [fetch EXCEPT ![d] = [f EXCEPT !.at = "reply"]]
      BY <1>2, <2>2 DEF ReadContents, To, TypeInv, FetchInv
    <3>2. fetch'[d].at = "reply"
      BY <3>1 DEF TypeInv, FetchInv, FetchState
    <3> QED
      BY <1>2, <3>2
  <2> QED
    BY <2>1, <2>2
<1> QED
  BY <1>1, <1>2 DEF Fetch

\* A manifest request keeps the types, and what other displays fetch and have.
LEMMA FetchType ==
  ASSUME TypeInv, NEW d \in Displays, Fetch(d)
  PROVE  /\ TypeInv'
         /\ \A e \in Displays \ {d} : fetch'[e] = fetch[e] /\ held'[e] = held[e]
<1>1. RowsInv' /\ TasksInv'
  <2>1. UNCHANGED <<content, slots, items, emergency, schedule, nonce, changes, step, task>>
    BY FetchFrame DEF library, plans, api
  <2> QED
    BY <2>1 DEF TypeInv, RowsInv, TasksInv
<1>2. /\ FetchInv' /\ held' \in [Displays -> Manifest \cup {None}]
      /\ \A e \in Displays \ {d} : fetch'[e] = fetch[e] /\ held'[e] = held[e]
  <2>1. CASE BeginFetch(d)
    BY <2>1, BeginFetchFacts DEF TypeInv, DisplaysInv
  <2>2. CASE Read(d)
    BY <2>2, ReadFacts DEF TypeInv, DisplaysInv
  <2>3. CASE \/ ReadFlash(d) \/ ReadSlot(d) \/ ReadItems(d)
             \/ (ReadAsset(d) \/ ReadContents(d)) /\ fetch'[d].at # "idle"
    BY <2>3, LaterFacts DEF TypeInv, DisplaysInv
  <2>4. CASE (ReadAsset(d) \/ Reply(d)) /\ fetch'[d].at = "idle"
    BY <2>4, AnswerStep
  <2>5. CASE End(d) /\ UNCHANGED held
    BY <2>5, EndFacts DEF TypeInv, DisplaysInv
  <2> QED
    BY <2>1, <2>2, <2>3, <2>4, <2>5, FetchCases
<1>3. told' \subseteq told /\ missed' \subseteq missed \cup {d} /\ stream' = stream
  BY DEF Fetch, BeginFetch, Read, ReadFlash, ReadSlot, ReadAsset, ReadItems, ReadContents, Reply
<1> QED
  BY <1>1, <1>2, <1>3 DEF TypeInv, DisplaysInv

-----------------------------------------------------------------------------
(* Notices and requests                                                    *)

\* What a notice leaves: a display that was told, or missed it.
LEMMA PublishFacts ==
  ASSUME DisplaysInv, NEW to \in SUBSET Displays, Publish(to)
  PROVE  /\ told' \subseteq Displays /\ missed' \subseteq Displays
         /\ told \subseteq told' /\ missed \subseteq missed' \cup told'
         /\ to \subseteq told' \cup missed'
<1> QED
  BY DEF Publish, DisplaysInv

\* Streams and heartbeats keep the types.
LEMMA NoticeType ==
  ASSUME TypeInv, NEW d \in Displays, Connect(d) \/ Disconnect(d) \/ Heartbeat(d)
  PROVE  TypeInv'
<1>1. UNCHANGED <<content, slots, items, emergency, schedule, nonce, changes, step, task,
                  fetch, held>>
  BY DEF Connect, Disconnect, Heartbeat, library, plans, api
<1>2. stream' \subseteq Displays /\ told' \subseteq Displays /\ missed' \subseteq Displays
  BY PublishFacts DEF Connect, Disconnect, Heartbeat, TypeInv, DisplaysInv
<1> QED
  BY <1>1, <1>2 DEF TypeInv, RowsInv, TasksInv, DisplaysInv, FetchInv

\* What a request does next.
LEMMA GoType ==
  ASSUME TasksInv, NEW p \in Requests, NEW s \in {"idle", "vet", "activate", "fill", "tell"},
         NEW t \in Task, Go(p, s, t),
         s \in {"vet", "activate", "fill"} => t.slot # None,
         s \in {"vet", "fill"} => t.content # None,
         s \in {"vet", "activate"} => t.since # 0
  PROVE  /\ TasksInv' /\ step'[p] = s /\ task'[p] = t
         /\ \A q \in Requests \ {p} : step'[q] = step[q] /\ task'[q] = task[q]
<1> QED
  BY DEF TasksInv, Go

\* A request that rests, or has still to tell the displays.
LEMMA RestType ==
  ASSUME TasksInv, NEW p \in Requests, NEW to \in SUBSET Displays, Rest(p) \/ Owe(p, to)
  PROVE  /\ TasksInv' /\ step'[p] \in {"idle", "tell"}
         /\ Owe(p, to) => step'[p] = "tell" /\ task'[p].to = to
         /\ \A q \in Requests \ {p} : step'[q] = step[q] /\ task'[q] = task[q]
<1>1. CASE Rest(p)
  BY <1>1, NoTaskType, GoType DEF Rest, Owe, Go, TasksInv
<1>2. CASE Owe(p, to)
  <2>1. [NoTask EXCEPT !.to = to] \in Task /\ [NoTask EXCEPT !.to = to].to = to
    BY DEF NoTask, Task
  <2> QED
    BY <1>2, <2>1, GoType DEF Owe
<1> QED
  BY <1>1, <1>2

\* Requests about the emergency.
EmergencyStep(p) ==
  \/ \E k \in Slots : BeginActivate(p, k)
  \/ VetEmergency(p) \/ Activate(p) \/ Deactivate(p)

\* Requests that write slots or contents.
LibraryStep(p) ==
  \/ \E k \in Slots : ClearSlot(p, k) \/ \E c \in Contents : BeginFillSlot(p, k, c)
  \/ FillSlot(p)
  \/ \E c \in Contents \cup {Flash} : EditContent(p, c) \/ ReplaceFile(p, c) \/ DeleteContent(p, c)

\* Requests that write what is scheduled.
ScheduleStep(p) ==
  \/ \E chosen \in SUBSET Contents : SetItems(p, chosen)
  \/ \E d \in Displays : RequestRefresh(p, d) \/ \E due \in SUBSET Kinds : EditSchedule(p, d, due)

\* Requests about the emergency keep the types: what they activate is a slot, dated.
LEMMA EmergencyType ==
  ASSUME TypeInv, NEW p \in Requests, EmergencyStep(p)
  PROVE  TypeInv' /\ UNCHANGED <<fetch, held>>
<1> USE DEF TypeInv
<1>0. /\ task[p] \in Task /\ changes \in Nat
      /\ \A k \in Slots : slots[k] \in Contents \cup {None}
  BY DEF RowsInv, TasksInv
<1>1. ASSUME NEW k \in Slots, BeginActivate(p, k)
      PROVE  TasksInv'
  <2>1. CASE slots[k] = None
    BY <1>1, <2>1, RestType DEF BeginActivate
  <2>2. CASE slots[k] # None
    <3> DEFINE t == [NoTask EXCEPT !.slot = k, !.content = slots[k], !.since = changes + 1]
    <3>1. t \in Task /\ t.slot = k /\ t.content = slots[k] /\ t.since # 0
      <4>1. slots[k] \in Contents \cup {None} /\ changes + 1 \in Nat /\ changes + 1 # 0
        BY <1>0
      <4> QED
        BY <4>1, NoTaskType DEF Task
    <3>2. Go(p, "vet", t)
      BY <1>1, <2>2 DEF BeginActivate
    <3>3. k # None
      BY PlaybackAssumption
    <3> HIDE DEF t
    <3> QED
      BY <2>2, <3>1, <3>2, <3>3, GoType
  <2> QED
    BY <2>1, <2>2
<1>2. CASE VetEmergency(p)
  <2>1. step[p] = "vet"
    BY <1>2 DEF VetEmergency
  <2>2. task[p].slot # None /\ task[p].since # 0
    BY <2>1 DEF TasksInv
  <2>3. TasksInv'
    <3>1. Go(p, "activate", task[p]) => TasksInv'
      BY <1>0, <2>2, GoType
    <3>2. Rest(p) => TasksInv'
      BY RestType
    <3> QED
      BY <1>2, <3>1, <3>2 DEF VetEmergency
  <2>4. UNCHANGED <<content, slots, items, emergency, schedule, nonce, changes, stream, told,
                    missed, fetch, held>>
    BY <1>2 DEF VetEmergency, library, plans, displays
  <2> QED
    BY <2>3, <2>4 DEF RowsInv, DisplaysInv, FetchInv
<1>3. CASE Activate(p)
  <2>1. step[p] = "activate"
    BY <1>3 DEF Activate
  <2>2. task[p].slot \in Slots /\ task[p].since \in Nat /\ task[p].since # 0
    BY <1>0, <2>1 DEF TasksInv, Task
  <2>3. emergency' = [slot |-> task[p].slot, since |-> task[p].since]
    BY <1>3 DEF Activate, SetGlobalEmergency
  <2>4. TasksInv'
    BY <1>3, RestType DEF Activate
  <2>5. UNCHANGED <<content, slots, items, schedule, nonce, changes, stream, told,
                    missed, fetch, held>>
    BY <1>3 DEF Activate, library, displays
  <2>6. emergency' \in [slot : Slots \cup {None}, since : Nat]
        /\ (emergency'.slot = None) = (emergency'.since = 0)
    BY <2>2, <2>3, PlaybackAssumption
  <2> QED
    BY <2>4, <2>5, <2>6 DEF RowsInv, DisplaysInv, FetchInv
<1>4. CASE Deactivate(p)
  <2>1. TasksInv'
    BY <1>4, RestType DEF Deactivate
  <2>2. emergency' = [slot |-> None, since |-> 0] /\ changes' = changes + 1
    BY <1>4 DEF Deactivate, SetGlobalEmergency, Begin, Change
  <2>3. UNCHANGED <<content, slots, items, schedule, nonce, stream, told, missed, fetch, held>>
    BY <1>4 DEF Deactivate, library, displays
  <2> QED
    BY <1>0, <2>1, <2>2, <2>3 DEF RowsInv, DisplaysInv, FetchInv
<1>5. ASSUME NEW k \in Slots, BeginActivate(p, k)
      PROVE  RowsInv' /\ DisplaysInv' /\ FetchInv' /\ UNCHANGED <<fetch, held>>
  <2>1. UNCHANGED <<content, slots, items, emergency, schedule, nonce, stream, told, missed,
                    fetch, held>> /\ changes' = changes + 1
    BY <1>5 DEF BeginActivate, plans, displays, Begin, Change
  <2> QED
    BY <1>0, <2>1 DEF RowsInv, DisplaysInv, FetchInv
<1>6. UNCHANGED <<fetch, held>>
  BY <1>5 DEF EmergencyStep, VetEmergency, Activate, Deactivate, displays
<1> QED
  BY <1>1, <1>2, <1>3, <1>4, <1>5, <1>6 DEF EmergencyStep

\* Contents and slots stay contents and slots; what a slot or the playlist has is there.
LEMMA LibraryType ==
  ASSUME TypeInv, NEW p \in Requests, LibraryStep(p)
  PROVE  TypeInv' /\ UNCHANGED <<plans, stream, told, missed, fetch, held>>
<1> USE DEF TypeInv
<1>0. /\ task[p] \in Task /\ changes \in Nat
      /\ \A c \in Contents \cup {Flash} : content[c] # None =>
           content[c] \in Detail /\ content[c].sum \in Nat \ {0}
      /\ \A d \in Detail : d # None
  BY PlaybackAssumption DEF RowsInv, TasksInv, Detail
<1> DEFINE Rows ==
      /\ content' \in [Contents \cup {Flash} -> Detail \cup {None}]
      /\ slots' \in [Slots -> Contents \cup {None}]
      /\ \A k \in Slots : slots'[k] # None => content'[slots'[k]] # None
      /\ items \subseteq {c \in Contents : content'[c] # None}
<1>1. ASSUME NEW k \in Slots, NEW c \in Contents, BeginFillSlot(p, k, c)
      PROVE  TasksInv' /\ Rows
  <2> DEFINE t == [NoTask EXCEPT !.slot = k, !.content = c]
  <2>1. t \in Task /\ t.slot # None /\ t.content # None
    BY PlaybackAssumption DEF NoTask, Task
  <2>2. Go(p, "fill", t) \/ Rest(p)
    BY <1>1 DEF BeginFillSlot
  <2> HIDE DEF t
  <2>3. TasksInv'
    BY <2>1, <2>2, GoType, RestType
  <2> QED
    BY <1>1, <2>3 DEF BeginFillSlot, library, RowsInv
<1>2. ASSUME FillSlot(p)
      PROVE  TasksInv' /\ Rows
  <2>1. TasksInv'
    BY <1>2, RestType DEF FillSlot
  <2>2. task[p].slot \in Slots /\ task[p].content \in Contents
    BY <1>0, <1>2 DEF FillSlot, TasksInv, Task
  <2>3. /\ content' = content
        /\ \/ slots' = slots
           \/ /\ content[task[p].content] # None
              /\ slots' = [slots EXCEPT ![task[p].slot] = task[p].content]
    BY <1>2 DEF FillSlot
  <2>4. Rows
    BY <2>2, <2>3 DEF RowsInv
  <2> QED
    BY <2>1, <2>4
<1>3. ASSUME NEW k \in Slots, ClearSlot(p, k)
      PROVE  TasksInv' /\ Rows
  <2>1. TasksInv'
    BY <1>3, RestType DEF ClearSlot
  <2>2. Rows
    BY <1>3 DEF ClearSlot, RowsInv
  <2> QED
    BY <2>1, <2>2
<1>4. ASSUME NEW c \in Contents \cup {Flash}, EditContent(p, c)
      PROVE  TasksInv' /\ Rows
  <2>1. TasksInv'
    BY <1>4, RestType DEF EditContent
  <2>2. content[c] \in Detail
    BY <1>0, <1>4 DEF EditContent
  <2>3. [content[c] EXCEPT !.sum = @ + 1] \in Detail
    BY <2>2 DEF Detail
  <2>4. content' = [content EXCEPT ![c] = [content[c] EXCEPT !.sum = @ + 1]]
    BY <1>4 DEF EditContent
  <2>5. Rows
    BY <1>0, <1>4, <2>3, <2>4 DEF EditContent, RowsInv
  <2> QED
    BY <2>1, <2>5
<1>5. ASSUME NEW c \in Contents \cup {Flash}, ReplaceFile(p, c)
      PROVE  TasksInv' /\ Rows
  <2>1. TasksInv'
    BY <1>5, RestType DEF ReplaceFile
  <2>2. content[c] \in Detail
    BY <1>0, <1>5 DEF ReplaceFile, Renderable
  <2>3. [sum |-> content[c].sum + 1, ready |-> FALSE] \in Detail
    BY <2>2 DEF Detail
  <2>4. content' = [content EXCEPT ![c] = [sum |-> content[c].sum + 1, ready |-> FALSE]]
    BY <1>5 DEF ReplaceFile
  <2>5. slots' = slots
    BY <1>5 DEF ReplaceFile
  <2>6. \A b \in Contents \cup {Flash} : content'[b] \in Detail \cup {None} /\
          (content[b] # None => content'[b] # None)
    BY <1>0, <2>3, <2>4 DEF RowsInv
  <2>7. content' \in [Contents \cup {Flash} -> Detail \cup {None}]
    BY <2>4, <2>6 DEF RowsInv
  <2>8. Rows
    BY <2>5, <2>6, <2>7 DEF RowsInv
  <2> QED
    BY <2>1, <2>8
<1>7. ASSUME NEW c \in Contents \cup {Flash}, DeleteContent(p, c)
      PROVE  TasksInv' /\ Rows
  <2>1. TasksInv'
    BY <1>7, RestType DEF DeleteContent
  <2>2. Rows
    BY <1>7 DEF DeleteContent, RowsInv
  <2> QED
    BY <2>1, <2>2
<1> HIDE DEF Rows
<1>8. TasksInv' /\ Rows
  <2>1. CASE \E c \in Contents \cup {Flash} :
               EditContent(p, c) \/ ReplaceFile(p, c) \/ DeleteContent(p, c)
    BY <1>4, <1>5, <1>7, <2>1
  <2>2. CASE \E k \in Slots : ClearSlot(p, k) \/ \E c \in Contents : BeginFillSlot(p, k, c)
    BY <1>1, <1>3, <2>2
  <2> QED
    BY <1>2, <2>1, <2>2 DEF LibraryStep
<1>9. UNCHANGED <<plans, stream, told, missed, fetch, held>>
  BY DEF LibraryStep, BeginFillSlot, FillSlot, ClearSlot, EditContent, ReplaceFile,
     DeleteContent, displays
<1>10. changes' \in {changes, changes + 1}
  BY DEF LibraryStep, BeginFillSlot, FillSlot, ClearSlot, EditContent, ReplaceFile,
     DeleteContent, Begin, Change
<1> QED
  BY <1>0, <1>8, <1>9, <1>10 DEF Rows, plans, RowsInv, DisplaysInv, FetchInv

\* Requests about schedules, playlists and refreshes keep the types.
LEMMA ScheduleType ==
  ASSUME TypeInv, NEW p \in Requests, ScheduleStep(p)
  PROVE  TypeInv' /\ UNCHANGED <<library, emergency, stream, told, missed, fetch, held>>
<1> USE DEF TypeInv
<1>0. changes \in Nat
  BY DEF RowsInv
<1>1. ASSUME NEW chosen \in SUBSET Contents, SetItems(p, chosen)
      PROVE  TypeInv'
  <2>1. TasksInv'
    BY <1>1, RestType DEF SetItems
  <2> QED
    BY <1>0, <1>1, <2>1 DEF SetItems, library, displays, Begin, Change, RowsInv, DisplaysInv, FetchInv
<1>2. ASSUME NEW d \in Displays, RequestRefresh(p, d)
      PROVE  TypeInv'
  <2>1. TasksInv'
    BY <1>2, RestType DEF RequestRefresh
  <2>2. nonce' \in [Displays -> Nat]
    BY <1>2 DEF RequestRefresh, RowsInv
  <2> QED
    BY <1>0, <1>2, <2>1, <2>2
    DEF RequestRefresh, library, displays, Begin, Change, RowsInv, DisplaysInv, FetchInv
<1>3. ASSUME NEW d \in Displays, NEW due \in SUBSET Kinds, EditSchedule(p, d, due)
      PROVE  TypeInv'
  <2>1. TasksInv'
    BY <1>3, RestType DEF EditSchedule
  <2>2. schedule' \in [Displays -> [windows : Nat, due : SUBSET Kinds]]
    BY <1>3 DEF EditSchedule, RowsInv
  <2> QED
    BY <1>0, <1>3, <2>1, <2>2
    DEF EditSchedule, library, displays, Begin, Change, RowsInv, DisplaysInv, FetchInv
<1>5. UNCHANGED <<library, emergency, stream, told, missed, fetch, held>>
  BY DEF ScheduleStep, SetItems, RequestRefresh, EditSchedule, displays
<1> QED
  BY <1>1, <1>2, <1>3, <1>5 DEF ScheduleStep

\* The worker finds a file in order.
LEMMA IngestedType ==
  ASSUME TypeInv, NEW c \in Contents, Ingested(c)
  PROVE  TypeInv' /\ UNCHANGED <<slots, plans, displays, api>>
<1> USE DEF TypeInv
<1>1. content[c] \in Detail
  BY DEF Ingested, RowsInv
<1>2. [content[c] EXCEPT !.ready = TRUE] \in Detail /\ [content[c] EXCEPT !.ready = TRUE] # None
  BY <1>1, PlaybackAssumption DEF Detail
<1>3. content' = [content EXCEPT ![c] = [content[c] EXCEPT !.ready = TRUE]]
  BY DEF Ingested
<1>4. UNCHANGED <<slots, plans, displays, api, changes>>
  BY DEF Ingested
<1>5. \A b \in Contents \cup {Flash} : content[b] # None => content'[b] # None
  BY <1>2, <1>3 DEF RowsInv
<1>6. content' \in [Contents \cup {Flash} -> Detail \cup {None}]
  BY <1>2, <1>3 DEF RowsInv
<1>7. RowsInv'
  BY <1>4, <1>5, <1>6 DEF plans, RowsInv
<1>8. UNCHANGED <<step, task, stream, told, missed, fetch, held>>
  BY <1>4 DEF api, displays
<1> QED
  BY <1>4, <1>7, <1>8 DEF TasksInv, DisplaysInv, FetchInv

\* Time changes what is due, and no window.
LEMMA TickType ==
  ASSUME TypeInv, NEW d \in Displays, NEW due \in SUBSET Kinds, Tick(d, due)
  PROVE  /\ TypeInv' /\ UNCHANGED <<library, emergency, items, nonce, displays, api>>
         /\ \A e \in Displays : schedule'[e].windows = schedule[e].windows
<1>1. schedule' = [schedule EXCEPT ![d].due = due] /\ changes' = changes + 1
  BY DEF Tick, Change
<1>2. schedule' \in [Displays -> [windows : Nat, due : SUBSET Kinds]]
  BY <1>1 DEF TypeInv, RowsInv
<1>3. \A e \in Displays : schedule'[e].windows = schedule[e].windows
  BY <1>1 DEF TypeInv, RowsInv
<1>4. UNCHANGED <<library, emergency, items, nonce, displays, api>>
  BY DEF Tick
<1> QED
  BY <1>1, <1>2, <1>3, <1>4
  DEF library, displays, api, TypeInv, RowsInv, TasksInv, DisplaysInv, FetchInv

\* What was announced is off the request's hands.
LEMMA TellType ==
  ASSUME TypeInv, NEW p \in Requests, Tell(p)
  PROVE  /\ TypeInv' /\ UNCHANGED <<library, plans, fetch, held>>
         /\ step[p] = "tell" /\ step'[p] # "tell"
         /\ told \subseteq told' /\ missed \subseteq told' \cup missed'
         /\ task[p].to \subseteq told' \cup missed'
         /\ \A q \in Requests \ {p} : step'[q] = step[q] /\ task'[q] = task[q]
<1>1. UNCHANGED <<content, slots, items, emergency, schedule, nonce, changes, stream, fetch, held>>
      /\ UNCHANGED <<library, plans>>
  BY DEF Tell, library, plans
<1>2. task[p].to \in SUBSET Displays
  BY DEF TypeInv, TasksInv, Task
<1>3. TasksInv' /\ step[p] = "tell" /\ step'[p] # "tell"
      /\ \A q \in Requests \ {p} : step'[q] = step[q] /\ task'[q] = task[q]
  <2>1. step[p] = "tell" /\ step'[p] = "idle"
    BY DEF Tell, Rest, Go, TypeInv, TasksInv
  <2> QED
    BY <2>1, RestType DEF Tell, TypeInv
<1>4. /\ told' \subseteq Displays /\ missed' \subseteq Displays
      /\ told \subseteq told' /\ missed \subseteq missed' \cup told'
      /\ task[p].to \subseteq told' \cup missed'
  BY <1>2, PublishFacts DEF Tell, TypeInv
<1> QED
  BY <1>1, <1>3, <1>4 DEF TypeInv, RowsInv, DisplaysInv, FetchInv

\* A restart keeps the types.
LEMMA RestartType ==
  ASSUME TypeInv, Restart
  PROVE  TypeInv'
<1>1. TasksInv' /\ FetchInv'
  BY NoTaskType, UnreadType DEF Restart, TasksInv, FetchInv, Unread
<1>2. UNCHANGED <<content, slots, items, emergency, schedule, nonce, changes, told, held>>
      /\ stream' = {} /\ missed' = Displays
  BY DEF Restart, library, plans
<1> QED
  BY <1>1, <1>2 DEF TypeInv, RowsInv, DisplaysInv

\* Every step is one of these.
LEMMA StepCases ==
  ASSUME Next
  PROVE  \/ \E d \in Displays : Fetch(d) \/ Connect(d) \/ Disconnect(d) \/ Heartbeat(d)
         \/ \E p \in Requests : EmergencyStep(p) \/ LibraryStep(p) \/ ScheduleStep(p) \/ Tell(p)
         \/ \E d \in Displays, due \in SUBSET Kinds : Tick(d, due)
         \/ \E c \in Contents : Ingested(c)
         \/ Restart
<1> QED
  BY DEF Next, Ask, Serve, EmergencyStep, LibraryStep, ScheduleStep

-----------------------------------------------------------------------------
(***************************************************************************)
(* The invariant beyond the types.                                         *)
(***************************************************************************)

\* What an emergency relies on, from the moment a request has looked at the slot: the
\* content it saw is still in there, or the slot was undercut.
ReliedInv ==
  /\ emergency.slot # None => Playable(emergency.slot) \/ emergency.slot \in undercut
  /\ \A p \in Requests :
       /\ step[p] = "vet" => slots[task[p].slot] = task[p].content \/ task[p].slot \in undercut
       /\ step[p] = "activate" => Playable(task[p].slot) \/ task[p].slot \in undercut

\* A display that has no notice to act on, missed none, and for which none is due.
Current(d) == d \notin told \cup missed /\ ~Owing(d)

\* What AnnouncedIsSeen says of the manifest it has.
HeldTrue(d) == LET m == held[d] IN
  /\ m # None /\ m.nonce = nonce[d] /\ m.windows = schedule[d].windows
  /\ m.mode = "EMERGENCY" => m.since = emergency.since
  /\ m.mode = "SCHEDULE" /\ m.files # {} => {file[1] : file \in m.files} = items
  /\ m.flash # 0 => m.flash = content[Flash].sum

\* And of one that is being put together: what has been read is still so.
FetchTrue(d) == LET f == fetch[d] IN
  /\ "display" \notin f.left => f.nonce = nonce[d]
  /\ "schedules" \notin f.left => f.windows = schedule[d].windows
  /\ "control" \notin f.left => f.emergency.since = emergency.since
  /\ f.flash # 0 => f.flash = content[Flash].sum
  /\ f.at = "contents" => f.items = items
  /\ f.files # {} => {file[1] : file \in f.files} = items

SeenInv ==
  \A d \in Displays : Current(d) => IF Reading(d, "idle") THEN HeldTrue(d) ELSE FetchTrue(d)

IInv == TypeInv /\ ReliedInv /\ SeenInv /\ faults \in Nat

-----------------------------------------------------------------------------
(* Initial states and types                                                *)

\* The invariant holds at first.
LEMMA InitInv == Init => IInv
<1> SUFFICES ASSUME Init PROVE IInv
  OBVIOUS
<1>0. [sum |-> 1, ready |-> TRUE] \in Detail
  BY DEF Detail
<1>1. [sum |-> 1, ready |-> TRUE] \in Detail /\ [sum |-> 1, ready |-> TRUE] # None
  BY <1>0, PlaybackAssumption
<1>2. PICK c \in Contents \ items : slots = [k \in Slots |-> c]
  BY DEF Init
<1>3. items \subseteq Contents
  <2>1. (CHOOSE x \in Contents : TRUE) \in Contents
    BY <1>2
  <2> QED
    BY <2>1 DEF Init
<1>4. RowsInv
  BY <1>1, <1>2, <1>3 DEF Init, RowsInv, Kinds
<1>5. TasksInv
  BY NoTaskType DEF Init, TasksInv
<1>6. DisplaysInv
  BY DEF Init, DisplaysInv
<1>7. FetchInv
  BY UnreadType DEF Init, FetchInv
<1>8. ReliedInv
  BY DEF Init, ReliedInv
<1>9. SeenInv
  BY DEF Init, SeenInv, Current
<1> QED
  BY <1>4, <1>5, <1>6, <1>7, <1>8, <1>9 DEF Init, IInv, TypeInv

\* Every step keeps the types.
LEMMA StepType ==
  ASSUME TypeInv, [Next]_vars
  PROVE  TypeInv'
<1>1. CASE UNCHANGED vars
  BY <1>1 DEF vars, TypeInv, RowsInv, TasksInv, DisplaysInv, FetchInv
<1> QED
  BY <1>1, StepCases, FetchType, NoticeType, EmergencyType, LibraryType, ScheduleType, TellType,
     TickType, IngestedType, RestartType

-----------------------------------------------------------------------------
(* The emergency                                                           *)

\* A step keeps ReliedInv if it records what it takes from under the emergency, and
\* brings no request to the emergency.
LEMMA ReliedKept ==
  ASSUME TypeInv, ReliedInv, emergency'.slot = emergency.slot, undercut \subseteq undercut',
         \A k \in Slots : Relied(k) =>
           k \in undercut' \/ (slots'[k] = slots[k] /\ (Playable(k) => Playable(k)')),
         \A q \in Requests : step'[q] \in {"vet", "activate"} =>
           step'[q] = step[q] /\ task'[q] = task[q]
  PROVE  ReliedInv'
<1>1. emergency.slot \in Slots \cup {None}
  BY DEF TypeInv, RowsInv
<1>2. \A q \in Requests : step[q] \in {"vet", "activate"} => task[q].slot \in Slots
  BY DEF TypeInv, TasksInv, Task
<1>3. ASSUME emergency'.slot # None
      PROVE  (Playable(emergency.slot) \/ emergency.slot \in undercut)'
  <2>1. Relied(emergency.slot)
    BY DEF Relied
  <2>2. emergency.slot \in Slots
    BY <1>1, <1>3
  <2>3. PICK k \in Slots : k = emergency.slot
    BY <2>2
  <2>4. Playable(k)' \/ k \in undercut'
    BY <1>3, <2>1, <2>3 DEF ReliedInv
  <2> QED
    BY <2>3, <2>4 DEF Playable, Renderable
<1>4. ASSUME NEW q \in Requests, step'[q] = "vet"
      PROVE  slots'[task'[q].slot] = task'[q].content \/ task'[q].slot \in undercut'
  <2>1. step[q] = "vet" /\ task'[q] = task[q] /\ task[q].slot \in Slots
    BY <1>2, <1>4
  <2>2. Relied(task[q].slot)
    BY <2>1 DEF Relied
  <2> QED
    BY <2>1, <2>2 DEF ReliedInv
<1>5. ASSUME NEW q \in Requests, step'[q] = "activate"
      PROVE  (Playable(task[q].slot) \/ task[q].slot \in undercut)'
  <2>1. step[q] = "activate" /\ task'[q] = task[q] /\ task[q].slot \in Slots
    BY <1>2, <1>5
  <2>2. Relied(task[q].slot)
    BY <2>1 DEF Relied
  <2>3. PICK k \in Slots : k = task[q].slot
    BY <2>1
  <2>4. Playable(k)' \/ k \in undercut'
    BY <2>1, <2>2, <2>3 DEF ReliedInv
  <2> QED
    BY <2>1, <2>3, <2>4 DEF Playable, Renderable
<1> QED
  BY <1>3, <1>4, <1>5 DEF ReliedInv

\* Steps that leave slots and contents alone, and those that record what they take.
LEMMA ReliedFrame ==
  ASSUME TypeInv, ReliedInv, emergency'.slot = emergency.slot,
         UNCHANGED <<content, slots, undercut>> \/ Undercut,
         \A q \in Requests : step'[q] \in {"vet", "activate"} =>
           step'[q] = step[q] /\ task'[q] = task[q]
  PROVE  ReliedInv'
<1>1. undercut \subseteq undercut'
  BY DEF Undercut
<1>2. \A k \in Slots : Relied(k) =>
        k \in undercut' \/ (slots'[k] = slots[k] /\ (Playable(k) => Playable(k)'))
  <2>1. CASE UNCHANGED <<content, slots, undercut>>
    BY <2>1 DEF Playable, Renderable
  <2>2. CASE Undercut
    BY <2>2 DEF Undercut
  <2> QED
    BY <2>1, <2>2
<1> QED
  BY <1>1, <1>2, ReliedKept

\* What is relied on after a request has looked at a slot: what it has seen there.
LEMMA BeginActivateRelied ==
  ASSUME TypeInv, ReliedInv, NEW p \in Requests, NEW k \in Slots, BeginActivate(p, k)
  PROVE  ReliedInv'
<1>1. UNCHANGED <<content, slots, emergency>> /\ step[p] = "idle"
  BY DEF BeginActivate, plans, Begin
<1>2. /\ undercut \ {k} \subseteq undercut' /\ (Relied(k) => undercut' = undercut)
  BY DEF BeginActivate
<1>3. \A q \in Requests \ {p} : step'[q] = step[q] /\ task'[q] = task[q]
  BY DEF BeginActivate, Rest, Go, TypeInv, TasksInv
<1>4. /\ step'[p] \in {"idle", "vet"}
      /\ step'[p] = "vet" => task'[p].slot = k /\ task'[p].content = slots[k]
  BY DEF BeginActivate, Rest, Go, NoTask, TypeInv, TasksInv
<1>5. \A j : Relied(j) => (j \in undercut <=> j \in undercut') \/ j \in undercut'
  BY <1>2
<1>6. emergency.slot # None => Playable(emergency.slot) \/ emergency.slot \in undercut'
  <2>1. Relied(emergency.slot)
    BY DEF Relied
  <2> QED
    BY <1>5, <2>1 DEF ReliedInv
<1>7. ASSUME NEW q \in Requests, step'[q] = "vet"
      PROVE  slots[task'[q].slot] = task'[q].content \/ task'[q].slot \in undercut'
  <2>1. CASE q = p
    BY <1>4, <1>7, <2>1
  <2>2. CASE q # p
    <3>1. step[q] = "vet" /\ task'[q] = task[q] /\ Relied(task[q].slot)
      BY <1>3, <1>7, <2>2 DEF Relied
    <3> QED
      BY <1>5, <3>1 DEF ReliedInv
  <2> QED
    BY <2>1, <2>2
<1>8. ASSUME NEW q \in Requests, step'[q] = "activate"
      PROVE  Playable(task'[q].slot) \/ task'[q].slot \in undercut'
  <2>1. step[q] = "activate" /\ task'[q] = task[q] /\ Relied(task[q].slot)
    BY <1>3, <1>4, <1>8 DEF Relied
  <2> QED
    BY <1>5, <2>1 DEF ReliedInv
<1> QED
  BY <1>1, <1>6, <1>7, <1>8 DEF ReliedInv, Playable, Renderable

\* A slot that passes the look has something to play, or was undercut before.
LEMMA EmergencyRelied ==
  ASSUME TypeInv, ReliedInv, NEW p \in Requests, EmergencyStep(p)
  PROVE  ReliedInv'
<1>1. CASE VetEmergency(p)
  <2>1. UNCHANGED <<content, slots, emergency, undercut>> /\ step[p] = "vet"
    BY <1>1 DEF VetEmergency, library, plans
  <2>2. \A q \in Requests \ {p} : step'[q] = step[q] /\ task'[q] = task[q]
    BY <1>1 DEF VetEmergency, Rest, Go, TypeInv, TasksInv
  <2>3. \/ step'[p] = "idle"
        \/ step'[p] = "activate" /\ task'[p] = task[p] /\ Renderable(task[p].content)
    BY <1>1 DEF VetEmergency, Rest, Go, TypeInv, TasksInv
  <2>4. step'[p] = "activate" => Playable(task'[p].slot) \/ task'[p].slot \in undercut
    <3> SUFFICES ASSUME step'[p] = "activate", slots[task[p].slot] = task[p].content
                 PROVE  Playable(task'[p].slot)
      BY <2>1, <2>3 DEF ReliedInv
    <3>1. task'[p] = task[p] /\ Renderable(task[p].content) /\ task[p].content # None
      BY <2>1, <2>3 DEF TypeInv, TasksInv
    <3> QED
      BY <3>1 DEF Playable
  <2> QED
    BY <2>1, <2>2, <2>3, <2>4 DEF ReliedInv, Playable, Renderable
<1>2. CASE Activate(p)
  <2>1. UNCHANGED <<content, slots, undercut>> /\ step[p] = "activate"
    BY <1>2 DEF Activate, library
  <2>2. \A q \in Requests \ {p} : step'[q] = step[q] /\ task'[q] = task[q]
    BY <1>2 DEF Activate, Owe, Go, TypeInv, TasksInv
  <2>3. step'[p] = "tell"
    BY <1>2 DEF Activate, Owe, Go, TypeInv, TasksInv
  <2>4. emergency'.slot = task[p].slot
    BY <1>2 DEF Activate, SetGlobalEmergency
  <2> QED
    BY <2>1, <2>2, <2>3, <2>4 DEF ReliedInv, Playable, Renderable
<1>3. CASE Deactivate(p)
  <2>1. UNCHANGED <<content, slots, undercut>> /\ emergency'.slot = None
    BY <1>3 DEF Deactivate, library, SetGlobalEmergency
  <2>2. \A q \in Requests \ {p} : step'[q] = step[q] /\ task'[q] = task[q]
    BY <1>3 DEF Deactivate, Owe, Go, TypeInv, TasksInv
  <2>3. step'[p] = "tell"
    BY <1>3 DEF Deactivate, Owe, Go, TypeInv, TasksInv
  <2> QED
    BY <2>1, <2>2, <2>3 DEF ReliedInv, Playable, Renderable
<1> QED
  BY <1>1, <1>2, <1>3, BeginActivateRelied DEF EmergencyStep

\* Whatever takes content from a slot that is relied on is recorded, but a new checksum, which takes
\* nothing.
LEMMA LibraryRelied ==
  ASSUME TypeInv, ReliedInv, NEW p \in Requests, LibraryStep(p)
  PROVE  ReliedInv'
<1>1. emergency'.slot = emergency.slot
  BY LibraryType DEF plans
<1>2. \A q \in Requests : step'[q] \in {"vet", "activate"} => step'[q] = step[q] /\ task'[q] = task[q]
  BY DEF LibraryStep, BeginFillSlot, FillSlot, ClearSlot, EditContent, ReplaceFile, DeleteContent,
     Rest, Owe, Go, TypeInv, TasksInv
<1>3. CASE \E c \in Contents \cup {Flash} : EditContent(p, c)
  <2>1. PICK c \in Contents \cup {Flash} : EditContent(p, c)
    BY <1>3
  <2>2. content[c] \in Detail /\ UNCHANGED <<slots, undercut>>
    BY <2>1 DEF EditContent, TypeInv, RowsInv
  <2>3. content' = [content EXCEPT ![c] = [content[c] EXCEPT !.sum = @ + 1]]
    BY <2>1 DEF EditContent
  <2>4. [content[c] EXCEPT !.sum = @ + 1] \in Detail
        /\ [content[c] EXCEPT !.sum = @ + 1].ready = content[c].ready
    BY <2>2 DEF Detail
  <2>5. [content[c] EXCEPT !.sum = @ + 1] # None
    BY <2>4, PlaybackAssumption
  <2>6. \A b \in Contents \cup {Flash} : Renderable(b) => Renderable(b)'
    BY <2>3, <2>4, <2>5 DEF Renderable, TypeInv, RowsInv
  <2>7. \A k \in Slots : slots'[k] = slots[k] /\ (Playable(k) => Playable(k)')
    BY <2>2, <2>6 DEF Playable, TypeInv, RowsInv
  <2> QED
    BY <1>1, <1>2, <2>2, <2>7, ReliedKept
<1>4. CASE ~\E c \in Contents \cup {Flash} : EditContent(p, c)
  <2>1. UNCHANGED <<content, slots, undercut>> \/ Undercut
    BY <1>4 DEF LibraryStep, BeginFillSlot, FillSlot, ClearSlot, ReplaceFile, DeleteContent, library
  <2> QED
    BY <1>1, <1>2, <2>1, ReliedFrame
<1> QED
  BY <1>3, <1>4

\* No step breaks ReliedInv.
LEMMA ReliedStep ==
  ASSUME TypeInv, ReliedInv, [Next]_vars
  PROVE  ReliedInv'
<1>1. CASE UNCHANGED vars
  BY <1>1 DEF vars, ReliedInv, Playable, Renderable
<1>2. ASSUME NEW d \in Displays, Fetch(d) \/ Connect(d) \/ Disconnect(d) \/ Heartbeat(d)
      PROVE  ReliedInv'
  <2>1. UNCHANGED <<library, plans, api>>
    BY <1>2, FetchFrame DEF Connect, Disconnect, Heartbeat
  <2> QED
    BY <2>1, ReliedFrame DEF library, plans, api
<1>3. ASSUME NEW p \in Requests, ScheduleStep(p)
      PROVE  ReliedInv'
  <2>1. UNCHANGED <<library, emergency>>
    BY <1>3, ScheduleType
  <2>2. \A q \in Requests : step'[q] \in {"vet", "activate"} => step'[q] = step[q] /\ task'[q] = task[q]
    BY <1>3 DEF ScheduleStep, SetItems, RequestRefresh, EditSchedule, Owe, Go, TypeInv, TasksInv
  <2> QED
    BY <2>1, <2>2, ReliedFrame DEF library
<1>4. ASSUME NEW p \in Requests, Tell(p)
      PROVE  ReliedInv'
  <2>1. \A q \in Requests : step'[q] \in {"vet", "activate"} => step'[q] = step[q] /\ task'[q] = task[q]
    BY <1>4 DEF Tell, Rest, Go, TypeInv, TasksInv
  <2> QED
    BY <1>4, <2>1, TellType, ReliedFrame DEF library, plans
<1>5. ASSUME NEW d \in Displays, NEW due \in SUBSET Kinds, Tick(d, due)
      PROVE  ReliedInv'
  BY <1>5, TickType, ReliedFrame DEF library, api
<1>6. ASSUME NEW c \in Contents, Ingested(c)
      PROVE  ReliedInv'
  <2>1. Undercut
    BY <1>6 DEF Ingested
  <2> QED
    BY <1>6, <2>1, IngestedType, ReliedFrame DEF plans, api
<1>7. CASE Restart
  <2>1. UNCHANGED <<library, emergency>> /\ \A q \in Requests : step'[q] = "idle"
    BY <1>7 DEF Restart, plans
  <2> QED
    BY <2>1, ReliedFrame DEF library
<1> QED
  BY <1>1, <1>2, <1>3, <1>4, <1>5, <1>6, <1>7, StepCases, EmergencyRelied, LibraryRelied

-----------------------------------------------------------------------------
(* What the displays have                                                  *)

Seen(d) == Current(d) => IF Reading(d, "idle") THEN HeldTrue(d) ELSE FetchTrue(d)

\* The rows a manifest tells of, but for their checksums.
SameFor(d) ==
  /\ nonce'[d] = nonce[d] /\ schedule'[d].windows = schedule[d].windows
  /\ emergency'.since = emergency.since /\ items' = items
  /\ content'[Flash].sum = content[Flash].sum

\* Nothing changes for a display unless it is told, or about to be.
LEMMA SeenFrame ==
  ASSUME NEW d \in Displays, Seen(d), fetch'[d] = fetch[d], held'[d] = held[d],
         Current(d)' => Current(d) /\ SameFor(d)
  PROVE  Seen(d)'
<1> SUFFICES ASSUME Current(d)'
             PROVE  (IF Reading(d, "idle") THEN HeldTrue(d) ELSE FetchTrue(d))'
  BY DEF Seen
<1>1. Current(d) /\ SameFor(d)
  OBVIOUS
<1>2. CASE Reading(d, "idle")
  <2>1. HeldTrue(d)
    BY <1>1, <1>2 DEF Seen
  <2> QED
    BY <1>1, <1>2, <2>1 DEF SameFor, HeldTrue, Reading
<1>3. CASE ~Reading(d, "idle")
  <2>1. FetchTrue(d)
    BY <1>1, <1>3 DEF Seen
  <2> QED
    BY <1>1, <1>3, <2>1 DEF SameFor, FetchTrue, Reading
<1> QED
  BY <1>2, <1>3

\* The contents a playlist's manifest names are those that were read.
LEMMA FilesFacts ==
  ASSUME NEW C
  PROVE  {file[1] : file \in {File(c) : c \in C}} = C
<1>1. \A c \in C : File(c)[1] = c
  BY DEF File
<1>2. \A x : x \in {file[1] : file \in {File(c) : c \in C}} <=> x \in C
  BY <1>1
<1> QED
  BY <1>2

\* What a step of a manifest request does for the notices.
LEMMA FetchNotices ==
  ASSUME NEW d \in Displays, Fetch(d)
  PROVE  /\ \A e \in Displays : Owing(e)' <=> Owing(e)
         /\ told \ {d} \subseteq told' /\ missed \subseteq missed'
         /\ BeginFetch(d) \/ told' = told
<1>1. UNCHANGED api
  BY FetchFrame
<1>2. told \ {d} \subseteq told' /\ missed \subseteq missed' /\ (BeginFetch(d) \/ told' = told)
  BY DEF Fetch, BeginFetch, Read, ReadFlash, ReadSlot, ReadAsset, ReadItems, ReadContents, Reply
<1> QED
  BY <1>1, <1>2 DEF api, Owing

\* A manifest request reads what is so; when it fails, its display misses the notice.
LEMMA FetchSeen ==
  ASSUME TypeInv, TypeInv', NEW d \in Displays, Fetch(d), Seen(d)
  PROVE  Seen(d)'
<1>0. /\ \A e \in Displays : SameFor(e) /\ nonce'[e] = nonce[e] /\ schedule'[e] = schedule[e]
      /\ emergency' = emergency /\ items' = items /\ content' = content
  BY FetchFrame DEF library, plans, SameFor
<1> SUFFICES ASSUME Current(d)'
             PROVE  (IF Reading(d, "idle") THEN HeldTrue(d) ELSE FetchTrue(d))'
  BY DEF Seen
<1>1. CASE BeginFetch(d)
  BY <1>1, BeginFetchFacts DEF FetchTrue, Reading, Sources
<1>2. ASSUME ~BeginFetch(d)
      PROVE  Current(d) /\ (IF Reading(d, "idle") THEN HeldTrue(d) ELSE FetchTrue(d))
  BY <1>2, FetchNotices DEF Current, Seen
<1>3. CASE Read(d)
  <2>1. fetch[d].at = "read" /\ ~BeginFetch(d)
    BY <1>3 DEF Read, Reading, BeginFetch
  <2>2. FetchTrue(d)
    BY <1>2, <2>1 DEF Reading
  <2>3. fetch'[d].at # "idle" /\ fetch'[d].at # "contents"
        /\ fetch'[d].flash = fetch[d].flash /\ fetch'[d].files = fetch[d].files
    BY <1>3, ReadFacts
  <2>4. /\ "display" \notin fetch'[d].left => fetch'[d].nonce = nonce[d]
        /\ "schedules" \notin fetch'[d].left => fetch'[d].windows = schedule[d].windows
        /\ "control" \notin fetch'[d].left => fetch'[d].emergency.since = emergency.since
    BY <1>3, <2>2, ReadFacts DEF FetchTrue
  <2> QED
    BY <1>0, <2>2, <2>3, <2>4 DEF FetchTrue, Reading
<1>4. CASE \/ ReadFlash(d) \/ ReadSlot(d) \/ ReadItems(d)
           \/ (ReadAsset(d) \/ ReadContents(d)) /\ fetch'[d].at # "idle"
  <2>1. /\ fetch[d].at \notin {"idle", "read"} /\ fetch'[d].at \notin {"idle", "read"}
        /\ Brought(d)
        /\ fetch'[d].flash \in {0, fetch[d].flash, content[Flash].sum}
        /\ fetch'[d].at = "contents" => fetch'[d].items = items
        /\ \/ fetch'[d].files = fetch[d].files
           \/ fetch[d].at = "contents" /\ fetch'[d].files = {File(c) : c \in fetch[d].items}
    BY <1>4, LaterFacts
  <2>2. FetchTrue(d)
    BY <1>2, <2>1 DEF Reading, BeginFetch
  <2>3. fetch'[d].files # {} => {file[1] : file \in fetch'[d].files} = items
    <3>1. CASE fetch'[d].files = fetch[d].files
      BY <2>2, <3>1 DEF FetchTrue
    <3>2. CASE fetch[d].at = "contents" /\ fetch'[d].files = {File(c) : c \in fetch[d].items}
      BY <2>2, <3>2, FilesFacts DEF FetchTrue
    <3> QED
      BY <2>1, <3>1, <3>2
  <2>4. fetch'[d].flash # 0 => fetch'[d].flash = content[Flash].sum
    BY <2>1, <2>2 DEF FetchTrue
  <2> QED
    BY <1>0, <2>1, <2>2, <2>3, <2>4 DEF FetchTrue, Brought, Reading
<1>5. CASE (ReadAsset(d) \/ Reply(d)) /\ fetch'[d].at = "idle"
  <2>1. /\ held'[d] \in Manifest
        /\ \/ fetch[d].at = "asset" /\ held'[d] = EmergencyManifest(fetch[d], File(fetch[d].asset))
           \/ fetch[d].at = "reply" /\ held'[d] = ScheduleManifest(fetch[d])
    BY <1>5, AnswerStep
  <2>2. FetchTrue(d) /\ fetch[d].left = {}
    BY <1>2, <2>1 DEF Reading, BeginFetch, TypeInv, FetchInv
  <2>3. held'[d] # None
    BY <2>1, PlaybackAssumption
  <2>4. CASE fetch[d].at = "asset" /\ held'[d] = EmergencyManifest(fetch[d], File(fetch[d].asset))
    <3>1. /\ held'[d].nonce = nonce[d] /\ held'[d].windows = schedule[d].windows
          /\ held'[d].mode = "EMERGENCY" /\ held'[d].since = emergency.since /\ held'[d].flash = 0
      BY <2>2, <2>4 DEF EmergencyManifest, FetchTrue
    <3> QED
      BY <1>0, <1>5, <2>3, <3>1 DEF HeldTrue, Reading
  <2>5. CASE fetch[d].at = "reply" /\ held'[d] = ScheduleManifest(fetch[d])
    <3>1. /\ held'[d].nonce = nonce[d] /\ held'[d].windows = schedule[d].windows
          /\ held'[d].mode = "SCHEDULE" /\ held'[d].files = fetch[d].files
          /\ held'[d].flash = fetch[d].flash
      BY <2>2, <2>5 DEF ScheduleManifest, FetchTrue
    <3> QED
      BY <1>0, <1>5, <2>2, <2>3, <3>1 DEF HeldTrue, FetchTrue, Reading
  <2> QED
    BY <2>1, <2>4, <2>5
<1>6. CASE missed' = missed \cup {d}
  BY <1>6 DEF Current
<1> QED
  BY <1>1, <1>3, <1>4, <1>5, <1>6, FetchCases

\* A request that has yet to tell a display has that until it tells it.
LEMMA OwingGrows ==
  ASSUME NEW p \in Requests, step[p] # "tell", NEW d \in Displays, Owing(d),
         \A q \in Requests \ {p} : step'[q] = step[q] /\ task'[q] = task[q]
  PROVE  Owing(d)'
<1> QED
  BY DEF Owing

\* What a request changes that manifests tell of, it owes the displays a notice for.
LEMMA RequestSeen ==
  ASSUME TypeInv, TypeInv', NEW p \in Requests,
         EmergencyStep(p) \/ LibraryStep(p) \/ ScheduleStep(p),
         NEW d \in Displays
  PROVE  /\ UNCHANGED <<told, missed, fetch, held>>
         /\ Owing(d) => Owing(d)'
         /\ Owing(d)' \/ SameFor(d)
<1>1. step[p] # "tell" /\ \A q \in Requests \ {p} : step'[q] = step[q] /\ task'[q] = task[q]
  BY DEF EmergencyStep, LibraryStep, ScheduleStep, BeginActivate, VetEmergency, Activate, Deactivate,
     BeginFillSlot, FillSlot, ClearSlot, EditContent, ReplaceFile, DeleteContent, SetItems,
     RequestRefresh, EditSchedule, Begin, Rest, Owe, Go, TypeInv, TasksInv
<1>2. UNCHANGED <<told, missed, fetch, held>>
  BY LibraryType, ScheduleType
  DEF EmergencyStep, BeginActivate, VetEmergency, Activate, Deactivate, displays
<1>3. ASSUME NEW to \in SUBSET Displays, d \in to, Owe(p, to)
      PROVE  Owing(d)'
  <2>1. step'[p] = "tell" /\ task'[p].to = to
    BY <1>3, RestType DEF TypeInv
  <2> QED
    BY <1>3, <2>1 DEF Owing
<1>4. ASSUME EmergencyStep(p)
      PROVE  Owing(d)' \/ SameFor(d)
  <2>1. CASE Activate(p) \/ Deactivate(p)
    BY <1>3, <2>1 DEF Activate, Deactivate
  <2>2. CASE VetEmergency(p) \/ \E k \in Slots : BeginActivate(p, k)
    BY <2>2 DEF VetEmergency, BeginActivate, library, plans, SameFor
  <2> QED
    BY <1>4, <2>1, <2>2 DEF EmergencyStep
<1>5. ASSUME LibraryStep(p)
      PROVE  Owing(d)' \/ SameFor(d)
  <2>1. UNCHANGED plans
    BY <1>5, LibraryType
  <2>2. Owing(d)' \/ content'[Flash] = content[Flash]
    <3>1. ASSUME NEW c \in Contents \cup {Flash}, EditContent(p, c)
          PROVE  Owing(d)' \/ content'[Flash] = content[Flash]
      <4>1. CASE c = Flash
        BY <1>3, <3>1, <4>1 DEF EditContent
      <4>2. CASE c # Flash
        BY <3>1, <4>2 DEF EditContent, TypeInv, RowsInv
      <4> QED
        BY <4>1, <4>2
    <3>2. ASSUME NEW c \in Contents \cup {Flash}, ReplaceFile(p, c) \/ DeleteContent(p, c)
          PROVE  content'[Flash] = content[Flash]
      <4>1. c # Flash
        BY <3>2 DEF ReplaceFile, DeleteContent
      <4> QED
        BY <3>2, <4>1 DEF ReplaceFile, DeleteContent, TypeInv, RowsInv
    <3>3. ASSUME \/ FillSlot(p)
                 \/ \E k \in Slots : ClearSlot(p, k) \/ \E c \in Contents : BeginFillSlot(p, k, c)
          PROVE  content' = content
      BY <3>3 DEF FillSlot, ClearSlot, BeginFillSlot, library
    <3> QED
      BY <1>5, <3>1, <3>2, <3>3 DEF LibraryStep
  <2> QED
    BY <2>1, <2>2 DEF plans, SameFor
<1>6. ASSUME ScheduleStep(p)
      PROVE  Owing(d)' \/ SameFor(d)
  <2>1. CASE \E chosen \in SUBSET Contents : SetItems(p, chosen)
    BY <1>3, <2>1 DEF SetItems
  <2>2. ASSUME NEW e \in Displays, RequestRefresh(p, e)
        PROVE  Owing(d)' \/ SameFor(d)
    <3>1. CASE e = d
      BY <1>3, <2>2, <3>1 DEF RequestRefresh
    <3>2. CASE e # d
      BY <2>2, <3>2 DEF RequestRefresh, library, SameFor, TypeInv, RowsInv
    <3> QED
      BY <3>1, <3>2
  <2>3. ASSUME NEW e \in Displays, NEW due \in SUBSET Kinds, EditSchedule(p, e, due)
        PROVE  Owing(d)' \/ SameFor(d)
    <3>1. CASE e = d
      BY <1>3, <2>3, <3>1 DEF EditSchedule
    <3>2. CASE e # d
      BY <2>3, <3>2 DEF EditSchedule, library, SameFor, TypeInv, RowsInv
    <3> QED
      BY <3>1, <3>2
  <2> QED
    BY <1>6, <2>1, <2>2, <2>3 DEF ScheduleStep
<1> QED
  BY <1>1, <1>2, <1>4, <1>5, <1>6, OwingGrows

\* No step breaks what is said of a display.
LEMMA SeenStep ==
  ASSUME TypeInv, TypeInv', SeenInv, [Next]_vars, NEW d \in Displays
  PROVE  Seen(d)'
<1>0. Seen(d)
  BY DEF SeenInv, Seen
<1>1. CASE UNCHANGED vars
  BY <1>0, <1>1, SeenFrame DEF vars, Current, Owing, SameFor
<1>2. ASSUME NEW e \in Displays, Fetch(e)
      PROVE  Seen(d)'
  <2>1. CASE e = d
    BY <1>0, <1>2, <2>1, FetchSeen
  <2>2. CASE e # d
    <3>1. Current(d)' => Current(d)
      BY <1>2, <2>2, FetchNotices DEF Current
    <3>2. SameFor(d)
      BY <1>2, FetchFrame DEF library, plans, SameFor
    <3> QED
      BY <1>0, <1>2, <2>2, <3>1, <3>2, FetchType, SeenFrame
  <2> QED
    BY <2>1, <2>2
<1>3. ASSUME NEW e \in Displays, Connect(e) \/ Disconnect(e) \/ Heartbeat(e)
      PROVE  Seen(d)'
  <2>1. UNCHANGED <<library, plans, api, fetch, held>>
    BY <1>3 DEF Connect, Disconnect, Heartbeat
  <2>2. told \subseteq told' /\ missed \subseteq told' \cup missed'
    BY <1>3, PublishFacts DEF Connect, Disconnect, Heartbeat, TypeInv
  <2>3. Current(d)' => Current(d)
    BY <2>1, <2>2 DEF Current, Owing, api
  <2> QED
    BY <1>0, <2>1, <2>3, SeenFrame DEF library, plans, SameFor
<1>4. ASSUME NEW p \in Requests, EmergencyStep(p) \/ LibraryStep(p) \/ ScheduleStep(p)
      PROVE  Seen(d)'
  <2>1. /\ UNCHANGED <<told, missed, fetch, held>>
        /\ Owing(d) => Owing(d)'
        /\ Owing(d)' \/ SameFor(d)
    BY <1>4, RequestSeen
  <2>2. Current(d)' => Current(d) /\ SameFor(d)
    BY <2>1 DEF Current
  <2> QED
    BY <1>0, <2>1, <2>2, SeenFrame
<1>5. ASSUME NEW p \in Requests, Tell(p)
      PROVE  Seen(d)'
  <2>1. /\ UNCHANGED <<library, plans, fetch, held>>
        /\ told \subseteq told' /\ missed \subseteq told' \cup missed'
        /\ task[p].to \subseteq told' \cup missed'
        /\ \A q \in Requests \ {p} : step'[q] = step[q] /\ task'[q] = task[q]
    BY <1>5, TellType
  <2>2. Current(d)' => Current(d)
    BY <2>1 DEF Current, Owing
  <2> QED
    BY <1>0, <2>1, <2>2, SeenFrame DEF library, plans, SameFor
<1>6. ASSUME NEW e \in Displays, NEW due \in SUBSET Kinds, Tick(e, due)
      PROVE  Seen(d)'
  BY <1>0, <1>6, TickType, SeenFrame DEF library, displays, api, Current, Owing, SameFor
<1>7. ASSUME NEW c \in Contents, Ingested(c)
      PROVE  Seen(d)'
  <2>1. content'[Flash] = content[Flash]
    BY <1>7, PlaybackAssumption DEF Ingested, TypeInv, RowsInv
  <2> QED
    BY <1>0, <1>7, <2>1, IngestedType, SeenFrame DEF plans, displays, api, Current, Owing, SameFor
<1>8. CASE Restart
  BY <1>8 DEF Restart, Seen, Current
<1> QED
  BY <1>1, <1>2, <1>3, <1>4, <1>5, <1>6, <1>7, <1>8, StepCases

\* The invariant is inductive.
LEMMA StepInv ==
  ASSUME IInv, [Next]_vars
  PROVE  IInv'
<1>1. TypeInv'
  BY StepType DEF IInv
<1>2. ReliedInv'
  BY ReliedStep DEF IInv
<1>3. SeenInv'
  BY <1>1, SeenStep DEF IInv, SeenInv, Seen
<1>4. faults' \in {faults, faults + 1}
  <2>1. CASE UNCHANGED vars
    BY <2>1 DEF vars
  <2>2. ASSUME NEW d \in Displays, Fetch(d) \/ Connect(d) \/ Disconnect(d) \/ Heartbeat(d)
        PROVE  faults' \in {faults, faults + 1}
    BY <2>2 DEF Fetch, BeginFetch, Read, ReadFlash, ReadSlot, ReadAsset, ReadItems, ReadContents,
       Reply, Connect, Disconnect, Heartbeat
  <2>3. ASSUME NEW p \in Requests, EmergencyStep(p) \/ LibraryStep(p) \/ ScheduleStep(p) \/ Tell(p)
        PROVE  faults' = faults
    BY <2>3 DEF EmergencyStep, LibraryStep, ScheduleStep, BeginActivate, VetEmergency, Activate,
       Deactivate, BeginFillSlot, FillSlot, ClearSlot, EditContent, ReplaceFile, DeleteContent,
       SetItems, RequestRefresh, EditSchedule, Tell
  <2> QED
    BY <2>1, <2>2, <2>3, StepCases DEF Tick, Ingested, Restart
<1> QED
  BY <1>1, <1>2, <1>3, <1>4 DEF IInv

-----------------------------------------------------------------------------
(* Theorems                                                                *)

\* The invariant holds always.
LEMMA PlaybackInvariance == Spec => []IInv
<1> QED
  BY InitInv, StepInv, PTL DEF Spec

\* However changes, deletions and requests for an emergency meet, the rows refer to what
\* is there, and an emergency without anything to play lost it to a change of its slot
\* or of its content that came after the request had looked (ActivateGlobalEmergencyUseCase).
THEOREM EmergencyHasSomething == Spec => []Inv
<1>1. IInv => TypeOK
  BY DEF IInv, TypeInv, RowsInv, DisplaysInv, TypeOK
<1>2. IInv => EmptyEmergencyWasUndercut
  BY DEF IInv, ReliedInv, EmptyEmergencyWasUndercut
<1> QED
  BY <1>1, <1>2, PlaybackInvariance, PTL DEF Inv

\* For any number of displays, requests, slots and contents, and whatever fails: once its
\* notice is out and acted on, a display has every change that was announced, although its
\* manifest was put together from up to seven reads between which anything may change
\* (GetDisplayManifestUseCase, the publishers of its events).
THEOREM AnnouncedReachesDisplays == Spec => []AnnouncedIsSeen
<1>1. IInv => AnnouncedIsSeen
  BY DEF IInv, SeenInv, AnnouncedIsSeen, Caught, Current, HeldTrue
<1> QED
  BY <1>1, PlaybackInvariance, PTL

\* Whatever a display sent as its entity tag, it has the very manifest that was put
\* together for it: "not modified" is said of no other (matchesIfNoneMatch).
THEOREM KeptIsTheAnswer == Spec => KeptIsExact
<1>1. ASSUME IInv, [Next]_vars, NEW d \in Displays, Answering(d)
      PROVE  \/ fetch[d].at = "asset"
                  /\ held'[d] = EmergencyManifest(fetch[d], File(fetch[d].asset))
             \/ fetch[d].at = "reply" /\ held'[d] = ScheduleManifest(fetch[d])
  <2> USE <1>1 DEF IInv
  <2>1. fetch[d].at \in {"asset", "reply"} /\ fetch'[d].at = "idle" /\ faults' = faults
    BY <1>1 DEF Answering
  <2>2. Fetch(d)
    <3>1. ~(fetch'[d] = fetch[d])
      BY <2>1
    <3>2. ~Restart
      BY <2>1 DEF Restart
    <3>3. ASSUME NEW e \in Displays, Fetch(e) PROVE e = d
      BY <3>1, <3>3, FetchType
    <3>4. Next /\ ~(UNCHANGED fetch)
      BY <1>1, <3>1 DEF vars
    <3>5. ASSUME NEW e \in Displays, Connect(e) \/ Disconnect(e) \/ Heartbeat(e) PROVE FALSE
      BY <3>4, <3>5 DEF Connect, Disconnect, Heartbeat
    <3>6. ASSUME NEW p \in Requests, EmergencyStep(p) \/ LibraryStep(p) \/ ScheduleStep(p) \/ Tell(p)
          PROVE  FALSE
      BY <3>4, <3>6, EmergencyType, LibraryType, ScheduleType, TellType
    <3>7. ASSUME NEW e \in Displays, NEW due \in SUBSET Kinds, Tick(e, due) PROVE FALSE
      BY <3>4, <3>7, TickType DEF displays
    <3>8. ASSUME NEW c \in Contents, Ingested(c) PROVE FALSE
      BY <3>4, <3>8, IngestedType DEF displays
    <3> QED
      BY <3>2, <3>3, <3>4, <3>5, <3>6, <3>7, <3>8, StepCases
  <2>3. ReadAsset(d) \/ Reply(d)
    BY <2>1, <2>2, FetchCases
    DEF BeginFetch, Read, ReadFlash, ReadSlot, ReadItems, ReadContents, Reading
  <2> QED
    BY <2>1, <2>3, AnswerStep
<1>2. IInv /\ [Next]_vars =>
        [\A d \in Displays : Answering(d) =>
           \/ fetch[d].at = "asset"
                /\ held'[d] = EmergencyManifest(fetch[d], File(fetch[d].asset))
           \/ fetch[d].at = "reply" /\ held'[d] = ScheduleManifest(fetch[d])]_vars
  BY <1>1
<1> QED
  BY <1>2, PlaybackInvariance, PTL DEF Spec, KeptIsExact

-----------------------------------------------------------------------------
(***************************************************************************)
(* The status of the displays.                                             *)
(*                                                                         *)
(* That a display is DOWN only in silence is a property of the reconciler, *)
(* which writes from what it read before.  StatusInv says what its         *)
(* readings are worth while heartbeats come in (PassInv).                  *)
(***************************************************************************)

BeatState == [at : {"idle", "read", "write"}, hours : BOOLEAN,
              was : Statuses \cup {None}, active : BOOLEAN]

PassState == [at : {"idle", "list", "keys", "each"}, left : SUBSET {"rows", "schedules"},
              hours : BOOLEAN, rows : UNION {[D -> Statuses] : D \in SUBSET Displays},
              plan : SUBSET Displays, seen : SUBSET Displays]

\* What TypeOK leaves open: the records of requests and of the pass.
StatusTypeInv == StatusTypeOK /\ beat \in [Displays -> BeatState] /\ pass \in PassState

\* A display the pass has yet to write and had not seen is still silent, or was heard
\* since.
PassInv ==
  pass.at = "each" =>
    \A d \in DOMAIN pass.rows \ pass.seen : key[d] = 0 \/ d \in heard

StatusInv == StatusTypeInv /\ PassInv

\* What is derived is a status and not None; of a display just seen it is not DOWN.
LEMMA DeriveType ==
  ASSUME NEW age, NEW active
  PROVE  /\ Derive(age, active) \in Statuses
         /\ Derive(age, active) # None
         /\ Derive(0, active) # "DOWN"
<1> QED
  BY DisplayStatusAssumption DEF Derive, Statuses

\* A status written over another keeps the types, and no row appears or goes.
LEMMA SetStatusType ==
  ASSUME StatusTypeOK, NEW d \in Displays, NEW s \in Statuses,
         status' = status \/ SetStatus(d, s)
  PROVE  /\ status' \in [Displays -> Statuses \cup {None}]
         /\ \A e \in Displays : status'[e] = None <=> status[e] = None
         /\ \A e \in Displays : status'[e] # status[e] => e = d /\ status'[e] = s
<1> QED
  BY DisplayStatusAssumption DEF StatusTypeOK, SetStatus

\* No pass is a pass that has read nothing.
LEMMA NoPassType ==
  NoPass \in PassState /\ DOMAIN NoPass.rows = {} /\ NoPass.at = "idle"
<1>1. [d \in {} |-> None] \in UNION {[D -> Statuses] : D \in SUBSET Displays}
  <2>1. [d \in {} |-> None] \in [{} -> Statuses]
    OBVIOUS
  <2> QED
    BY <2>1
<1> QED
  BY <1>1 DEF NoPass, PassState

-----------------------------------------------------------------------------
(* Types                                                                   *)

\* The first state is well typed.
LEMMA StatusInitType == StatusInit => StatusTypeInv
<1>1. NoBeat \in BeatState
  BY DEF NoBeat, BeatState
<1> SUFFICES ASSUME StatusInit PROVE StatusTypeInv
  OBVIOUS
<1>2. /\ status \in [Displays -> Statuses \cup {None}]
      /\ plan \subseteq {d \in Displays : status[d] # None}
  BY DisplayStatusAssumption DEF StatusInit, Statuses
<1>3. key \in [Displays -> 0..Ttl] /\ edits \in 0..MaxChanges /\ failures \in 0..MaxFaults
  BY DisplayStatusAssumption DEF StatusInit
<1>4. beat \in [Displays -> BeatState]
  BY <1>1 DEF StatusInit
<1>5. pass \in PassState /\ pass.at = "idle"
  BY NoPassType DEF StatusInit
<1> QED
  BY <1>2, <1>3, <1>4, <1>5 DEF StatusInit, StatusTypeInv, StatusTypeOK, BeatState

\* A heartbeat keeps the types at every step.
LEMMA BeatType ==
  ASSUME StatusTypeInv, NEW d \in Displays,
         Beat(d) \/ ReadRow(d) \/ Settle(d) \/ FailBeat(d)
  PROVE  StatusTypeInv'
<1>1. NoBeat \in BeatState
  BY DEF NoBeat, BeatState
<1>2. CASE Beat(d)
  <2>1. [NoBeat EXCEPT !.at = "read", !.hours = hours] \in BeatState
    BY <1>1 DEF BeatState, StatusTypeInv, StatusTypeOK
  <2>2. beat' \in [Displays -> BeatState]
    BY <1>2, <2>1 DEF Beat, StatusTypeInv
  <2>3. key' \in [Displays -> 0..Ttl]
    BY <1>2, DisplayStatusAssumption DEF Beat, StatusTypeInv, StatusTypeOK
  <2> QED
    BY <1>2, <2>2, <2>3 DEF Beat, table, StatusTypeInv, StatusTypeOK, BeatState
<1>3. CASE ReadRow(d)
  <2>1. beat' \in [Displays -> BeatState]
    <3>1. beat[d] \in BeatState /\ status[d] \in Statuses \cup {None}
      BY DEF StatusTypeInv, StatusTypeOK
    <3>2. [beat[d] EXCEPT !.at = "write", !.was = status[d],
             !.active = d \in plan /\ beat[d].hours] \in BeatState
      BY <3>1 DEF BeatState
    <3> QED
      BY <1>1, <1>3, <3>2 DEF ReadRow, StatusTypeInv
  <2> QED
    BY <1>3, <2>1 DEF ReadRow, table, StatusTypeInv, StatusTypeOK, BeatState
<1>4. CASE Settle(d)
  <2>1. beat' \in [Displays -> BeatState]
    BY <1>1, <1>4 DEF Settle, StatusTypeInv
  <2>2. Derive(0, beat[d].active) \in Statuses
    BY DeriveType
  <2>3. status' = status \/ SetStatus(d, Derive(0, beat[d].active))
    BY <1>4 DEF Settle
  <2>4. /\ status' \in [Displays -> Statuses \cup {None}]
        /\ \A e \in Displays : status'[e] = None <=> status[e] = None
    BY <2>2, <2>3, SetStatusType DEF StatusTypeInv
  <2> QED
    BY <1>4, <2>1, <2>4 DEF Settle, StatusTypeInv, StatusTypeOK, BeatState
<1>5. CASE FailBeat(d)
  <2>1. beat' \in [Displays -> BeatState]
    BY <1>1, <1>5 DEF FailBeat, StatusTypeInv
  <2>2. failures' \in 0..MaxFaults
    BY <1>5, DisplayStatusAssumption DEF FailBeat, StatusTypeInv, StatusTypeOK
  <2> QED
    BY <1>5, <2>1, <2>2 DEF FailBeat, table, StatusTypeInv, StatusTypeOK, BeatState
<1> QED
  BY <1>2, <1>3, <1>4, <1>5

\* A pass keeps the types at every step.
LEMMA PassType ==
  ASSUME StatusTypeInv, Pass \/ FailPass
  PROVE  StatusTypeInv'
<1>1. CASE BeginPass
  <2>1. pass' \in PassState
    BY <1>1, NoPassType DEF BeginPass, PassState, StatusTypeInv, StatusTypeOK
  <2> QED
    BY <1>1, <2>1 DEF BeginPass, table, StatusTypeInv, StatusTypeOK, PassState
<1>2. CASE List
  <2>1. PICK what \in pass.left :
          LET p == [pass EXCEPT !.left = @ \ {what},
                                !.at = IF pass.left = {what} THEN "keys" ELSE "list"]
          IN  pass' = IF what = "rows" THEN [p EXCEPT !.rows = [d \in Listed |-> status[d]]]
                      ELSE [p EXCEPT !.plan = plan]
    BY <1>2 DEF List
  <2>2. [d \in Listed |-> status[d]] \in UNION {[D -> Statuses] : D \in SUBSET Displays}
    <3>1. \A d \in Listed : status[d] \in Statuses
      BY DEF Listed, StatusTypeInv, StatusTypeOK
    <3>2. [d \in Listed |-> status[d]] \in [Listed -> Statuses]
      BY <3>1
    <3> QED
      BY <3>2 DEF Listed
  <2>3. plan \in SUBSET Displays
    BY DEF StatusTypeInv, StatusTypeOK
  <2>4. pass' \in PassState
    BY <2>1, <2>2, <2>3 DEF PassState, StatusTypeInv
  <2> QED
    BY <1>2, <2>4 DEF List, table, StatusTypeInv, StatusTypeOK, PassState
<1>3. CASE ReadKeys
  <2>1. DOMAIN pass.rows \subseteq Displays
    BY DEF StatusTypeInv, PassState
  <2>2. pass' \in PassState
    BY <1>3, <2>1 DEF ReadKeys, PassState, StatusTypeInv
  <2> QED
    BY <1>3, <2>2 DEF ReadKeys, table, StatusTypeInv, StatusTypeOK, PassState
<1>4. ASSUME NEW d \in Displays, Reconcile(d)
      PROVE  StatusTypeInv'
  <2>1. [e \in DOMAIN pass.rows \ {d} |-> pass.rows[e]]
          \in UNION {[D -> Statuses] : D \in SUBSET Displays}
    <3>1. PICK D \in SUBSET Displays : pass.rows \in [D -> Statuses]
      BY DEF StatusTypeInv, PassState
    <3>2. [e \in DOMAIN pass.rows \ {d} |-> pass.rows[e]] \in [D \ {d} -> Statuses]
      BY <3>1
    <3> QED
      BY <3>2
  <2>2. pass' \in PassState
    BY <1>4, <2>1 DEF Reconcile, PassState, StatusTypeInv
  <2>3. Found(d) \in Statuses
    BY DeriveType DEF Found
  <2>4. status' = status \/ SetStatus(d, Found(d))
    BY <1>4 DEF Reconcile
  <2>5. /\ status' \in [Displays -> Statuses \cup {None}]
        /\ \A e \in Displays : status'[e] = None <=> status[e] = None
    BY <2>3, <2>4, SetStatusType DEF StatusTypeInv
  <2> QED
    BY <1>4, <2>2, <2>5 DEF Reconcile, StatusTypeInv, StatusTypeOK, PassState
<1>5. CASE EndPass
  BY <1>5, NoPassType DEF EndPass, table, StatusTypeInv, StatusTypeOK, PassState
<1>6. CASE FailPass
  <2>1. failures' \in 0..MaxFaults
    BY <1>6, DisplayStatusAssumption DEF FailPass, StatusTypeInv, StatusTypeOK
  <2> QED
    BY <1>6, <2>1, NoPassType DEF FailPass, table, StatusTypeInv, StatusTypeOK, PassState
<1> QED
  BY <1>1, <1>2, <1>3, <1>4, <1>5, <1>6 DEF Pass

\* A change of the plan, the hours or the rows counts as one.
LEMMA ChangeType ==
  ASSUME StatusTypeInv, Alter
  PROVE  edits' \in 0..MaxChanges
<1> QED
  BY DisplayStatusAssumption DEF Alter, StatusTypeInv, StatusTypeOK

\* What happens meanwhile keeps the types.
LEMMA MeanwhileType ==
  ASSUME StatusTypeInv,
         \/ Minute \/ ChangeHours \/ RestartReconciler
         \/ \E d \in Displays : EditSchedules(d) \/ Register(d) \/ Unregister(d)
  PROVE  StatusTypeInv'
<1>1. CASE Minute
  <2>1. key' \in [Displays -> 0..Ttl]
    BY <1>1, DisplayStatusAssumption DEF Minute, StatusTypeInv, StatusTypeOK
  <2> QED
    BY <1>1, <2>1 DEF Minute, table, StatusTypeInv, StatusTypeOK
<1>2. CASE ChangeHours
  BY <1>2, ChangeType DEF ChangeHours, table, StatusTypeInv, StatusTypeOK
<1>3. CASE RestartReconciler
  <2>1. beat' \in [Displays -> BeatState]
    BY <1>3 DEF RestartReconciler, NoBeat, BeatState
  <2>2. failures' \in 0..MaxFaults
    BY <1>3, DisplayStatusAssumption DEF RestartReconciler, StatusTypeInv, StatusTypeOK
  <2> QED
    BY <1>3, <2>1, <2>2, NoPassType
    DEF RestartReconciler, table, StatusTypeInv, StatusTypeOK, BeatState, PassState
<1>4. ASSUME NEW d \in Displays, EditSchedules(d)
      PROVE  StatusTypeInv'
  <2>1. plan' \subseteq {e \in Displays : status[e] # None}
    BY <1>4 DEF EditSchedules, StatusTypeInv, StatusTypeOK
  <2> QED
    BY <1>4, <2>1, ChangeType DEF EditSchedules, StatusTypeInv, StatusTypeOK
<1>5. ASSUME NEW d \in Displays, Register(d)
      PROVE  StatusTypeInv'
  <2>1. /\ status' \in [Displays -> Statuses \cup {None}]
        /\ \A e \in Displays : status[e] # None => status'[e] # None
    BY <1>5, DisplayStatusAssumption DEF Register, StatusTypeInv, StatusTypeOK,
       Statuses
  <2> QED
    BY <1>5, <2>1, ChangeType DEF Register, StatusTypeInv, StatusTypeOK
<1>6. ASSUME NEW d \in Displays, Unregister(d)
      PROVE  StatusTypeInv'
  <2>1. /\ status' \in [Displays -> Statuses \cup {None}]
        /\ \A e \in Displays \ {d} : status'[e] = status[e]
    BY <1>6 DEF Unregister, StatusTypeInv, StatusTypeOK
  <2> QED
    BY <1>6, <2>1, ChangeType DEF Unregister, StatusTypeInv, StatusTypeOK
<1> QED
  BY <1>1, <1>2, <1>3, <1>4, <1>5, <1>6

\* Every step keeps the types.
LEMMA StatusStepType ==
  ASSUME StatusTypeInv, [StatusNext]_statusVars
  PROVE  StatusTypeInv'
<1>1. CASE StatusNext
  BY <1>1, BeatType, PassType, MeanwhileType DEF StatusNext
<1>2. CASE UNCHANGED statusVars
  BY <1>2 DEF statusVars, StatusTypeInv, StatusTypeOK
<1> QED
  BY <1>1, <1>2

\* Whatever displays, heartbeats, passes and changes there are, the state keeps its
\* types; above all a display without a row has no status and no schedule, although
\* heartbeats and passes write for displays that may be gone (updateStatus).
THEOREM StatusTypeCorrect == StatusSpec => []StatusTypeOK
<1>1. StatusTypeInv => StatusTypeOK
  BY DEF StatusTypeInv
<1> QED
  BY <1>1, StatusInitType, StatusStepType, PTL DEF StatusSpec

-----------------------------------------------------------------------------
(* Silence                                                                 *)

\* Every step of a heartbeat leaves silent displays silent or heard.
LEMMA BeatSilence ==
  ASSUME StatusInv, NEW d \in Displays,
         Beat(d) \/ ReadRow(d) \/ Settle(d) \/ FailBeat(d)
  PROVE  PassInv'
<1>1. CASE Beat(d)
  <2>1. DOMAIN pass.rows \subseteq Displays
    BY DEF StatusInv, StatusTypeInv, PassState
  <2>2. \A e \in Displays \ {d} : key'[e] = key[e]
    BY <1>1 DEF Beat, StatusInv, StatusTypeInv, StatusTypeOK
  <2> QED
    BY <1>1, <2>1, <2>2 DEF Beat, StatusInv, PassInv
<1>2. CASE ReadRow(d) \/ Settle(d) \/ FailBeat(d)
  BY <1>2 DEF ReadRow, Settle, FailBeat, StatusInv, PassInv
<1> QED
  BY <1>1, <1>2

\* A key that is read in time is not over the window: what was not seen had no key.
\* Writing a status takes a display out of the pass, and the others stay as they are.
LEMMA PassSilence ==
  ASSUME Ttl <= Window, StatusInv, Pass \/ FailPass
  PROVE  PassInv'
<1>1. CASE BeginPass
  BY <1>1 DEF BeginPass, NoPass, PassInv
<1>2. CASE List
  <2>1. pass'.at \in {"keys", "list"}
    BY <1>2 DEF List, StatusInv, StatusTypeInv, PassState
  <2> QED
    BY <2>1 DEF PassInv
<1>3. CASE ReadKeys
  <2>1. /\ pass'.rows = pass.rows
        /\ pass'.seen = {d \in DOMAIN pass.rows : Age(d) <= Window}
    BY <1>3 DEF ReadKeys, StatusInv, StatusTypeInv, PassState
  <2>2. ASSUME NEW d \in DOMAIN pass.rows, ~(Age(d) <= Window)
        PROVE  key[d] = 0
    <3>1. d \in Displays
      BY DEF StatusInv, StatusTypeInv, PassState
    <3>2. key[d] \in 0..Ttl
      BY <3>1 DEF StatusInv, StatusTypeInv, StatusTypeOK
    <3> QED
      BY <2>2, <3>2, DisplayStatusAssumption DEF Age
  <2>3. key' = key
    BY <1>3 DEF ReadKeys
  <2> QED
    BY <2>1, <2>2, <2>3 DEF PassInv
<1>4. ASSUME NEW d \in Displays, Reconcile(d)
      PROVE  PassInv'
  <2>1. /\ DOMAIN pass'.rows = DOMAIN pass.rows \ {d}
        /\ pass'.seen = pass.seen /\ pass'.at = pass.at
    BY <1>4 DEF Reconcile, StatusInv, StatusTypeInv, PassState
  <2> QED
    BY <1>4, <2>1 DEF Reconcile, StatusInv, PassInv
<1>5. CASE EndPass \/ FailPass
  BY <1>5 DEF EndPass, FailPass, NoPass, PassInv
<1> QED
  BY <1>1, <1>2, <1>3, <1>4, <1>5 DEF Pass

\* Time takes minutes from the keys only, and a restart ends the pass.
LEMMA MeanwhileSilence ==
  ASSUME StatusInv,
         \/ Minute \/ ChangeHours \/ RestartReconciler
         \/ \E d \in Displays : EditSchedules(d) \/ Register(d) \/ Unregister(d)
  PROVE  PassInv'
<1>1. CASE Minute
  <2>1. DOMAIN pass.rows \subseteq Displays
    BY DEF StatusInv, StatusTypeInv, PassState
  <2>2. \A d \in Displays : key[d] = 0 => key'[d] = 0
    BY <1>1 DEF Minute
  <2> QED
    BY <1>1, <2>1, <2>2 DEF Minute, StatusInv, PassInv
<1>2. CASE RestartReconciler
  BY <1>2 DEF RestartReconciler, NoPass, PassInv
<1>3. CASE \/ ChangeHours
           \/ \E d \in Displays : EditSchedules(d) \/ Register(d) \/ Unregister(d)
  BY <1>3 DEF ChangeHours, EditSchedules, Register, Unregister,
     StatusInv, PassInv
<1> QED
  BY <1>1, <1>2, <1>3

\* Every step keeps the invariant.
LEMMA StatusStepInv ==
  ASSUME Ttl <= Window, StatusInv, [StatusNext]_statusVars
  PROVE  StatusInv'
<1>1. StatusTypeInv'
  BY StatusStepType DEF StatusInv
<1>2. CASE StatusNext
  <2>1. PassInv'
    BY <1>2, BeatSilence, PassSilence, MeanwhileSilence DEF StatusNext
  <2> QED
    BY <1>1, <2>1 DEF StatusInv
<1>3. CASE UNCHANGED statusVars
  BY <1>1, <1>3 DEF statusVars, StatusInv, PassInv
<1> QED
  BY <1>2, <1>3

\* The steps that write DOWN: only the reconciler does, for a display it has not seen.
LEMMA DownStep ==
  ASSUME StatusInv, [StatusNext]_statusVars, NEW d \in Displays,
         status[d] # "DOWN", status'[d] = "DOWN"
  PROVE  key[d] = 0 \/ d \in heard
<1> USE DEF StatusInv, StatusTypeInv
<1>1. ASSUME NEW e \in Displays, Settle(e)
      PROVE  FALSE
  <2>1. Derive(0, beat[e].active) \in Statuses \ {"DOWN"}
    BY DeriveType
  <2>2. status' = status \/ SetStatus(e, Derive(0, beat[e].active))
    BY <1>1 DEF Settle
  <2> QED
    BY <2>1, <2>2, SetStatusType
<1>2. ASSUME NEW e \in Displays, Reconcile(e)
      PROVE  key[d] = 0 \/ d \in heard
  <2>1. Found(e) \in Statuses
    BY DeriveType DEF Found
  <2>2. status' = status \/ SetStatus(e, Found(e))
    BY <1>2 DEF Reconcile
  <2>3. e = d /\ Found(d) = "DOWN"
    BY <2>1, <2>2, SetStatusType
  <2>4. d \notin pass.seen
    BY <2>3, DeriveType DEF Found
  <2> QED
    BY <1>2, <2>3, <2>4 DEF Reconcile, PassInv
<1>3. ASSUME NEW e \in Displays, Register(e) \/ Unregister(e)
      PROVE  FALSE
  <2>1. status'[d] \in {status[d], "PROCESSING", None}
    BY <1>3 DEF Register, Unregister, StatusTypeOK
  <2> QED
    BY <2>1, DisplayStatusAssumption DEF Statuses
<1>4. status' # status
  OBVIOUS
<1>5. \/ \E e \in Displays : Settle(e) \/ Register(e) \/ Unregister(e)
      \/ \E e \in Displays : Reconcile(e)
  BY <1>4
  DEF StatusNext, Pass, Beat, ReadRow, FailBeat, EditSchedules,
      BeginPass, List, ReadKeys, EndPass, FailPass, Minute,
      ChangeHours, RestartReconciler, table, statusVars
<1> QED
  BY <1>1, <1>2, <1>3, <1>5

\* Where a key does not outlive the window (120 seconds, five minutes), a display
\* becomes DOWN only after a silence or for a heartbeat that overtook the pass, for
\* any number of displays and whatever fails (startDisplayStatusReconciler).
THEOREM DownInSilence ==
  ASSUME Ttl <= Window
  PROVE  StatusSpec => DownOnlyInSilence
<1>1. StatusInit => StatusInv
  <2>1. StatusInit => pass.at = "idle"
    BY DEF StatusInit, NoPass
  <2> QED
    BY <2>1, StatusInitType DEF StatusInv, PassInv
<1>2. StatusInv /\ [StatusNext]_statusVars => StatusInv'
  BY StatusStepInv
<1>3. StatusInv /\ [StatusNext]_statusVars =>
        [\A d \in Displays : status[d] # "DOWN" /\ status'[d] = "DOWN" =>
           key[d] = 0 \/ d \in heard]_statusVars
  BY DownStep
<1> QED
  BY <1>1, <1>2, <1>3, PTL DEF StatusSpec, DownOnlyInSilence

=============================================================================
