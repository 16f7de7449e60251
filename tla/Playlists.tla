------------------------------ MODULE Playlists ------------------------------
(***************************************************************************)
(* The items of the playlists and the contents they use: requests that     *)
(* create a playlist, add, update, delete, reorder and replace items, set  *)
(* and clear emergency slots, edit and delete contents, and the clean-up   *)
(* of contents nothing has used for long.  A handler reads, decides in     *)
(* memory and writes with no lock between: every await that another        *)
(* process can come between ends a step.                                   *)
(*                                                                         *)
(* Which playlists schedules hold is fixed here (Schedules has that part), *)
(* and what a file's processing does to a content is in ContentFiles.      *)
(* Loop flags, names and events are left out.                              *)
(***************************************************************************)
EXTENDS Naturals, Sequences, FiniteSets, FiniteSetsExt

CONSTANTS Requests,     \* API requests; each is served once
          Cleanup,      \* the content clean-up of the maintenance worker
          PlaylistIds,
          Unscheduled,  \* the playlists that no unfinished schedule plays
          Contents,
          Slots,        \* the emergency slots
          Flash,        \* contents of type FLASH
          Unready,      \* contents that are not READY
          Length,       \* content -> seconds of the video, 0 when it has none
          Started,      \* item -> its row at the start, or None
          Adds,         \* the additions clients ask for
          Updates,      \* the changes to one item clients ask for
          Orders,       \* the orders clients ask for
          Lists,        \* the whole lists clients ask for
          MaxDuration,  \* seconds a playlist may last
          None,
          NoContent,    \* what a slot holds whose content was deleted
          MaxItems,     \* bound: items ever made
          MaxOverlap,   \* bound: processes at work at once
          MaxBreaks     \* bound: failed statements and crashes

ItemIds == 1..MaxItems
ItemRow == [playlist : PlaylistIds, content : Contents, sequence : Nat \ {0}, duration : Nat \ {0}]

\* An entry of a list names an item to keep, or a content to make an item of.
Entry == {e \in [item : ItemIds \cup {None}, content : Contents \cup {None}, duration : Nat \ {0}] :
            e.item = None <=> e.content # None}

ASSUME PlaylistsAssumption ==
  /\ None \notin Contents \cup ItemIds \cup ItemRow \cup {NoContent, "recent", "old", "gone"}
  /\ NoContent \notin Contents
  /\ Cleanup \notin Requests
  /\ Unscheduled \subseteq PlaylistIds
  /\ Flash \subseteq Contents /\ Unready \subseteq Contents
  /\ Length \in [Contents -> Nat]
  /\ Started \in [ItemIds -> ItemRow \cup {None}]
  /\ \A i, j \in ItemIds : i <= j /\ Started[j] # None =>
       /\ Started[i] # None
       /\ Started[i].playlist = Started[j].playlist /\ Started[i].sequence = Started[j].sequence => i = j
  /\ Adds \subseteq [content : Contents, sequence : Nat \ {0}, duration : Nat \ {0}]
  /\ Updates \subseteq [id : ItemIds, sequence : Nat, duration : Nat]
  /\ Orders \subseteq Seq(ItemIds)
  /\ Lists \subseteq Seq(Entry)
  /\ MaxDuration \in Nat /\ MaxItems \in Nat /\ MaxOverlap \in Nat /\ MaxBreaks \in Nat

VARIABLES playlist,  \* playlist -> "absent", "there" or "gone"
          items,     \* item -> its row, or None
          made,      \* how many items were ever made
          unused,    \* content -> None while used, else "recent" or "old"; or "gone"
          slot,      \* emergency slot -> its content, NoContent, or None without a row
          step,      \* what each process does next
          task,      \* what each process holds in memory
          alone,     \* history: no two processes were ever at work at once
          strayed,   \* history: contents whose items went with their playlist
          breaks     \* failed statements and crashes so far

dataVars == <<playlist, items, made, unused, slot>>
playlistsVars == <<dataVars, step, task, alone, strayed, breaks>>

Processes == Requests \cup {Cleanup}

Steps == {"idle", "done", "insert", "mark", "refresh", "age", "fetch", "write", "delete",
          "reorder", "list", "relist", "replace", "undo", "drop", "readSlot", "writeSlot",
          "rereadSlot", "clearSlot", "deleteContent", "sweep", "choose", "purge"}

\* op: the operation; playlist, input: what it is about; listed, found: the rows
\* read, by the handler and then by the repository; row: the one row, or slot,
\* read before its write; mark: contents to mark used; fade: contents that may no
\* longer be.
Blank == [op |-> None, playlist |-> None, input |-> None, listed |-> <<>>, found |-> <<>>,
          row |-> None, mark |-> {}, fade |-> {}]

Busy == {p \in Processes : step[p] \notin {"idle", "done"}}

Begin(p) == step[p] = "idle" /\ Cardinality(Busy) < MaxOverlap

Go(p, s, t) ==
  /\ step' = [step EXCEPT ![p] = s]
  /\ task' = [task EXCEPT ![p] = t]
  /\ alone' = (alone /\ Busy \subseteq {p})

Return(p) == Go(p, IF p \in Requests THEN "done" ELSE "idle", Blank)

\* The end of a request; the clean-up goes on from playlists to contents.
Settle(p) == IF p = Cleanup THEN Go(p, "choose", Blank) ELSE Return(p)

RowsOf(p) == [i \in {j \in ItemIds : items[j] # None /\ items[j].playlist = p} |-> items[i]]
ListOf(rows) == CHOOSE s \in [1..Cardinality(DOMAIN rows) -> DOMAIN rows] :
                  \A a, b \in DOMAIN s : a < b => rows[s[a]].sequence < rows[s[b]].sequence
Total(rows) == MapThenSumSet(LAMBDA i : rows[i].duration, DOMAIN rows)

\* Mutant: no sequence counts as taken.
SequencesOf_None(rows) == {}

SequencesOf(rows) == {rows[i].sequence : i \in DOMAIN rows}

InItems(c) == \E i \in ItemIds : items[i] # None /\ items[i].content = c
InSlots(c) == \E s \in Slots : slot[s] = c
Referenced(c) == InItems(c) \/ InSlots(c)

There(c) == unused[c] # "gone"
Ready(c) == There(c) /\ c \notin Unready
\* What an emergency slot may show.
Renderable(c) == Ready(c) /\ c \notin Flash
Fits(c, duration) == Length[c] = 0 \/ duration <= Length[c]

\* An item whose sequence another item of the playlist has is refused.
Unique(rows) == \A i, j \in DOMAIN rows : rows[i].sequence = rows[j].sequence => i = j

PlaylistsInit ==
  /\ playlist = [p \in PlaylistIds |->
                   IF \E i \in ItemIds : Started[i] # None /\ Started[i].playlist = p
                   THEN "there" ELSE "absent"]
  /\ items = Started
  /\ made = Cardinality({i \in ItemIds : Started[i] # None})
  /\ unused = [c \in Contents |->
                 IF \E i \in ItemIds : Started[i] # None /\ Started[i].content = c
                 THEN None ELSE "recent"]
  /\ slot = [s \in Slots |-> None]
  /\ step = [p \in Processes |-> "idle"]
  /\ task = [p \in Processes |-> Blank]
  /\ alone = TRUE
  /\ strayed = {}
  /\ breaks = 0

(***************************************************************************)
(* Contents in use and no longer.                                          *)
(***************************************************************************)

\* After the items changed: mark the new contents, then refresh the old ones.
ThenMark(p, mark, fade) ==
  IF mark = {} /\ fade = {} THEN Settle(p)
  ELSE Go(p, IF mark # {} THEN "mark" ELSE "refresh", [task[p] EXCEPT !.mark = mark, !.fade = fade])

MarkContentUsed(p) ==
  /\ step[p] = "mark"
  /\ unused' = [c \in Contents |-> IF c \in task[p].mark /\ There(c) THEN None ELSE unused[c]]
  /\ ThenMark(p, {}, task[p].fade)
  /\ UNCHANGED <<playlist, items, made, slot, strayed, breaks>>

\* Two statements: those with a reference are in use ...
RefreshUsed(p) ==
  /\ step[p] = "refresh"
  /\ unused' = [c \in Contents |-> IF c \in task[p].fade /\ Referenced(c) THEN None ELSE unused[c]]
  /\ Go(p, "age", task[p])
  /\ UNCHANGED <<playlist, items, made, slot, strayed, breaks>>

\* Mutant: the second statement does not look at the references.
RefreshUnused_Blind(p) ==
  /\ step[p] = "age"
  /\ unused' = [c \in Contents |-> IF c \in task[p].fade /\ unused[c] = None THEN "recent"
                                   ELSE unused[c]]
  /\ Settle(p)
  /\ UNCHANGED <<playlist, items, made, slot, strayed, breaks>>

\* ... and those without one age from now on, unless they do already.
RefreshUnused(p) ==
  /\ step[p] = "age"
  /\ unused' = [c \in Contents |->
                  IF c \in task[p].fade /\ unused[c] = None /\ ~Referenced(c) THEN "recent"
                  ELSE unused[c]]
  /\ Settle(p)
  /\ UNCHANGED <<playlist, items, made, slot, strayed, breaks>>

(***************************************************************************)
(* One item.                                                               *)
(***************************************************************************)

\* Mutant: the other items' durations are not counted.
CanAdd_Apart(rows, new) ==
  /\ Ready(new.content) /\ new.content \notin Flash
  /\ Fits(new.content, new.duration)
  /\ new.duration <= MaxDuration
  /\ new.sequence \notin SequencesOf(rows)

CanAdd(rows, new) ==
  /\ Ready(new.content) /\ new.content \notin Flash
  /\ Fits(new.content, new.duration)
  /\ Total(rows) + new.duration <= MaxDuration
  /\ new.sequence \notin SequencesOf(rows)

BeginAdd(r, p, new) ==
  /\ Begin(r)
  /\ playlist[p] = "there"
  /\ CanAdd(RowsOf(p), new)
  /\ Go(r, "insert", [Blank EXCEPT !.op = "add", !.playlist = p, !.input = new, !.listed = RowsOf(p)])
  /\ UNCHANGED <<dataVars, strayed, breaks>>

\* The keys of the table refuse what is no longer possible.
InsertItem(r) ==
  /\ step[r] = "insert"
  /\ made < MaxItems
  /\ LET p == task[r].playlist  new == task[r].input
         row == [playlist |-> p, content |-> new.content,
                 sequence |-> new.sequence, duration |-> new.duration]
     IN  IF playlist[p] = "there" /\ There(new.content) /\ new.sequence \notin SequencesOf(RowsOf(p))
         THEN /\ items' = [items EXCEPT ![made + 1] = row]
              /\ made' = made + 1
              /\ ThenMark(r, {new.content}, {})
         ELSE Return(r) /\ UNCHANGED <<items, made>>
  /\ UNCHANGED <<playlist, unused, slot, strayed, breaks>>

\* 0 stands for a field that is left as it is.  The sum is checked only for a new
\* duration, over the other items as they were listed.
BeginUpdate(r, p, change) ==
  /\ Begin(r)
  /\ playlist[p] = "there"
  /\ change.id \in DOMAIN RowsOf(p)
  /\ change.duration # 0 =>
       /\ Fits(items[change.id].content, change.duration)
       /\ Total(RowsOf(p)) - items[change.id].duration + change.duration <= MaxDuration
  /\ Go(r, "fetch", [Blank EXCEPT !.op = "update", !.playlist = p, !.input = change,
                                  !.listed = RowsOf(p)])
  /\ UNCHANGED <<dataVars, strayed, breaks>>

Fetch(r) ==
  /\ step[r] = "fetch"
  /\ LET row == items[task[r].input.id]
     IN  IF row = None THEN Return(r)
         ELSE Go(r, "write", [task[r] EXCEPT !.row = row])
  /\ UNCHANGED <<dataVars, strayed, breaks>>

Merged(row, change) ==
  [row EXCEPT !.sequence = IF change.sequence = 0 THEN row.sequence ELSE change.sequence,
              !.duration = IF change.duration = 0 THEN row.duration ELSE change.duration]

\* The whole row is written, with what was fetched in the fields left as they are.
WriteItem(r) ==
  /\ step[r] = "write"
  /\ LET id == task[r].input.id
         row == Merged(task[r].row, task[r].input)
         rows == RowsOf(row.playlist)
     IN  items' = IF id \in DOMAIN rows /\ Unique([rows EXCEPT ![id] = row])
                  THEN [items EXCEPT ![id] = row]
                  ELSE items
  /\ Return(r)
  /\ UNCHANGED <<playlist, made, unused, slot, strayed, breaks>>

\* Mutant: the last item may go too.
BeginDelete_Any(r, p, id) ==
  /\ Begin(r)
  /\ playlist[p] = "there"
  /\ id \in DOMAIN RowsOf(p)
  /\ Go(r, "delete", [Blank EXCEPT !.op = "delete", !.playlist = p, !.input = id, !.listed = RowsOf(p)])
  /\ UNCHANGED <<dataVars, strayed, breaks>>

BeginDelete(r, p, id) ==
  /\ Begin(r)
  /\ playlist[p] = "there"
  /\ id \in DOMAIN RowsOf(p)
  /\ Cardinality(DOMAIN RowsOf(p)) > 1
  /\ Go(r, "delete", [Blank EXCEPT !.op = "delete", !.playlist = p, !.input = id, !.listed = RowsOf(p)])
  /\ UNCHANGED <<dataVars, strayed, breaks>>

DeleteItem(r) ==
  /\ step[r] = "delete"
  /\ LET id == task[r].input
     IN  IF items[id] = None THEN Return(r)
         ELSE ThenMark(r, {}, {items[id].content})
  /\ items' = [items EXCEPT ![task[r].input] = None]
  /\ UNCHANGED <<playlist, made, unused, slot, strayed, breaks>>

(***************************************************************************)
(* The order of all the items.                                             *)
(***************************************************************************)

PlaceOf(id, order) == CHOOSE n \in DOMAIN order : order[n] = id

BeginReorder(r, p, order) ==
  /\ Begin(r)
  /\ playlist[p] = "there"
  /\ {order[n] : n \in DOMAIN order} = DOMAIN RowsOf(p)
  /\ Len(order) = Cardinality(DOMAIN RowsOf(p))
  /\ Go(r, "reorder", [Blank EXCEPT !.op = "reorder", !.playlist = p, !.input = order,
                                    !.listed = RowsOf(p), !.found = RowsOf(p)])
  /\ UNCHANGED <<dataVars, strayed, breaks>>

Reordered(rows, order) ==
  [i \in DOMAIN rows |-> IF \E n \in DOMAIN order : order[n] = i
                         THEN [rows[i] EXCEPT !.sequence = PlaceOf(i, order)]
                         ELSE rows[i]]

\* One transaction, undone when an item made in between has one of the places.
ReorderItems(r) ==
  /\ step[r] = "reorder"
  /\ LET rows == Reordered(RowsOf(task[r].playlist), task[r].input)
     IN  items' = IF Unique(rows)
                  THEN [i \in ItemIds |-> IF i \in DOMAIN rows THEN rows[i] ELSE items[i]]
                  ELSE items
  /\ Return(r)
  /\ UNCHANGED <<playlist, made, unused, slot, strayed, breaks>>

(***************************************************************************)
(* The whole list, of a playlist that is there or just being created.      *)
(***************************************************************************)

Kept(list) == {list[n].item : n \in DOMAIN list} \ {None}
NewContents(list) == {list[n].content : n \in DOMAIN list} \ {None}
ListTotal(list) == MapThenSumSet(LAMBDA n : list[n].duration, DOMAIN list)

BeginReplace(r, p, list) ==
  /\ Begin(r)
  /\ playlist[p] = "there"
  /\ list # <<>>
  /\ ListTotal(list) <= MaxDuration
  /\ Go(r, "list", [Blank EXCEPT !.op = "replace", !.playlist = p, !.input = list])
  /\ UNCHANGED <<dataVars, strayed, breaks>>

\* The row of the playlist first; its items by a replacement of none.
BeginCreate(r, p, list) ==
  /\ Begin(r)
  /\ playlist[p] = "absent"
  /\ list # <<>> /\ Kept(list) = {}
  /\ playlist' = [playlist EXCEPT ![p] = "there"]
  /\ Go(r, "list", [Blank EXCEPT !.op = "create", !.playlist = p, !.input = list])
  /\ UNCHANGED <<items, made, unused, slot, strayed, breaks>>

\* A creation that fails takes its playlist back.
Refuse(r) == IF task[r].op = "create" THEN Go(r, "undo", task[r]) ELSE Return(r)

Acceptable(list, rows) ==
  /\ Kept(list) \subseteq DOMAIN rows
  /\ \A m, n \in DOMAIN list : list[m].item = list[n].item /\ list[m].item # None => m = n
  /\ ListTotal(list) <= MaxDuration
  /\ \A n \in DOMAIN list :
       LET c == IF list[n].item = None THEN list[n].content ELSE rows[list[n].item].content
       IN  /\ c \notin Flash
           /\ IF list[n].item = None THEN Ready(c) ELSE There(c)
           /\ Fits(c, list[n].duration)

CheckList(r) ==
  /\ step[r] = "list"
  /\ LET p == task[r].playlist
     IN  IF Acceptable(task[r].input, RowsOf(p))
         THEN Go(r, "relist", [task[r] EXCEPT !.listed = RowsOf(p)])
         ELSE Refuse(r)
  /\ UNCHANGED <<dataVars, strayed, breaks>>

\* The repository lists the items again, before its transaction.
Relist(r) ==
  /\ step[r] = "relist"
  /\ Go(r, "replace", [task[r] EXCEPT !.found = RowsOf(task[r].playlist)])
  /\ UNCHANGED <<dataVars, strayed, breaks>>

\* The items that the second listing had and the list does not keep.
Dropped(r) == DOMAIN task[r].found \ Kept(task[r].input)

NewEntries(list) == {n \in DOMAIN list : list[n].item = None}
\* The id that the new item of place n gets.
NewId(list, n) == made + Cardinality({m \in NewEntries(list) : m <= n})

\* Mutant: the items that are not kept stay.
Replaced_Keeping(r, rows) ==
  LET list == task[r].input  p == task[r].playlist
      kept == Kept(list) \cap DOMAIN rows \cap DOMAIN task[r].found
      fresh == {NewId(list, n) : n \in NewEntries(list)}
      place(i) == IF i \in fresh THEN CHOOSE n \in NewEntries(list) : NewId(list, n) = i
                  ELSE CHOOSE n \in DOMAIN list : list[n].item = i
  IN  [i \in DOMAIN rows \cup fresh |->
         IF i \in fresh
         THEN [playlist |-> p, content |-> list[place(i)].content, sequence |-> place(i),
               duration |-> list[place(i)].duration]
         ELSE IF i \in kept
         THEN [rows[i] EXCEPT !.sequence = place(i), !.duration = list[place(i)].duration]
         ELSE rows[i]]

\* The rows of the playlist after the transaction, from those it finds: of the
\* ones listed before it some go, the kept take their place, new ones are added.
Replaced(r, rows) ==
  LET list == task[r].input  p == task[r].playlist
      kept == Kept(list) \cap DOMAIN rows \cap DOMAIN task[r].found
      fresh == {NewId(list, n) : n \in NewEntries(list)}
      place(i) == IF i \in fresh THEN CHOOSE n \in NewEntries(list) : NewId(list, n) = i
                  ELSE CHOOSE n \in DOMAIN list : list[n].item = i
  IN  [i \in (DOMAIN rows \ Dropped(r)) \cup fresh |->
         IF i \in fresh
         THEN [playlist |-> p, content |-> list[place(i)].content, sequence |-> place(i),
               duration |-> list[place(i)].duration]
         ELSE IF i \in kept
         THEN [rows[i] EXCEPT !.sequence = place(i), !.duration = list[place(i)].duration]
         ELSE rows[i]]

ReplaceItems(r) ==
  /\ step[r] = "replace"
  /\ LET list == task[r].input  p == task[r].playlist
         rows == Replaced(r, RowsOf(p))
         new == NewContents(list)
     IN  /\ made + Cardinality(NewEntries(list)) <= MaxItems
         /\ IF /\ Unique(rows)
               /\ new # {} => playlist[p] = "there"
               /\ \A c \in new : There(c)
            THEN /\ items' = [i \in ItemIds |-> IF i \in DOMAIN rows THEN rows[i]
                                                ELSE IF i \in DOMAIN RowsOf(p) THEN None
                                                ELSE items[i]]
                 /\ made' = made + Cardinality(NewEntries(list))
                 /\ ThenMark(r, new, {task[r].found[i].content : i \in Dropped(r)})
            ELSE Refuse(r) /\ UNCHANGED <<items, made>>
  /\ UNCHANGED <<playlist, unused, slot, strayed, breaks>>

(***************************************************************************)
(* Deleting a playlist; its items go with it, unseen by their contents.    *)
(***************************************************************************)

ContentsOf(ps) == UNION {{items[i].content : i \in DOMAIN RowsOf(p)} : p \in ps}

DropPlaylists(ps) ==
  /\ playlist' = [p \in PlaylistIds |-> IF p \in ps THEN "gone" ELSE playlist[p]]
  /\ items' = [i \in ItemIds |-> IF items[i] # None /\ items[i].playlist \in ps THEN None
                                 ELSE items[i]]

\* Mutant: the creation leaves its playlist behind.
UndoCreate_Leaving(r) ==
  /\ step[r] = "undo"
  /\ Return(r)
  /\ UNCHANGED <<dataVars, strayed, breaks>>

UndoCreate(r) ==
  /\ step[r] = "undo"
  /\ DropPlaylists({task[r].playlist})
  /\ strayed' = strayed \cup ContentsOf({task[r].playlist})
  /\ Return(r)
  /\ UNCHANGED <<made, unused, slot, breaks>>

BeginDeletePlaylist(r, p) ==
  /\ Begin(r)
  /\ playlist[p] = "there" /\ p \in Unscheduled
  /\ Go(r, "drop", [Blank EXCEPT !.op = "drop", !.playlist = p])
  /\ UNCHANGED <<dataVars, strayed, breaks>>

DeletePlaylist(r) ==
  /\ step[r] = "drop"
  /\ DropPlaylists({task[r].playlist})
  /\ strayed' = strayed \cup ContentsOf({task[r].playlist})
  /\ Return(r)
  /\ UNCHANGED <<made, unused, slot, breaks>>

(***************************************************************************)
(* Emergency slots.                                                        *)
(***************************************************************************)

BeginSetSlot(r, s, c) ==
  /\ Begin(r)
  /\ Renderable(c)
  /\ Go(r, "readSlot", [Blank EXCEPT !.op = "set", !.input = [slot |-> s, content |-> c]])
  /\ UNCHANGED <<dataVars, strayed, breaks>>

BeginClearSlot(r, s) ==
  /\ Begin(r)
  /\ Go(r, "readSlot", [Blank EXCEPT !.op = "clear", !.input = [slot |-> s, content |-> None]])
  /\ UNCHANGED <<dataVars, strayed, breaks>>

ReadSlot(r) ==
  /\ step[r] = "readSlot"
  /\ Go(r, IF task[r].op = "set" THEN "writeSlot" ELSE "clearSlot",
        [task[r] EXCEPT !.row = slot[task[r].input.slot]])
  /\ UNCHANGED <<dataVars, strayed, breaks>>

WriteSlot(r) ==
  /\ step[r] = "writeSlot"
  /\ LET in == task[r].input
     IN  IF There(in.content)
         THEN slot' = [slot EXCEPT ![in.slot] = in.content] /\ Go(r, "rereadSlot", task[r])
         ELSE Return(r) /\ UNCHANGED slot
  /\ UNCHANGED <<playlist, items, made, unused, strayed, breaks>>

\* Mutant: the content that a slot had is forgotten.
Former_None(r) == {}

\* The content the slot had, when it is another one, may be out of use.
Former(r) == {task[r].row} \ {None, NoContent, task[r].input.content}

\* A slot cleared in between ends the request before it marks anything.
RereadSlot(r) ==
  /\ step[r] = "rereadSlot"
  /\ IF slot[task[r].input.slot] = None THEN Return(r)
     ELSE ThenMark(r, {task[r].input.content}, Former(r))
  /\ UNCHANGED <<dataVars, strayed, breaks>>

ClearSlot(r) ==
  /\ step[r] = "clearSlot"
  /\ slot' = [slot EXCEPT ![task[r].input.slot] = None]
  /\ IF slot[task[r].input.slot] = None THEN Return(r) ELSE ThenMark(r, {}, Former(r))
  /\ UNCHANGED <<playlist, items, made, unused, strayed, breaks>>

(***************************************************************************)
(* Contents: edited, deleted by staff, or cleaned up when long unused.     *)
(***************************************************************************)

\* Any edit sets unusedSince by the references there are.
EditContent(r, c) ==
  /\ Begin(r)
  /\ There(c)
  /\ unused' = [unused EXCEPT ![c] = IF Referenced(c) THEN None ELSE "recent"]
  /\ Return(r)
  /\ UNCHANGED <<playlist, items, made, slot, strayed, breaks>>

\* Items are asked for, emergency slots are not.
BeginDeleteContent(r, c) ==
  /\ Begin(r)
  /\ There(c) /\ ~InItems(c)
  /\ Go(r, "deleteContent", [Blank EXCEPT !.op = "deleteContent", !.mark = {c}])
  /\ UNCHANGED <<dataVars, strayed, breaks>>

\* An item restricts the deletion of its content, a slot loses it.
DropContents(cs) ==
  IF \E c \in cs : InItems(c) THEN UNCHANGED <<unused, slot>>
  ELSE /\ unused' = [c \in Contents |-> IF c \in cs THEN "gone" ELSE unused[c]]
       /\ slot' = [s \in Slots |-> IF slot[s] \in cs THEN NoContent ELSE slot[s]]

DeleteContent(r) ==
  /\ step[r] = "deleteContent"
  /\ DropContents(task[r].mark)
  /\ Return(r)
  /\ UNCHANGED <<playlist, items, made, strayed, breaks>>

Expired == {c \in Contents : unused[c] = "old" /\ ~Referenced(c)}

\* The playlists that were unused for long and the contents of their items are read
\* first.
BeginCleanup(ps) ==
  /\ Begin(Cleanup)
  /\ ps \subseteq Unscheduled /\ \A p \in ps : playlist[p] = "there"
  /\ Go(Cleanup, IF ps = {} THEN "choose" ELSE "sweep",
        [Blank EXCEPT !.input = ps, !.fade = ContentsOf(ps)])
  /\ UNCHANGED <<dataVars, strayed, breaks>>

\* Then they go, and those contents are refreshed.
Sweep ==
  /\ step[Cleanup] = "sweep"
  /\ DropPlaylists(task[Cleanup].input)
  /\ strayed' = strayed \cup (ContentsOf(task[Cleanup].input) \ task[Cleanup].fade)
  /\ ThenMark(Cleanup, {}, task[Cleanup].fade)
  /\ UNCHANGED <<made, unused, slot, breaks>>

\* listed: the slots as they were when the contents were chosen.
Choose ==
  /\ step[Cleanup] = "choose"
  /\ IF Expired = {} THEN Return(Cleanup)
     ELSE Go(Cleanup, "purge", [Blank EXCEPT !.mark = Expired, !.listed = slot])
  /\ UNCHANGED <<dataVars, strayed, breaks>>

\* Deleted by id: one that an item uses by now keeps them all.
Purge ==
  /\ step[Cleanup] = "purge"
  /\ DropContents(task[Cleanup].mark)
  /\ Return(Cleanup)
  /\ UNCHANGED <<playlist, items, made, strayed, breaks>>

\* The retention of an unused content runs out.
Age ==
  /\ \E c \in Contents :
       unused[c] = "recent" /\ unused' = [unused EXCEPT ![c] = "old"]
  /\ UNCHANGED <<playlist, items, made, slot, step, task, alone, strayed, breaks>>

(***************************************************************************)

\* A statement fails: the request ends, a creation is taken back if it can be.
Break(r) ==
  /\ r \in Busy
  /\ breaks < MaxBreaks /\ breaks' = breaks + 1
  /\ IF step[r] = "undo" THEN Return(r) ELSE Refuse(r)
  /\ UNCHANGED <<dataVars, strayed>>

\* The API stops: everything in progress is forgotten.
Crash ==
  /\ Busy # {}
  /\ breaks < MaxBreaks /\ breaks' = breaks + 1
  /\ step' = [p \in Processes |-> IF p \notin Busy THEN step[p]
                                  ELSE IF p = Cleanup THEN "idle" ELSE "done"]
  /\ task' = [p \in Processes |-> Blank]
  /\ UNCHANGED <<dataVars, alone, strayed>>

BeginItemStep(r) ==
  \/ \E p \in PlaylistIds, new \in Adds : BeginAdd(r, p, new)
  \/ \E p \in PlaylistIds, change \in Updates : BeginUpdate(r, p, change)
  \/ \E p \in PlaylistIds, id \in ItemIds : BeginDelete(r, p, id)
  \/ \E p \in PlaylistIds, order \in Orders : BeginReorder(r, p, order)
  \/ \E p \in PlaylistIds, list \in Lists : BeginReplace(r, p, list)
  \/ \E p \in PlaylistIds, list \in Lists : BeginCreate(r, p, list)

ItemStep(r) ==
  \/ InsertItem(r)
  \/ Fetch(r)
  \/ WriteItem(r)
  \/ DeleteItem(r)
  \/ ReorderItems(r)
  \/ CheckList(r)
  \/ Relist(r)
  \/ ReplaceItems(r)
  \/ UndoCreate(r)

ContentStep(p) ==
  \/ MarkContentUsed(p)
  \/ RefreshUsed(p)
  \/ RefreshUnused(p)

OtherStep(r) ==
  \/ \E p \in PlaylistIds : BeginDeletePlaylist(r, p)
  \/ DeletePlaylist(r)
  \/ \E s \in Slots, c \in Contents : BeginSetSlot(r, s, c)
  \/ \E s \in Slots : BeginClearSlot(r, s)
  \/ ReadSlot(r)
  \/ WriteSlot(r)
  \/ RereadSlot(r)
  \/ ClearSlot(r)
  \/ \E c \in Contents : EditContent(r, c)
  \/ \E c \in Contents : BeginDeleteContent(r, c)
  \/ DeleteContent(r)
  \/ Break(r)

PlaylistsNext ==
  \/ \E r \in Requests : BeginItemStep(r) \/ ItemStep(r) \/ OtherStep(r)
  \/ \E p \in Processes : ContentStep(p)
  \/ \E ps \in SUBSET PlaylistIds : BeginCleanup(ps)
  \/ Sweep
  \/ Choose
  \/ Purge
  \/ Age
  \/ Crash

PlaylistsSpec == PlaylistsInit /\ [][PlaylistsNext]_playlistsVars

(***************************************************************************)
(* Properties.                                                             *)
(***************************************************************************)

\* The state is well formed: places and durations are positive, every item's
\* playlist and content are there, and a playlist has one item at each place.
PlaylistsTypeOK ==
  /\ playlist \in [PlaylistIds -> {"absent", "there", "gone"}]
  /\ items \in [ItemIds -> ItemRow \cup {None}]
  /\ made \in 0..MaxItems
  /\ unused \in [Contents -> {None, "recent", "old", "gone"}]
  /\ slot \in [Slots -> Contents \cup {None, NoContent}]
  /\ step \in [Processes -> Steps]
  /\ \A i \in ItemIds : items[i] # None =>
       i <= made /\ playlist[items[i].playlist] = "there" /\ There(items[i].content)
  /\ \A p \in PlaylistIds : Unique(RowsOf(p))

\* The list that r decided by is no longer what the playlist has; an update also
\* decides by the row it fetched.
Stale(r) ==
  \/ task[r].listed # RowsOf(task[r].playlist)
  \/ task[r].op = "update" /\ task[r].row # items[task[r].input.id]

\* r takes a step, and no fault is the cause.
Acts(r) == (step'[r] # step[r] \/ task'[r] # task[r]) /\ breaks' = breaks

Empty(p) == playlist[p] = "there" /\ DOMAIN RowsOf(p) = {}
Overfull(p) == Total(RowsOf(p)) > MaxDuration

\* A playlist loses its last item, or comes to last longer than the maximum, only by a
\* request that counted or summed other items than there are by then: "Playlists must
\* contain at least one item" and the maximum duration fail by a race and in no other
\* way (delete-playlist-item, replaceItemsAtomic, the checks of add, update and
\* replace, and the row that an update writes back whole).
LimitsBreakFromStaleList ==
  [][\A p \in PlaylistIds :
       (DOMAIN RowsOf(p) # {} /\ Empty(p)') \/ (~Overfull(p) /\ Overfull(p)') =>
         \E r \in Requests : Acts(r) /\ task[r].playlist = p /\ Stale(r)]_playlistsVars

AsAsked(r, rows) ==
  LET list == ListOf(rows)  asked == task[r].input
  IN  /\ Len(list) = Len(asked)
      /\ \A n \in DOMAIN asked :
           IF task[r].op = "reorder" THEN list[n] = asked[n]
           ELSE /\ rows[list[n]].duration = asked[n].duration
                /\ asked[n].item # None => list[n] = asked[n].item
                /\ asked[n].item = None => rows[list[n]].content = asked[n].content

\* When the items are still those that were listed, a reordering or a replacement
\* does go through, and leaves the items asked for, in that order: two phases of
\* sequences, kept, dropped and new rows never collide (reorderItems,
\* replaceItemsAtomic).
ListIsAsAsked ==
  [][\A r \in Requests, p \in PlaylistIds :
       (/\ step[r] \in {"reorder", "replace"} /\ Acts(r)
        /\ task[r].playlist = p /\ playlist[p] = "there"
        /\ task[r].listed = RowsOf(p) /\ task[r].found = RowsOf(p)
        /\ step[r] = "replace" => \A c \in NewContents(task[r].input) : There(c))
       => AsAsked(r, RowsOf(p)')]_playlistsVars

\* Whatever the interleaving of additions, deletions, replacements and slots, a
\* content that is used does not age once they are over: the mark after an
\* insertion wins over a refresh that saw none (markContentUsed,
\* refreshContentUnusedSince).
UsedIsNotAged ==
  (Busy = {} /\ breaks = 0) => \A c \in Contents : Referenced(c) => unused[c] = None

\* Requests one at a time leave no unused content that does not age, and so is
\* never cleaned up, but those whose items went with their playlist: deleting a
\* playlist refreshes no content.
UnusedAges ==
  (alone /\ Busy = {} /\ breaks = 0) =>
     \A c \in Contents \ strayed : unused[c] = None => Referenced(c)

\* Requests one at a time leave every playlist with an item, the refused creation
\* included, which deletes what it began (create-playlist).
NoEmptyPlaylist == (alone /\ Busy = {} /\ breaks = 0) => \A p \in PlaylistIds : ~Empty(p)

\* Once requests are over, the bookkeeping is true: contents age when they are unused
\* and only then, and no playlist is empty.
BookkeepingIsTrue == PlaylistsTypeOK /\ UsedIsNotAged /\ UnusedAges /\ NoEmptyPlaylist
==============================================================================
