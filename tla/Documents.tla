------------------------------ MODULE Documents ------------------------------
(***************************************************************************)
(* The agenda of one meeting and what is written down about it: agenda     *)
(* sections and items, minute sections, notes on items and the minutes,    *)
(* from meetings/views.py and serializers.py.                              *)
(*                                                                         *)
(* No handler here opens a transaction.  Each reads a row, changes the     *)
(* columns its request names and saves the row whole, as it was read.      *)
(* Django's save updates the row, or inserts it again if it is gone.       *)
(*                                                                         *)
(* Its names differ from those of Attendance, so that one module can       *)
(* extend both parts of a meeting.                                         *)
(***************************************************************************)
EXTENDS Naturals, FiniteSets

CONSTANTS
  Orders,     \* places of sections on the agenda
  Items,      \* agenda items
  SectionOf,  \* the agenda section of each item, 0 for none
  Editors,    \* requests that may be under way at the same time
  MaxEdits    \* bound on requests in all

ASSUME DocumentsAssumptions ==
  /\ Orders \subseteq Nat \ {0}
  /\ SectionOf \in [Items -> Orders \cup {0}]
  /\ MaxEdits \in Nat

VARIABLES
  agenda,    \* agenda sections, one for each place, and whether they are active
  sections,  \* minute sections, of which (meeting, order) is unique
  items,     \* agenda items, and whether they are completed and by whom stamped
  notes,     \* number of agenda minute notes of each item
  minutes,   \* the minutes, one row at most
  edit,      \* requests under way
  edits,     \* requests so far
  slips      \* history: what has happened that properties are conditional on

tables == <<agenda, sections, items, notes, minutes>>
documents == <<agenda, sections, items, notes, minutes, edit, edits, slips>>

Slips == {"overlap",  \* two requests about one thing overlapped
          "silent",   \* a completed item was edited without saying it is completed
          "posted",   \* a minute section was created as active or completed
          "born"}     \* an item was created as completed

Is        == {"new", "live", "gone"}
Section   == [is : Is, from : Orders \cup {0}, working : BOOLEAN, done : BOOLEAN, stamped : BOOLEAN]
NoSection == [is |-> "new", from |-> 0, working |-> FALSE, done |-> FALSE, stamped |-> FALSE]
Item      == [is : Is, done : BOOLEAN, stamped : BOOLEAN]

\* What a request says of a Boolean column; "row" is what it has read, "todo" the
\* agenda sections it has yet to copy.
Says == {"yes", "no", "nothing"}
Said(column, say) == IF say = "nothing" THEN column ELSE say = "yes"

NoEdit == [job |-> "none", about |-> 0, step |-> "read", row |-> NoSection,
           says |-> <<"nothing", "nothing">>, todo |-> {}]

DocumentsInit ==
  /\ agenda = [k \in Orders |-> "new"]
  /\ sections = [k \in Orders |-> NoSection]
  /\ items = [i \in Items |-> [is |-> "new", done |-> FALSE, stamped |-> FALSE]]
  /\ notes = [i \in Items |-> 0]
  /\ minutes = "none"
  /\ edit = [c \in Editors |-> NoEdit]
  /\ edits = 0 /\ slips = {}

-----------------------------------------------------------------------------
Sections == {k \in Orders : sections[k] # NoSection}
Live(i)  == items[i].is = "live"
Kept(k)  == agenda[k] \in {"active", "inactive"}
Housed(i) == SectionOf[i] = 0 \/ Kept(SectionOf[i])

Note(kind, happened) == slips' = IF happened THEN slips \cup {kind} ELSE slips

\* A request that reads; one about a minute section may touch them all.
Begin(c, image) ==
  /\ edit[c] = NoEdit /\ edits < MaxEdits
  /\ edit' = [edit EXCEPT ![c] = image]
  /\ edits' = edits + 1
  /\ Note("overlap", \E d \in Editors :
       edit[d].job = image.job /\ (image.job = "section" \/ edit[d].about = image.about))
  /\ UNCHANGED tables

\* One that is done in a single statement.
AtOnce == edits < MaxEdits /\ edits' = edits + 1 /\ UNCHANGED edit

Goto(c, step) == edit' = [edit EXCEPT ![c].step = step] /\ UNCHANGED <<edits, slips>>
End(c) == edit' = [edit EXCEPT ![c] = NoEdit] /\ UNCHANGED edits

\* A worker that dies, or an answer that is an error.
Abandon(c) ==
  /\ edit[c] # NoEdit
  /\ End(c) /\ UNCHANGED <<tables, slips>>

-----------------------------------------------------------------------------
(* Agenda sections and items. *)

AddAgendaSection(k) ==
  /\ agenda[k] = "new"
  /\ agenda' = [agenda EXCEPT ![k] = "active"]
  /\ AtOnce /\ UNCHANGED <<sections, items, notes, minutes, slips>>

\* An edit of an agenda section, taken in one step.
ActivateAgendaSection(k) ==
  /\ Kept(k)
  /\ agenda' = [agenda EXCEPT ![k] = IF @ = "active" THEN "inactive" ELSE "active"]
  /\ AtOnce /\ UNCHANGED <<sections, items, notes, minutes, slips>>

\* Deletion takes along the rows that refer to the one deleted.
Under(k) == {i \in Items : Live(i) /\ SectionOf[i] = k}
Dropped(S) ==
  /\ items' = [i \in Items |-> IF i \in S THEN [items[i] EXCEPT !.is = "gone"] ELSE items[i]]
  /\ notes' = [i \in Items |-> IF i \in S THEN 0 ELSE notes[i]]
  /\ Note("overlap", \E c \in Editors : edit[c].job \in {"item", "note"} /\ edit[c].about \in S)

SectionsWithoutDetached(k) == sections
SectionsWithout(k) ==
  [j \in Orders |-> IF sections[j].from = k THEN NoSection ELSE sections[j]]

DeleteAgendaSection(k) ==
  /\ Kept(k)
  /\ agenda' = [agenda EXCEPT ![k] = "gone"]
  /\ sections' = SectionsWithout(k)
  /\ Dropped(Under(k))
  /\ AtOnce /\ UNCHANGED minutes

\* The new item may be completed already, and is not stamped then.
AddItem(i) ==
  /\ items[i].is = "new" /\ Housed(i)
  /\ \E done \in BOOLEAN :
       /\ items' = [items EXCEPT ![i] = [is |-> "live", done |-> done, stamped |-> FALSE]]
       /\ Note("born", done)
  /\ AtOnce /\ UNCHANGED <<agenda, sections, notes, minutes>>

DeleteItem(i) ==
  /\ Live(i)
  /\ Dropped({i})
  /\ AtOnce /\ UNCHANGED <<agenda, sections, minutes>>

\* AgendaItemViewSet.update: the row to save, ...
ReadItem(c, i) ==
  /\ Live(i)
  /\ \E say \in Says :
       Begin(c, [NoEdit EXCEPT !.job = "item", !.about = i, !.row.done = items[i].done,
                               !.row.stamped = items[i].stamped, !.says = <<say, "nothing">>])

\* ... the row read again in perform_update, for the completion stamp, ...
StampOnce(done, say) == IF say = "yes" /\ ~done THEN "yes" ELSE "nothing"
Stamp(done, say) ==
  IF say = "yes" /\ ~done THEN "yes" ELSE IF say # "yes" /\ done THEN "no" ELSE "nothing"

TrackCompletion(c) ==
  LET i == edit[c].about
      say == edit[c].says[1]
  IN /\ edit[c].job = "item" /\ edit[c].step = "read" /\ Live(i)
     /\ edit' = [edit EXCEPT ![c].step = "save", ![c].says = <<say, Stamp(items[i].done, say)>>]
     /\ Note("silent", say = "nothing" /\ items[i].done)
     /\ UNCHANGED <<tables, edits>>

\* ... and the save, an insert if the item has been deleted since.
SaveItem(c) ==
  LET i == edit[c].about
  IN /\ edit[c].job = "item" /\ edit[c].step = "save" /\ Housed(i)
     /\ items' = [items EXCEPT ![i] =
          [is |-> "live", done |-> Said(edit[c].row.done, edit[c].says[1]),
           stamped |-> Said(edit[c].row.stamped, edit[c].says[2])]]
     /\ End(c) /\ UNCHANGED <<agenda, sections, notes, minutes, slips>>

-----------------------------------------------------------------------------
(* Minute sections. *)

\* POST without any: one for each active agenda section, created one by one.
ListAgenda(c) ==
  /\ Sections = {}
  /\ Begin(c, [NoEdit EXCEPT !.job = "fill", !.todo = {k \in Orders : agenda[k] = "active"}])

FillSection(c) ==
  LET todo == edit[c].todo
      k == CHOOSE k \in todo : \A j \in todo : k <= j
  IN /\ edit[c].job = "fill" /\ todo # {}
     /\ k \notin Sections /\ Kept(k)
     /\ sections' = [sections EXCEPT ![k] =
          [NoSection EXCEPT !.is = "live", !.from = k]]
     /\ edit' = [edit EXCEPT ![c].todo = todo \ {k}]
     /\ UNCHANGED <<agenda, items, notes, minutes, edits, slips>>

\* POST of a further one.
AddSection(k) ==
  /\ Sections # {} /\ k \notin Sections
  /\ \E working, done \in BOOLEAN :
       /\ sections' = [sections EXCEPT ![k] =
            [NoSection EXCEPT !.is = "live", !.working = working, !.done = done]]
       /\ Note("posted", working \/ done)
  /\ AtOnce /\ UNCHANGED <<agenda, items, notes, minutes>>

\* PATCH: the row, ...
ReadSection(c, k) ==
  /\ k \in Sections
  /\ \E working, done \in Says :
       Begin(c, [NoEdit EXCEPT !.job = "section", !.about = k, !.row = sections[k],
                               !.says = <<working, done>>])

\* ... all sections set inactive before one becomes the active one, ...
DeactivatedNone == sections
Deactivated == [k \in Orders |-> [sections[k] EXCEPT !.working = FALSE]]

Deactivate(c) ==
  /\ edit[c].job = "section" /\ edit[c].step = "read" /\ edit[c].says[1] = "yes"
  /\ sections' = Deactivated
  /\ Goto(c, "save")
  /\ UNCHANGED <<agenda, items, notes, minutes>>

\* ... and the save.  A section completed is inactive unless the request says so.
SavedSection(row, working, done) ==
  [is |-> "live", from |-> row.from,
   working |-> Said(row.working /\ done # "yes", working),
   done    |-> Said(row.done, done),
   stamped |-> row.stamped \/ (done = "yes" /\ ~row.done)]

SaveSection(c) ==
  LET says == edit[c].says
      row == edit[c].row
  IN /\ edit[c].job = "section"
     /\ edit[c].step = IF says[1] = "yes" THEN "save" ELSE "read"
     /\ row.from # 0 => Kept(row.from)
     /\ sections' = [sections EXCEPT ![edit[c].about] = SavedSection(row, says[1], says[2])]
     /\ End(c) /\ UNCHANGED <<agenda, items, notes, minutes, slips>>

-----------------------------------------------------------------------------
(* Notes on items and the minutes. *)

\* get_or_create of the item's note, which is refused when there are two.
LookNote(c, i) ==
  /\ Live(i) /\ notes[i] < 2
  /\ Begin(c, [NoEdit EXCEPT !.job = "note", !.about = i,
                              !.says = <<IF notes[i] = 1 THEN "yes" ELSE "nothing", "nothing">>])

\* A new note, or the one found; nothing makes it unique.
NotesAfter(n, found) == IF found = "yes" /\ n > 0 THEN n ELSE n + 1

SaveNote(c) ==
  LET i == edit[c].about
  IN /\ edit[c].job = "note" /\ Live(i)
     /\ notes' = [notes EXCEPT ![i] = NotesAfter(@, edit[c].says[1])]
     /\ End(c) /\ UNCHANGED <<agenda, sections, items, minutes, slips>>

\* POST of minutes when there are none, PATCH when there are.
ReadMinutes(c) ==
  \E approve \in Says :
    Begin(c, [NoEdit EXCEPT !.job = "minutes", !.says = <<minutes, approve>>])

\* Minutes are saved with what was read of the approval, unless the request
\* names it.  The meeting's minutes are unique: a second POST fails.
MinutesAfterDraft(read, approve) == IF approve = "yes" THEN "approved" ELSE "draft"
MinutesAfter(read, approve) ==
  IF Said(read = "approved", approve) THEN "approved" ELSE "draft"

SaveMinutes(c) ==
  LET says == edit[c].says
  IN /\ edit[c].job = "minutes"
     /\ says[1] = "none" => minutes = "none"
     /\ minutes' = MinutesAfter(says[1], says[2])
     /\ End(c) /\ UNCHANGED <<agenda, sections, items, notes, slips>>

-----------------------------------------------------------------------------
DocumentsNext ==
  \/ \E k \in Orders : \/ AddAgendaSection(k)
                       \/ ActivateAgendaSection(k)
                       \/ DeleteAgendaSection(k)
                       \/ AddSection(k)
  \/ \E i \in Items : AddItem(i) \/ DeleteItem(i)
  \/ \E c \in Editors :
       \/ \E i \in Items : ReadItem(c, i) \/ LookNote(c, i)
       \/ TrackCompletion(c) \/ SaveItem(c)
       \/ ListAgenda(c) \/ FillSection(c)
       \/ \E k \in Orders : ReadSection(c, k)
       \/ Deactivate(c) \/ SaveSection(c)
       \/ SaveNote(c)
       \/ ReadMinutes(c) \/ SaveMinutes(c)
       \/ Abandon(c)

DocumentsSpec == DocumentsInit /\ [][DocumentsNext]_documents

-----------------------------------------------------------------------------
(* Properties. *)

Barring(kinds) == slips \cap kinds = {}

\* Every variable has its type, and no row refers to one that is gone: minute
\* sections, items and notes go with what they belong to.
DocumentsTypeOK ==
  /\ agenda \in [Orders -> {"new", "active", "inactive", "gone"}]
  /\ sections \in [Orders -> Section]
  /\ items \in [Items -> Item]
  /\ notes \in [Items -> Nat] /\ minutes \in {"none", "draft", "approved"}
  /\ \A k \in Orders : sections[k].from # 0 => Kept(sections[k].from)
  /\ \A i \in Items : (Live(i) => Housed(i)) /\ (notes[i] > 0 => Live(i))
  /\ \A c \in Editors :
       /\ edit[c].job \in {"none", "item", "fill", "section", "note", "minutes"}
       /\ edit[c].row \in Section /\ edit[c].todo \subseteq Orders
  /\ edits \in 0..MaxEdits /\ slips \subseteq Slips

\* "Only one can be active at a time" of the minute sections, as long as no two
\* edits of sections overlap and none was created active; and whatever overlaps,
\* a section that was completed by an edit says when and by whom.
SectionsSound ==
  /\ Barring({"overlap", "posted"}) => Cardinality({k \in Orders : sections[k].working}) <= 1
  /\ Barring({"posted"}) => \A k \in Orders : sections[k].done => sections[k].stamped

\* "Handle completion tracking" of agenda items: without overlapping edits an item
\* that is not completed has no completion time, and one that is completed has it,
\* unless an edit left completion out or an item was created as completed; and an
\* item has at most one note.
ItemsSound ==
  Barring({"overlap"}) =>
    \A i \in Items :
      /\ items[i].stamped => items[i].done
      /\ items[i].done /\ Barring({"silent", "born"}) => items[i].stamped
      /\ notes[i] <= 1

\* Without overlapping edits nothing that was settled is undone in passing: a
\* deleted item does not come back, approved minutes stay approved and a minute
\* section completed until a request says that they are not.
NothingUndone ==
  [][Barring({"overlap"}) =>
       /\ \A i \in Items : items[i].is = "gone" => items'[i].is = "gone"
       /\ minutes = "approved" /\ minutes' # "approved" =>
            \E c \in Editors : edit[c].job = "minutes" /\ edit[c].says[2] = "no"
       /\ \A k \in Orders : sections[k].done /\ ~sections'[k].done =>
            \/ sections'[k] = NoSection
            \/ \E c \in Editors : edit[c].job = "section" /\ edit[c].about = k /\ edit[c].says[2] = "no"]_documents
=============================================================================
