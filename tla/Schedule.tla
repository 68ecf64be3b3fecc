------------------------------- MODULE Schedule -------------------------------
(***************************************************************************)
(* One event of veditor: its rooms and its talks, and the handlers that    *)
(* edit them (app/routes/events.py, app/routes/talks.py).                  *)
(*                                                                         *)
(* A talk names its room by text, not by key.  The handlers keep that text *)
(* true to the table of rooms by hand: those that touch a room first lock  *)
(* the row of the event.  create_or_update_talk and update_talk, however,  *)
(* read the talk before they take that lock, and write it after.           *)
(*                                                                         *)
(* Callers are authorised; who may call what is the module Access.         *)
(***************************************************************************)
EXTENDS Naturals, FiniteSets, Sequences

CONSTANTS
  Ids,      \* primary keys of talks
  Titles,
  ExtIds,   \* keys the talks have in the system schedules come from
  Slots,    \* when a talk may start
  Names,    \* spellings of room names
  Lower,    \* Lower[n]: the spelling n in lower case
  Creates,  \* payloads of create_or_update_talk
  Updates,  \* payloads of update_talk, a field that is not set is Keep
  Batches,  \* schedules that may be imported, each a sequence of entries
  Editors,  \* the requests that may edit a talk at one time
  Deleters, \* the requests that may delete talks at one time
  Keep,
  None

Row ==
  [ title : Titles, ext : ExtIds \cup {None}, slot : Slots,
    room : Names \cup {None} ]

ASSUME IdsAssumption == Ids \subseteq Nat /\ Slots \subseteq Nat
ASSUME NamesAssumption == None \notin Names /\ Keep \notin Names \cup {None}
ASSUME NoneAssumption == None \notin Ids \cup Row
ASSUME LowerAssumption == Lower \in [Names -> Names]
ASSUME CreatesAssumption ==
  Creates \subseteq [title : Titles, slot : Slots, room : Names \cup {None}]
ASSUME UpdatesAssumption ==
  Updates \subseteq [ title : Titles \cup {Keep}, slot : Slots \cup {Keep},
                      room : Names \cup {None, Keep} ]
ASSUME BatchesAssumption == Batches \subseteq Seq(Row)

Requests == Editors \cup Deleters

VARIABLES
  event,  \* does the event exist?
  rooms,  \* the registered room names
  talk,   \* the rows of the talks, None where there is none
  edit    \* what each request is doing

scheduleVars == <<event, rooms, talk, edit>>

Talks == {i \in Ids : talk[i] # None}

Ops == {"none", "create", "retry", "update", "delete", "delete_event"}

\* A request between two steps: the talk it read and what it is to write.
Edit ==
  [ op : Ops, id : Ids \cup {None}, seen : Row \cup {None},
    new : Creates \cup Updates \cup {None}, ids : SUBSET Ids ]

NoEdit == [op |-> "none", id |-> None, seen |-> None, new |-> None, ids |-> {}]

ScheduleInit ==
  /\ event = TRUE
  /\ rooms = {}
  /\ talk = [i \in Ids |-> None]
  /\ edit = [e \in Requests |-> NoEdit]

ScheduleTypeOK ==
  /\ event \in BOOLEAN
  /\ rooms \subseteq Names
  /\ talk \in [Ids -> Row \cup {None}]
  /\ edit \in [Requests -> Edit]

Done(e) == edit' = [edit EXCEPT ![e] = NoEdit]

\* delete_event keeps the row of the event locked from its first step to
\* its last; whoever needs that row waits.
EventLocked == \E e \in Requests : edit[e].op = "delete_event"

-------------------------------------------------------------------------------
(* Rooms *)

SameName(a, b) == Lower[a] = Lower[b]

Registered(known, name) == \E r \in known : SameName(r, name)

\* The name _ensure_event_room returns: the registered spelling, if any.
RoomName(known, name) ==
  IF name # None /\ Registered(known, name)
  THEN CHOOSE r \in known : SameName(r, name) ELSE name

\* The rooms after _ensure_event_room.
Ensured(known, name) == known \cup ({RoomName(known, name)} \ {None})

CreateEventRoom(name) ==
  /\ event /\ ~EventLocked
  /\ ~Registered(rooms, name)
  /\ rooms' = rooms \cup {name}
  /\ UNCHANGED <<event, talk, edit>>

\* Every talk whose room is some spelling of old moves to new.
Reassigned(old, new) ==
  [ i \in Ids |->
      IF i \in Talks /\ talk[i].room # None /\ SameName(talk[i].room, old)
      THEN [talk[i] EXCEPT !.room = new] ELSE talk[i] ]

UpdateEventRoom(old, new) ==
  /\ event /\ ~EventLocked
  /\ old \in rooms /\ new # old
  /\ \A r \in rooms \ {old} : ~SameName(r, new)
  /\ rooms' = (rooms \ {old}) \cup {new}
  /\ talk' = Reassigned(old, new)
  /\ UNCHANGED <<event, edit>>

DeleteEventRoom(old) ==
  /\ event /\ ~EventLocked
  /\ old \in rooms
  /\ rooms' = rooms \ {old}
  /\ talk' = Reassigned(old, None)
  /\ UNCHANGED <<event, edit>>

-------------------------------------------------------------------------------
(* One talk: the two unique constraints, and what a session writes *)

SameKey(a, b) ==
  \/ a.title = b.title /\ a.slot = b.slot
  \/ a.ext # None /\ a.ext = b.ext

\* Some other talk of the event already has the key of row.
Taken(i, row) == \E j \in Talks \ {i} : SameKey(talk[j], row)

\* Faulty: an UPDATE of all columns, as they were loaded.
FlushRowWhole(loaded, new, current) == new

\* An UPDATE names only the columns whose value differs from the one loaded.
FlushRow(loaded, new, current) ==
  [f \in DOMAIN new |-> IF new[f] = loaded[f] THEN current[f] ELSE new[f]]

At(title, slot) == {i \in Talks : talk[i].title = title /\ talk[i].slot = slot}

TheOnly(S) == IF S = {} THEN None ELSE CHOOSE i \in S : TRUE

\* PostgreSQL never gives a key twice.  Here a key stands for the next talk
\* once no request refers to the one that had it.
NewIds ==
  {i \in Ids \ Talks : \A e \in Requests : i # edit[e].id /\ i \notin edit[e].ids}

CreateTalkReads(e, p) ==
  LET found == TheOnly(At(p.title, p.slot))
  IN  /\ event /\ edit[e] = NoEdit
      /\ edit' = [edit EXCEPT ![e] =
           [ NoEdit EXCEPT !.op = "create", !.id = found, !.new = p,
             !.seen = IF found = None THEN None ELSE talk[found] ]]
      /\ UNCHANGED <<event, rooms, talk>>

\* The talk read at the start takes the room of the payload.
CreateTalkUpdates(e) ==
  LET i == edit[e].id
      p == edit[e].new
      new == [edit[e].seen EXCEPT !.room = RoomName(rooms, p.room)]
  IN  /\ edit[e].op = "create" /\ i # None /\ i \in Talks
      /\ p.room = None \/ ~EventLocked
      /\ rooms' = Ensured(rooms, p.room)
      /\ talk' = [talk EXCEPT ![i] = FlushRow(edit[e].seen, new, @)]
      /\ Done(e) /\ UNCHANGED event

\* No talk was found: INSERT, which runs into a talk that appeared meanwhile.
CreateTalkInserts(e, i) ==
  LET p == edit[e].new
      row == [title |-> p.title, ext |-> None, slot |-> p.slot,
              room |-> RoomName(rooms, p.room)]
  IN  /\ edit[e].op = "create" /\ edit[e].id = None
      /\ event /\ ~EventLocked
      /\ At(p.title, p.slot) = {} /\ i \in NewIds
      /\ rooms' = Ensured(rooms, p.room)
      /\ talk' = [talk EXCEPT ![i] = row]
      /\ Done(e) /\ UNCHANGED event

CreateTalkConflicts(e) ==
  LET p == edit[e].new
  IN  /\ edit[e].op = "create" /\ edit[e].id = None
      /\ p.room = None \/ ~EventLocked
      /\ At(p.title, p.slot) # {}
      /\ edit' = [edit EXCEPT ![e].op = "retry"]
      /\ UNCHANGED <<event, rooms, talk>>

\* After the rollback the talk is looked up again, and goes the way of one
\* that was found at the start.
CreateTalkFinds(e) ==
  LET found == TheOnly(At(edit[e].new.title, edit[e].new.slot))
  IN  /\ edit[e].op = "retry" /\ found # None
      /\ edit' = [edit EXCEPT ![e] =
                    [@ EXCEPT !.op = "create", !.id = found, !.seen = talk[found]]]
      /\ UNCHANGED <<event, rooms, talk>>

\* The event, or the talk that was read or run into, has been deleted.
CreateTalkFails(e) ==
  /\ \/ edit[e].op = "create" /\ (~event \/ edit[e].id \in Ids \ Talks)
     \/ edit[e].op = "retry" /\ At(edit[e].new.title, edit[e].new.slot) = {}
  /\ Done(e) /\ UNCHANGED <<event, rooms, talk>>

UpdateTalkReads(e, i, p) ==
  /\ i \in Talks /\ edit[e] = NoEdit
  /\ edit' = [edit EXCEPT ![e] =
       [NoEdit EXCEPT !.op = "update", !.id = i, !.seen = talk[i], !.new = p]]
  /\ UNCHANGED <<event, rooms, talk>>

Given(value, default) == IF value = Keep THEN default ELSE value

\* What update_talk has in its session when it commits.
Updated(seen, p) ==
  [ seen EXCEPT !.title = Given(p.title, @), !.slot = Given(p.slot, @),
                !.room = IF p.room = Keep THEN @ ELSE RoomName(rooms, p.room) ]

UpdateTalkWrites(e) ==
  LET i == edit[e].id
      p == edit[e].new
      row == FlushRow(edit[e].seen, Updated(edit[e].seen, p), talk[i])
  IN  /\ edit[e].op = "update" /\ i \in Talks
      /\ p.room = Keep \/ ~EventLocked
      /\ ~Taken(i, row)
      /\ talk' = [talk EXCEPT ![i] = row]
      /\ rooms' = IF p.room = Keep THEN rooms ELSE Ensured(rooms, p.room)
      /\ Done(e) /\ UNCHANGED event

\* 409 where the key is taken, an error where the talk is gone.
UpdateTalkFails(e) ==
  LET i == edit[e].id
  IN  /\ edit[e].op = "update"
      /\ i \in Talks =>
           Taken(i, FlushRow(edit[e].seen, Updated(edit[e].seen, edit[e].new), talk[i]))
      /\ Done(e) /\ UNCHANGED <<event, rooms, talk>>

-------------------------------------------------------------------------------
(* Deleting talks, and the event with all of them.  The first step cancels *)
(* the jobs and removes the files (RoomRecording), the second the rows.    *)

DeleteTalksReads(e, S) ==
  /\ S # {} /\ S \subseteq Talks /\ edit[e] = NoEdit
  /\ edit' = [edit EXCEPT ![e] = [NoEdit EXCEPT !.op = "delete", !.ids = S]]
  /\ UNCHANGED <<event, rooms, talk>>

DeleteTalksWrites(e) ==
  /\ edit[e].op = "delete"
  /\ talk' = [i \in Ids |-> IF i \in edit[e].ids THEN None ELSE talk[i]]
  /\ Done(e) /\ UNCHANGED <<event, rooms>>

DeleteEventReads(e) ==
  /\ event /\ ~EventLocked /\ edit[e] = NoEdit
  /\ edit' = [edit EXCEPT ![e] =
       [NoEdit EXCEPT !.op = "delete_event", !.ids = Talks]]
  /\ UNCHANGED <<event, rooms, talk>>

DeleteEventWrites(e) ==
  /\ edit[e].op = "delete_event"
  /\ event' = FALSE
  /\ rooms' = {}
  /\ talk' = [i \in Ids |-> None]
  /\ Done(e)

-------------------------------------------------------------------------------
(* Importing a schedule: one transaction under the lock of the event.      *)
(* Lookups see what the transaction has flushed.  It flushes at its end,   *)
(* and whenever _ensure_event_room registers a room on the way.            *)

SameEntry(a, b) ==
  IF a.ext # None \/ b.ext # None THEN a.ext = b.ext
  ELSE a.title = b.title /\ a.slot = b.slot

\* Of the entries with one key the last one counts, in the first one's place.
Repeated(batch, k) == \E j \in 1..(k - 1) : SameEntry(batch[j], batch[k])

Latest(batch, k) ==
  batch[CHOOSE n \in DOMAIN batch :
          /\ SameEntry(batch[n], batch[k])
          /\ \A m \in DOMAIN batch : m > n => ~SameEntry(batch[m], batch[k])]

\* The row of table that an entry updates, None if it is to be inserted.
Match(table, entry) ==
  LET here == {i \in Ids : /\ table[i] # None
                           /\ table[i].title = entry.title
                           /\ table[i].slot = entry.slot}
      byExt == {i \in Ids : table[i] # None /\ table[i].ext = entry.ext}
  IN  IF entry.ext = None THEN TheOnly(here)
      ELSE IF byExt # {} THEN TheOnly(byExt)
      ELSE TheOnly({i \in here : table[i].ext = None})

\* The rows are updated one by one in the order of their keys, then the new
\* ones are inserted; no statement may meet a key that is in the table.
FlushConflicts(old, new) ==
  \E i, j \in Ids :
    /\ i # j /\ new[i] # old[i] /\ new[j] # None
    /\ \/ SameKey(new[i], new[j])
       \/ old[i] # None /\ old[j] # None /\ i < j /\ SameKey(new[i], old[j])

Flushed(tx) ==
  [ tx EXCEPT !.stored = tx.session,
              !.ok = @ /\ ~FlushConflicts(tx.stored, tx.session) ]

\* One entry: stored is what the database shows, session what is pending.
Upsert(tx, entry) ==
  LET found == Match(tx.stored, entry)
      free == {i \in NewIds : tx.session[i] = None}
      i == IF found # None THEN found ELSE CHOOSE n \in free : \A m \in free : n <= m
      registers == entry.room # None /\ ~Registered(tx.known, entry.room)
      ext == IF entry.ext = None /\ found # None THEN tx.session[i].ext ELSE entry.ext
      titled == IF found = None THEN tx
                ELSE [tx EXCEPT !.session[i].title = entry.title, !.session[i].ext = ext]
      before == IF registers THEN Flushed(titled) ELSE titled
      row == [ title |-> entry.title, ext |-> ext, slot |-> entry.slot,
               room |-> RoomName(tx.known, entry.room) ]
  IN  IF found = None /\ free = {} THEN [tx EXCEPT !.ok = FALSE]
      ELSE [ before EXCEPT !.session[i] = row, !.known = Ensured(@, entry.room) ]

ImportOf(batch) ==
  LET tx[k \in 0..Len(batch)] ==
        IF k = 0 THEN [stored |-> talk, session |-> talk, known |-> rooms, ok |-> TRUE]
        ELSE IF Repeated(batch, k) THEN tx[k - 1]
        ELSE Upsert(tx[k - 1], Latest(batch, k))
  IN  Flushed(tx[Len(batch)])

\* Where a flush conflicts the whole import is rolled back.
ImportSchedule(batch) ==
  /\ event /\ ~EventLocked
  /\ ImportOf(batch).ok
  /\ talk' = ImportOf(batch).stored
  /\ rooms' = ImportOf(batch).known
  /\ UNCHANGED <<event, edit>>

-------------------------------------------------------------------------------
EditRooms ==
  \/ \E n \in Names : CreateEventRoom(n)
  \/ \E old, new \in Names : UpdateEventRoom(old, new)
  \/ \E old \in Names : DeleteEventRoom(old)

EditTalk(e) ==
  \/ \E p \in Creates : CreateTalkReads(e, p)
  \/ CreateTalkUpdates(e)
  \/ \E i \in Ids : CreateTalkInserts(e, i)
  \/ CreateTalkConflicts(e)
  \/ CreateTalkFinds(e)
  \/ CreateTalkFails(e)
  \/ \E i \in Ids, p \in Updates : UpdateTalkReads(e, i, p)
  \/ UpdateTalkWrites(e)
  \/ UpdateTalkFails(e)

DeleteTalks(e) ==
  \/ \E S \in SUBSET Ids : DeleteTalksReads(e, S)
  \/ DeleteTalksWrites(e)
  \/ DeleteEventReads(e)
  \/ DeleteEventWrites(e)

ScheduleNext ==
  \/ EditRooms
  \/ \E e \in Editors : EditTalk(e)
  \/ \E e \in Deleters : DeleteTalks(e)
  \/ \E batch \in Batches : ImportSchedule(batch)

Schedule == ScheduleInit /\ [][ScheduleNext]_scheduleVars

\* A talk names a registered room in its registered spelling, or none, and no
\* two rooms differ in upper and lower case only.
RoomsRegistered ==
  /\ \A i \in Talks : talk[i].room \in rooms \cup {None}
  /\ \A a, b \in rooms : SameName(a, b) => a = b
===============================================================================
