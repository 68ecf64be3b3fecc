---------------------------- MODULE ScheduleProofs -----------------------------
(***************************************************************************)
(* Proofs about Schedule: every variable keeps its type, and every talk    *)
(* names a registered room, whatever two requests do to each other.        *)
(*                                                                         *)
(* The invariant is inductive with two facts about the requests in flight: *)
(* what a request has read is a row, and while an event is being deleted   *)
(* no talk appears that the request has not listed.                        *)
(***************************************************************************)
EXTENDS Schedule, WellFoundedInduction, TLAPS

\* What a request has read, and what it will write.
EditsOK ==
  \A e \in Requests :
    /\ edit[e].op \in {"create", "retry"} =>
         edit[e].new \in Creates /\ (edit[e].id # None => edit[e].seen \in Row)
    /\ edit[e].op = "update" => edit[e].new \in Updates /\ edit[e].seen \in Row
    /\ edit[e].op = "delete_event" => Talks \subseteq edit[e].ids

\* The inductive invariant.
ScheduleInv == ScheduleTypeOK /\ RoomsRegistered /\ EditsOK

\* No two names of S differ in upper and lower case only.
Distinct(S) == \A a, b \in S : SameName(a, b) => a = b

\* Talks of the table name rooms of known.
Housed(table, known) ==
  \A i \in Ids : table[i] # None => table[i].room \in known \cup {None}

-------------------------------------------------------------------------------
(* The operators *)

\* A set of natural numbers that is not empty has a least element.
LEMMA LeastIsThere ==
  ASSUME NEW T \in SUBSET Nat, T # {}
  PROVE  \E k \in T : \A j \in T : k <= j
<1>1. PICK k \in T : \A j \in T : ~ (<<j, k>> \in OpToRel(<, Nat))
  BY NatLessThanWellFounded, WFMin
<1>2. ASSUME NEW j \in T PROVE k <= j
  <2>1. j \in Nat /\ k \in Nat
    OBVIOUS
  <2>2. j < k => <<j, k>> \in {ss \in Nat \X Nat : ss[1] < ss[2]}
    BY <2>1
  <2>3. ~(j < k)
    BY <1>1, <2>2 DEF OpToRel
  <2> QED
    BY <2>1, <2>3
<1> QED
  BY <1>2

\* scalar_one_or_none: a member, if there is any.
LEMMA TheOnlyIsOne ==
  ASSUME NEW S
  PROVE  /\ S = {} => TheOnly(S) = None
         /\ S # {} => TheOnly(S) \in S
BY DEF TheOnly

\* The name under which a room is known is registered, after ensure_room.
LEMMA RoomNameIsIn ==
  ASSUME NEW known \in SUBSET Names, NEW name \in Names \cup {None}
  PROVE  /\ RoomName(known, name) \in Names \cup {None}
         /\ RoomName(known, name) \in Ensured(known, name) \cup {None}
         /\ known \subseteq Ensured(known, name)
         /\ Ensured(known, name) \subseteq Names
         /\ name = None => Ensured(known, name) = known
<1>1. CASE name # None /\ Registered(known, name)
  <2>1. \E r \in known : SameName(r, name)
    BY <1>1 DEF Registered
  <2>2. RoomName(known, name) \in known
    BY <1>1, <2>1 DEF RoomName
  <2> QED
    BY <1>1, <2>2 DEF Ensured
<1>2. CASE ~(name # None /\ Registered(known, name))
  <2>1. RoomName(known, name) = name
    BY <1>2 DEF RoomName
  <2> QED
    BY <2>1, NamesAssumption DEF Ensured
<1> QED
  BY <1>1, <1>2

\* ensure_room registers no name that differs in case only.
LEMMA EnsuredIsDistinct ==
  ASSUME NEW known \in SUBSET Names, NEW name \in Names \cup {None}, Distinct(known)
  PROVE  Distinct(Ensured(known, name))
<1>1. CASE name # None /\ Registered(known, name)
  <2>1. RoomName(known, name) \in known
    BY <1>1 DEF RoomName, Registered
  <2>2. Ensured(known, name) = known
    BY <2>1 DEF Ensured
  <2> QED
    BY <2>2
<1>2. CASE name = None
  <2>1. Ensured(known, name) = known
    BY <1>2, RoomNameIsIn
  <2> QED
    BY <2>1
<1>3. CASE name # None /\ ~Registered(known, name)
  <2>1. Ensured(known, name) = known \cup {name} /\ name \in Names
    BY <1>3 DEF Ensured, RoomName
  <2>2. \A a \in known : ~SameName(a, name) /\ ~SameName(name, a)
    BY <1>3 DEF Registered, SameName
  <2> QED
    BY <2>1, <2>2 DEF Distinct
<1> QED
  BY <1>1, <1>2, <1>3

\* What a row consists of.
LEMMA RowsHave ==
  ASSUME NEW r \in Row
  PROVE  /\ r = [title |-> r.title, ext |-> r.ext, slot |-> r.slot, room |-> r.room]
         /\ r.title \in Titles /\ r.ext \in ExtIds \cup {None}
         /\ r.slot \in Slots /\ r.room \in Names \cup {None}
         /\ DOMAIN r = {"title", "ext", "slot", "room"}
BY DEF Row

\* An UPDATE leaves a row, with the new room or the one there is.
LEMMA FlushRowIsRow ==
  ASSUME NEW loaded \in Row, NEW new \in Row, NEW current \in Row
  PROVE  /\ FlushRow(loaded, new, current) \in Row
         /\ FlushRow(loaded, new, current).room \in {new.room, current.room}
<1> DEFINE pick(f) == IF new[f] = loaded[f] THEN current[f] ELSE new[f]
<1>1. FlushRow(loaded, new, current) = [f \in {"title", "ext", "slot", "room"} |-> pick(f)]
  BY RowsHave DEF FlushRow
<1>2. FlushRow(loaded, new, current) =
        [title |-> pick("title"), ext |-> pick("ext"), slot |-> pick("slot"), room |-> pick("room")]
  BY <1>1
<1>3. /\ pick("title") \in Titles /\ pick("ext") \in ExtIds \cup {None}
      /\ pick("slot") \in Slots /\ pick("room") \in Names \cup {None}
      /\ pick("room") \in {new.room, current.room}
  BY RowsHave
<1> QED
  BY <1>2, <1>3 DEF Row

\* A row in another room, or in none, is a row.
LEMMA RoomlessRow ==
  ASSUME NEW r \in Row, NEW name \in Names \cup {None}
  PROVE  /\ [r EXCEPT !.room = name] \in Row
         /\ [r EXCEPT !.room = name].room = name
BY DEF Row

\* update_talk makes a row, with a room by the name that is registered.
LEMMA UpdatedIsRow ==
  ASSUME NEW seen \in Row, NEW p \in Updates, rooms \subseteq Names
  PROVE  /\ Updated(seen, p) \in Row
         /\ p.room = Keep => Updated(seen, p).room = seen.room
         /\ p.room # Keep => /\ p.room \in Names \cup {None}
                             /\ Updated(seen, p).room = RoomName(rooms, p.room)
<1> DEFINE room == IF p.room = Keep THEN seen.room ELSE RoomName(rooms, p.room)
<1>1. p \in [ title : Titles \cup {Keep}, slot : Slots \cup {Keep},
              room : Names \cup {None, Keep} ]
  BY UpdatesAssumption
<1>2. /\ p.title = Keep \/ p.title \in Titles
      /\ p.slot = Keep \/ p.slot \in Slots
      /\ p.room = Keep \/ p.room \in Names \cup {None}
  BY <1>1
<1>3. Given(p.title, seen.title) \in Titles /\ Given(p.slot, seen.slot) \in Slots
  BY <1>2, RowsHave DEF Given
<1>4. room \in Names \cup {None}
  <2>1. CASE p.room = Keep
    BY <2>1, RowsHave
  <2>2. CASE p.room # Keep
    BY <2>2, <1>2, RoomNameIsIn
  <2> QED
    BY <2>1, <2>2
<1>5. Updated(seen, p) = [seen EXCEPT !.title = Given(p.title, seen.title),
                                      !.slot = Given(p.slot, seen.slot), !.room = room]
  BY DEF Updated
<1>6. Updated(seen, p) = [ title |-> Given(p.title, seen.title), ext |-> seen.ext,
                           slot |-> Given(p.slot, seen.slot), room |-> room ]
  BY <1>5 DEF Row
<1> QED
  BY <1>2, <1>3, <1>4, <1>6 DEF Row

\* A request that is not under way has a type.
LEMMA NoEditIsEdit == NoEdit \in Edit /\ NoEdit.op = "none"
BY DEF NoEdit, Edit, Ops

\* A request that ends leaves the others as they are.
LEMMA DoneIsTyped ==
  ASSUME ScheduleTypeOK, NEW e \in Requests, Done(e)
  PROVE  /\ edit' \in [Requests -> Edit]
         /\ edit'[e] = NoEdit
         /\ \A f \in Requests \ {e} : edit'[f] = edit[f]
<1>1. edit \in [Requests -> Edit] /\ edit' = [edit EXCEPT ![e] = NoEdit]
  BY DEF ScheduleTypeOK, Done
<1> QED
  BY <1>1, NoEditIsEdit

\* A step that ends a request leaves the facts about the others as they are.
LEMMA DoneKeepsEdits ==
  ASSUME ScheduleInv, NEW e \in Requests, Done(e),
         \A i \in Talks' \ Talks : ~EventLocked
  PROVE  EditsOK'
<1>1. /\ edit'[e] = NoEdit
      /\ \A f \in Requests \ {e} : edit'[f] = edit[f]
  BY DoneIsTyped DEF ScheduleInv
<1> SUFFICES ASSUME NEW f \in Requests
             PROVE  /\ edit'[f].op \in {"create", "retry"} =>
                         /\ edit'[f].new \in Creates
                         /\ edit'[f].id # None => edit'[f].seen \in Row
                    /\ edit'[f].op = "update" => edit'[f].new \in Updates /\ edit'[f].seen \in Row
                    /\ edit'[f].op = "delete_event" => Talks' \subseteq edit'[f].ids
  BY DEF EditsOK
<1>2. CASE f = e
  BY <1>1, <1>2, NoEditIsEdit
<1>3. CASE f # e
  <2>1. edit'[f] = edit[f]
    BY <1>1, <1>3
  <2>2. edit[f].op = "delete_event" => Talks' \subseteq edit[f].ids
    BY DEF ScheduleInv, EditsOK, EventLocked
  <2> QED
    BY <2>1, <2>2 DEF ScheduleInv, EditsOK
<1> QED
  BY <1>2, <1>3

\* Steps that change no request.
LEMMA SameRequestsKeepEdits ==
  ASSUME ScheduleInv, UNCHANGED edit, \A i \in Talks' \ Talks : ~EventLocked
  PROVE  EditsOK'
BY DEF ScheduleInv, EditsOK, EventLocked

\* A request that has just begun.
LEMMA BegunIsTyped ==
  ASSUME ScheduleInv, UNCHANGED <<event, rooms, talk>>,
         NEW e \in Requests, NEW new \in Edit, edit' = [edit EXCEPT ![e] = new],
         /\ new.op \in {"create", "retry"} => new.new \in Creates /\ (new.id # None => new.seen \in Row)
         /\ new.op = "update" => new.new \in Updates /\ new.seen \in Row
         /\ new.op = "delete_event" => Talks \subseteq new.ids
  PROVE  ScheduleInv' /\ Talks \subseteq Talks'
<1>1. edit \in [Requests -> Edit]
  BY DEF ScheduleInv, ScheduleTypeOK
<1>2. /\ edit' \in [Requests -> Edit]
      /\ edit'[e] = new /\ \A f \in Requests \ {e} : edit'[f] = edit[f]
  BY <1>1
<1>3. ScheduleTypeOK' /\ RoomsRegistered'
  BY <1>2 DEF ScheduleInv, ScheduleTypeOK, RoomsRegistered, Talks
<1>4. Talks' = Talks
  BY DEF Talks
<1>5. EditsOK'
  BY <1>2, <1>4 DEF ScheduleInv, EditsOK
<1> QED
  BY <1>3, <1>4, <1>5 DEF ScheduleInv

-------------------------------------------------------------------------------
(* Rooms *)

\* The talks of a room that is renamed or deleted, and those only, are moved.
LEMMA ReassignedIsTyped ==
  ASSUME talk \in [Ids -> Row \cup {None}], NEW old, NEW new \in Names \cup {None}
  PROVE  /\ Reassigned(old, new) \in [Ids -> Row \cup {None}]
         /\ \A i \in Ids : (Reassigned(old, new)[i] = None) <=> (talk[i] = None)
         /\ \A i \in Talks : Reassigned(old, new)[i].room =
              IF talk[i].room # None /\ SameName(talk[i].room, old) THEN new ELSE talk[i].room
<1>1. \A i \in Talks : talk[i] \in Row
  BY DEF Talks
<1>2. ASSUME NEW i \in Ids
      PROVE  Reassigned(old, new)[i] =
               IF i \in Talks /\ talk[i].room # None /\ SameName(talk[i].room, old)
               THEN [talk[i] EXCEPT !.room = new] ELSE talk[i]
  BY DEF Reassigned
<1>3. \A i \in Talks : [talk[i] EXCEPT !.room = new] \in Row
                       /\ [talk[i] EXCEPT !.room = new].room = new
  BY <1>1, RoomlessRow
<1>4. \A i \in Ids : Reassigned(old, new)[i] \in Row \cup {None}
  BY <1>2, <1>3
<1> QED
  BY <1>1, <1>2, <1>3, <1>4, NoneAssumption DEF Reassigned, Talks

\* create_event_room.
LEMMA RoomIsCreated ==
  ASSUME ScheduleInv, NEW n \in Names, CreateEventRoom(n)
  PROVE  ScheduleInv' /\ Talks \subseteq Talks'
<1>1. /\ rooms' = rooms \cup {n} /\ ~Registered(rooms, n)
      /\ UNCHANGED <<event, talk, edit>>
  BY DEF CreateEventRoom
<1>2. \A a \in rooms : ~SameName(a, n) /\ ~SameName(n, a)
  BY <1>1 DEF Registered, SameName
<1>3. ScheduleTypeOK' /\ RoomsRegistered'
  BY <1>1, <1>2 DEF ScheduleInv, ScheduleTypeOK, RoomsRegistered, Talks
<1>4. EditsOK'
  BY <1>1, SameRequestsKeepEdits DEF Talks
<1> QED
  BY <1>1, <1>3, <1>4 DEF ScheduleInv, Talks

\* update_event_room.
LEMMA RoomIsRenamed ==
  ASSUME ScheduleInv, NEW old \in Names, NEW new \in Names, UpdateEventRoom(old, new)
  PROVE  ScheduleInv' /\ Talks \subseteq Talks'
<1>1. /\ rooms' = (rooms \ {old}) \cup {new} /\ old \in rooms
      /\ talk' = Reassigned(old, new)
      /\ \A r \in rooms \ {old} : ~SameName(r, new)
      /\ UNCHANGED <<event, edit>>
  BY DEF UpdateEventRoom
<1>2. talk \in [Ids -> Row \cup {None}] /\ rooms \subseteq Names
  BY DEF ScheduleInv, ScheduleTypeOK
<1>3. /\ talk' \in [Ids -> Row \cup {None}]
      /\ Talks' = Talks
      /\ \A i \in Talks : talk'[i].room =
           IF talk[i].room # None /\ SameName(talk[i].room, old) THEN new ELSE talk[i].room
  BY <1>1, <1>2, ReassignedIsTyped DEF Talks
<1>4. ScheduleTypeOK'
  BY <1>1, <1>2, <1>3 DEF ScheduleInv, ScheduleTypeOK
<1>5. \A i \in Talks' : talk'[i].room \in rooms' \cup {None}
  <2>1. SameName(old, old)
    BY DEF SameName
  <2>2. \A i \in Talks : talk[i].room \in rooms \cup {None}
    BY DEF ScheduleInv, RoomsRegistered
  <2> QED
    BY <1>1, <1>3, <2>1, <2>2
<1>6. \A a, b \in rooms' : SameName(a, b) => a = b
  <2>1. \A r \in rooms \ {old} : ~SameName(new, r)
    BY <1>1 DEF SameName
  <2>2. \A a, b \in rooms : SameName(a, b) => a = b
    BY DEF ScheduleInv, RoomsRegistered
  <2> QED
    BY <1>1, <2>1, <2>2
<1>7. EditsOK'
  BY <1>1, <1>3, SameRequestsKeepEdits
<1> QED
  BY <1>3, <1>4, <1>5, <1>6, <1>7 DEF ScheduleInv, RoomsRegistered

\* delete_event_room.
LEMMA RoomIsDeleted ==
  ASSUME ScheduleInv, NEW old \in Names, DeleteEventRoom(old)
  PROVE  ScheduleInv' /\ Talks \subseteq Talks'
<1>1. /\ rooms' = rooms \ {old} /\ old \in rooms
      /\ talk' = Reassigned(old, None)
      /\ UNCHANGED <<event, edit>>
  BY DEF DeleteEventRoom
<1>2. talk \in [Ids -> Row \cup {None}] /\ rooms \subseteq Names
  BY DEF ScheduleInv, ScheduleTypeOK
<1>3. /\ talk' \in [Ids -> Row \cup {None}]
      /\ Talks' = Talks
      /\ \A i \in Talks : talk'[i].room =
           IF talk[i].room # None /\ SameName(talk[i].room, old) THEN None ELSE talk[i].room
  BY <1>1, <1>2, ReassignedIsTyped DEF Talks
<1>4. ScheduleTypeOK' /\ \A a, b \in rooms' : SameName(a, b) => a = b
  BY <1>1, <1>2, <1>3 DEF ScheduleInv, ScheduleTypeOK, RoomsRegistered
<1>5. \A i \in Talks' : talk'[i].room \in rooms' \cup {None}
  <2>1. SameName(old, old)
    BY DEF SameName
  <2>2. \A i \in Talks : talk[i].room \in rooms \cup {None}
    BY DEF ScheduleInv, RoomsRegistered
  <2> QED
    BY <1>1, <1>3, <2>1, <2>2
<1>6. EditsOK'
  BY <1>1, <1>3, SameRequestsKeepEdits
<1> QED
  BY <1>3, <1>4, <1>5, <1>6 DEF ScheduleInv, RoomsRegistered

-------------------------------------------------------------------------------
(* One talk *)

\* A request ends with row r in talk i, in a room that is registered now.
LEMMA RowIsWritten ==
  ASSUME ScheduleInv, NEW e \in Requests, Done(e),
         NEW i \in Ids, i \in Talks \/ ~EventLocked,
         NEW r \in Row, talk' = [talk EXCEPT ![i] = r],
         NEW name \in Names \cup {None}, rooms' = Ensured(rooms, name),
         r.room \in rooms' \cup {None}, UNCHANGED event
  PROVE  ScheduleInv' /\ Talks \subseteq Talks'
<1>1. talk \in [Ids -> Row \cup {None}] /\ rooms \subseteq Names /\ event \in BOOLEAN
  BY DEF ScheduleInv, ScheduleTypeOK
<1>2. /\ talk' \in [Ids -> Row \cup {None}]
      /\ talk'[i] = r /\ \A j \in Ids \ {i} : talk'[j] = talk[j]
  BY <1>1
<1>3. rooms \subseteq rooms' /\ rooms' \subseteq Names
  BY <1>1, RoomNameIsIn
<1>4. Distinct(rooms')
  BY <1>1, EnsuredIsDistinct DEF ScheduleInv, RoomsRegistered, Distinct
<1>5. ScheduleTypeOK'
  BY <1>1, <1>2, <1>3, DoneIsTyped DEF ScheduleInv, ScheduleTypeOK
<1>6. RoomsRegistered'
  BY <1>2, <1>3, <1>4 DEF ScheduleInv, RoomsRegistered, Talks, Distinct
<1>7. EditsOK'
  <2>1. \A j \in Talks' \ Talks : ~EventLocked
    BY <1>2 DEF Talks
  <2> QED
    BY <2>1, DoneKeepsEdits
<1>8. Talks \subseteq Talks'
  BY <1>2, NoneAssumption DEF Talks
<1> QED
  BY <1>5, <1>6, <1>7, <1>8 DEF ScheduleInv

\* The payload of a request that creates a talk.
LEMMA PayloadIs ==
  ASSUME NEW p \in Creates
  PROVE  p.title \in Titles /\ p.slot \in Slots /\ p.room \in Names \cup {None}
BY CreatesAssumption

\* create_or_update_talk looks for the talk.
LEMMA CreateTalkReadsKeeps ==
  ASSUME ScheduleInv, NEW e \in Requests, NEW p \in Creates, CreateTalkReads(e, p)
  PROVE  ScheduleInv' /\ Talks \subseteq Talks'
<1> DEFINE found == TheOnly(At(p.title, p.slot))
           new == [ NoEdit EXCEPT !.op = "create", !.id = found, !.new = p,
                      !.seen = IF found = None THEN None ELSE talk[found] ]
<1>1. edit' = [edit EXCEPT ![e] = new] /\ UNCHANGED <<event, rooms, talk>>
  BY DEF CreateTalkReads
<1>2. found = None \/ (found \in Talks /\ found # None)
  BY TheOnlyIsOne, NoneAssumption DEF At, Talks
<1>3. found # None => talk[found] \in Row
  BY <1>2 DEF ScheduleInv, ScheduleTypeOK, Talks
<1> HIDE DEF found
<1>4. new \in Edit /\ new.op = "create" /\ new.new = p /\ new.id = found
      /\ new.seen = IF found = None THEN None ELSE talk[found]
  BY <1>2, <1>3 DEF NoEdit, Edit, Ops, Talks
<1> HIDE DEF new
<1> QED
  BY <1>1, <1>3, <1>4, BegunIsTyped

\* It updates the talk that it found.
LEMMA CreateTalkUpdatesKeeps ==
  ASSUME ScheduleInv, NEW e \in Requests, CreateTalkUpdates(e)
  PROVE  ScheduleInv' /\ Talks \subseteq Talks'
<1> DEFINE i == edit[e].id
           p == edit[e].new
           new == [edit[e].seen EXCEPT !.room = RoomName(rooms, p.room)]
           r == FlushRow(edit[e].seen, new, talk[i])
<1>1. /\ edit[e].op = "create" /\ i # None /\ i \in Talks
      /\ rooms' = Ensured(rooms, p.room)
      /\ talk' = [talk EXCEPT ![i] = r]
      /\ Done(e) /\ UNCHANGED event
  BY DEF CreateTalkUpdates, ScheduleInv, ScheduleTypeOK
<1>2. p \in Creates /\ edit[e].seen \in Row
  BY <1>1 DEF ScheduleInv, EditsOK
<1>3. p.room \in Names \cup {None} /\ rooms \subseteq Names /\ i \in Ids
  BY <1>1, <1>2, PayloadIs DEF ScheduleInv, ScheduleTypeOK, Talks
<1>4. RoomName(rooms, p.room) \in Names \cup {None}
      /\ RoomName(rooms, p.room) \in rooms' \cup {None} /\ rooms \subseteq rooms'
  BY <1>1, <1>3, RoomNameIsIn
<1>5. talk[i] \in Row /\ talk[i].room \in rooms \cup {None}
  BY <1>1 DEF ScheduleInv, ScheduleTypeOK, RoomsRegistered, Talks
<1>6. new \in Row /\ new.room = RoomName(rooms, p.room)
  BY <1>2, <1>4, RoomlessRow
<1> HIDE DEF new
<1>7. r \in Row /\ r.room \in {new.room, talk[i].room}
  BY <1>2, <1>5, <1>6, FlushRowIsRow
<1>8. r.room \in rooms' \cup {None}
  BY <1>4, <1>5, <1>6, <1>7
<1> HIDE DEF i, p, r
<1> QED
  BY <1>1, <1>3, <1>7, <1>8, RowIsWritten

\* It inserts one.
LEMMA CreateTalkInsertsKeeps ==
  ASSUME ScheduleInv, NEW e \in Requests, NEW i \in Ids, CreateTalkInserts(e, i)
  PROVE  ScheduleInv' /\ Talks \subseteq Talks'
<1> DEFINE p == edit[e].new
           r == [title |-> p.title, ext |-> None, slot |-> p.slot,
                 room |-> RoomName(rooms, p.room)]
<1>1. /\ edit[e].op = "create" /\ ~EventLocked
      /\ rooms' = Ensured(rooms, p.room)
      /\ talk' = [talk EXCEPT ![i] = r]
      /\ Done(e) /\ UNCHANGED event
  BY DEF CreateTalkInserts
<1>2. p \in Creates
  BY <1>1 DEF ScheduleInv, EditsOK
<1>3. p.title \in Titles /\ p.slot \in Slots /\ p.room \in Names \cup {None}
      /\ rooms \subseteq Names
  BY <1>2, PayloadIs DEF ScheduleInv, ScheduleTypeOK
<1>4. RoomName(rooms, p.room) \in Names \cup {None}
      /\ RoomName(rooms, p.room) \in rooms' \cup {None}
  BY <1>1, <1>3, RoomNameIsIn
<1>5. r \in Row /\ r.room \in rooms' \cup {None}
  BY <1>3, <1>4 DEF Row
<1> HIDE DEF p, r
<1> QED
  BY <1>1, <1>3, <1>5, RowIsWritten

\* Another request has inserted it in the meantime.
LEMMA CreateTalkConflictsKeeps ==
  ASSUME ScheduleInv, NEW e \in Requests, CreateTalkConflicts(e)
  PROVE  ScheduleInv' /\ Talks \subseteq Talks'
<1> DEFINE new == [edit[e] EXCEPT !.op = "retry"]
<1>1. /\ edit[e] \in Edit /\ edit' = [edit EXCEPT ![e] = new] /\ edit[e].op = "create"
      /\ edit[e].id = None /\ UNCHANGED <<event, rooms, talk>>
  BY DEF CreateTalkConflicts, ScheduleInv, ScheduleTypeOK
<1>2. edit[e].new \in Creates
  BY <1>1 DEF ScheduleInv, EditsOK
<1>3. new \in Edit /\ new.op = "retry" /\ new.new \in Creates /\ new.id = None
  BY <1>1, <1>2 DEF Edit, Ops
<1> HIDE DEF new
<1> QED
  BY <1>1, <1>3, BegunIsTyped

\* It looks for the talk once more.
LEMMA CreateTalkFindsKeeps ==
  ASSUME ScheduleInv, NEW e \in Requests, CreateTalkFinds(e)
  PROVE  ScheduleInv' /\ Talks \subseteq Talks'
<1> DEFINE found == TheOnly(At(edit[e].new.title, edit[e].new.slot))
           new == [edit[e] EXCEPT !.op = "create", !.id = found, !.seen = talk[found]]
<1>1. /\ edit[e] \in Edit /\ edit' = [edit EXCEPT ![e] = new] /\ edit[e].op = "retry"
      /\ found # None /\ UNCHANGED <<event, rooms, talk>>
  BY DEF CreateTalkFinds, ScheduleInv, ScheduleTypeOK
<1>2. edit[e].new \in Creates
  BY <1>1 DEF ScheduleInv, EditsOK
<1>3. found \in Talks
  BY <1>1, TheOnlyIsOne DEF At
<1>4. found \in Ids /\ talk[found] \in Row
  BY <1>3 DEF ScheduleInv, ScheduleTypeOK, Talks
<1> HIDE DEF found
<1>5. new \in Edit /\ new.op = "create" /\ new.new \in Creates /\ new.seen \in Row
  BY <1>1, <1>2, <1>4 DEF Edit, Ops
<1> HIDE DEF new
<1> QED
  BY <1>1, <1>5, BegunIsTyped

\* A request that ends without having written anything.
LEMMA NothingIsWritten ==
  ASSUME ScheduleInv, NEW e \in Requests, Done(e), UNCHANGED <<event, rooms, talk>>
  PROVE  ScheduleInv' /\ Talks \subseteq Talks'
<1>1. ScheduleTypeOK' /\ RoomsRegistered'
  BY DoneIsTyped DEF ScheduleInv, ScheduleTypeOK, RoomsRegistered, Talks
<1>2. EditsOK'
  BY DoneKeepsEdits DEF Talks
<1> QED
  BY <1>1, <1>2 DEF ScheduleInv, Talks

\* update_talk reads the talk, and waits for the lock of the event.
LEMMA UpdateTalkReadsKeeps ==
  ASSUME ScheduleInv, NEW e \in Requests, NEW i \in Ids, NEW p \in Updates,
         UpdateTalkReads(e, i, p)
  PROVE  ScheduleInv' /\ Talks \subseteq Talks'
<1> DEFINE new == [NoEdit EXCEPT !.op = "update", !.id = i, !.seen = talk[i], !.new = p]
<1>1. /\ edit' = [edit EXCEPT ![e] = new] /\ i \in Talks
      /\ UNCHANGED <<event, rooms, talk>>
  BY DEF UpdateTalkReads
<1>2. talk[i] \in Row
  BY <1>1 DEF ScheduleInv, ScheduleTypeOK, Talks
<1>3. new \in Edit /\ new.op = "update" /\ new.new = p /\ new.seen = talk[i]
  BY <1>2 DEF NoEdit, Edit, Ops
<1> HIDE DEF new
<1> QED
  BY <1>1, <1>2, <1>3, BegunIsTyped

\* It writes the talk under the lock.
LEMMA UpdateTalkWritesKeeps ==
  ASSUME ScheduleInv, NEW e \in Requests, UpdateTalkWrites(e)
  PROVE  ScheduleInv' /\ Talks \subseteq Talks'
<1> DEFINE i == edit[e].id
           p == edit[e].new
           new == Updated(edit[e].seen, p)
           r == FlushRow(edit[e].seen, new, talk[i])
           name == IF p.room = Keep THEN None ELSE p.room
<1>1. /\ edit[e].op = "update" /\ i \in Talks
      /\ rooms' = IF p.room = Keep THEN rooms ELSE Ensured(rooms, p.room)
      /\ talk' = [talk EXCEPT ![i] = r]
      /\ Done(e) /\ UNCHANGED event
  BY DEF UpdateTalkWrites
<1>2. p \in Updates /\ edit[e].seen \in Row
  BY <1>1 DEF ScheduleInv, EditsOK
<1>3. rooms \subseteq Names /\ i \in Ids /\ talk[i] \in Row /\ talk[i].room \in rooms \cup {None}
  BY <1>1 DEF ScheduleInv, ScheduleTypeOK, RoomsRegistered, Talks
<1>4. /\ new \in Row
      /\ p.room = Keep => new.room = edit[e].seen.room
      /\ p.room # Keep => p.room \in Names \cup {None} /\ new.room = RoomName(rooms, p.room)
  BY <1>2, <1>3, UpdatedIsRow
<1>5. name \in Names \cup {None} /\ rooms' = Ensured(rooms, name)
  BY <1>1, <1>3, <1>4, RoomNameIsIn
<1>6. RoomName(rooms, name) \in rooms' \cup {None} /\ rooms \subseteq rooms'
  BY <1>3, <1>5, RoomNameIsIn
<1>7. r \in Row /\ r.room \in rooms' \cup {None}
  <2>1. CASE p.room = Keep
    <3>1. r \in Row /\ r.room = talk[i].room
      <4>1. r \in Row
        BY <1>2, <1>3, <1>4, FlushRowIsRow
      <4>2. new.room = edit[e].seen.room /\ "room" \in DOMAIN new
        BY <1>4, <2>1, RowsHave
      <4> HIDE DEF new
      <4>3. r.room = talk[i].room
        BY <4>2 DEF FlushRow
      <4> QED
        BY <4>1, <4>3
    <3> QED
      BY <1>3, <1>6, <3>1
  <2>2. CASE p.room # Keep
    BY <1>2, <1>3, <1>4, <1>6, <2>2, FlushRowIsRow
  <2> QED
    BY <2>1, <2>2
<1> HIDE DEF i, p, r, name
<1> QED
  BY <1>1, <1>3, <1>5, <1>7, RowIsWritten

-------------------------------------------------------------------------------
(* Deleting *)

\* delete_talk or bulk_delete_talks reads the talks.
LEMMA DeleteTalksReadsKeeps ==
  ASSUME ScheduleInv, NEW e \in Requests, NEW S \in SUBSET Ids, DeleteTalksReads(e, S)
  PROVE  ScheduleInv'
<1> DEFINE new == [NoEdit EXCEPT !.op = "delete", !.ids = S]
<1>1. edit' = [edit EXCEPT ![e] = new] /\ UNCHANGED <<event, rooms, talk>>
  BY DEF DeleteTalksReads
<1>2. new \in Edit /\ new.op = "delete"
  BY DEF NoEdit, Edit, Ops
<1> HIDE DEF new
<1> QED
  BY <1>1, <1>2, BegunIsTyped

\* The deletion of an event reads its talks.
LEMMA DeleteEventReadsKeeps ==
  ASSUME ScheduleInv, NEW e \in Requests, DeleteEventReads(e)
  PROVE  ScheduleInv'
<1> DEFINE new == [NoEdit EXCEPT !.op = "delete_event", !.ids = Talks]
<1>1. edit' = [edit EXCEPT ![e] = new] /\ UNCHANGED <<event, rooms, talk>>
  BY DEF DeleteEventReads
<1>2. new \in Edit /\ new.op = "delete_event" /\ new.ids = Talks
  BY DEF NoEdit, Edit, Ops, Talks
<1> HIDE DEF new
<1> QED
  BY <1>1, <1>2, BegunIsTyped

\* Rows that go leave the other rows and the rooms as they are.
LEMMA RowsGo ==
  ASSUME ScheduleInv, NEW e \in Requests, Done(e), NEW S,
         talk' = [i \in Ids |-> IF i \in S THEN None ELSE talk[i]],
         event' \in BOOLEAN, rooms' = rooms \/ (rooms' = {} /\ Ids \subseteq S)
  PROVE  ScheduleInv'
<1>1. /\ talk' \in [Ids -> Row \cup {None}]
      /\ \A i \in Ids : talk'[i] # None => i \in Talks /\ talk'[i] = talk[i] /\ i \notin S
  BY DEF ScheduleInv, ScheduleTypeOK, Talks
<1>2. ScheduleTypeOK'
  BY <1>1, DoneIsTyped DEF ScheduleInv, ScheduleTypeOK
<1>3. RoomsRegistered'
  BY <1>1 DEF ScheduleInv, RoomsRegistered, Talks
<1>4. EditsOK'
  BY <1>1, DoneKeepsEdits DEF Talks
<1> QED
  BY <1>2, <1>3, <1>4 DEF ScheduleInv

\* The rows are deleted.
LEMMA DeletesKeep ==
  ASSUME ScheduleInv, NEW e \in Requests, DeleteTalksWrites(e) \/ DeleteEventWrites(e)
  PROVE  ScheduleInv'
<1>1. CASE DeleteTalksWrites(e)
  <2>1. /\ talk' = [i \in Ids |-> IF i \in edit[e].ids THEN None ELSE talk[i]]
        /\ Done(e) /\ UNCHANGED <<event, rooms>>
    BY <1>1 DEF DeleteTalksWrites
  <2>2. event' \in BOOLEAN
    BY <2>1 DEF ScheduleInv, ScheduleTypeOK
  <2> QED
    BY <2>1, <2>2, RowsGo
<1>2. CASE DeleteEventWrites(e)
  <2>1. /\ talk' = [i \in Ids |-> IF i \in Ids THEN None ELSE talk[i]]
        /\ Done(e) /\ event' = FALSE /\ rooms' = {}
    BY <1>2 DEF DeleteEventWrites
  <2> QED
    BY <2>1, RowsGo
<1> QED
  BY <1>1, <1>2

-------------------------------------------------------------------------------
(* Importing.  What holds of the transaction after every entry.            *)

\* What the table of the talks may hold.
Tables == [Ids -> Row \cup {None}]

\* The transaction of an import: its rows have their rooms, and no talk is lost.
TxOK(tx) ==
  /\ tx \in [stored : Tables, session : Tables, known : SUBSET Names, ok : BOOLEAN]
  /\ Distinct(tx.known)
  /\ Housed(tx.stored, tx.known) /\ Housed(tx.session, tx.known)
  /\ \A i \in Ids : tx.stored[i] # None => tx.session[i] # None
  /\ \A i \in Talks : tx.session[i] # None

\* A flush keeps that.
LEMMA FlushedIsOK ==
  ASSUME NEW tx, TxOK(tx)
  PROVE  /\ TxOK(Flushed(tx))
         /\ Flushed(tx).stored = tx.session /\ Flushed(tx).session = tx.session
         /\ Flushed(tx).known = tx.known
<1> DEFINE ok == tx.ok /\ ~FlushConflicts(tx.stored, tx.session)
<1>1. tx \in [stored : Tables, session : Tables, known : SUBSET Names, ok : BOOLEAN]
  BY DEF TxOK
<1>2. ok \in BOOLEAN
  OBVIOUS
<1>3. Flushed(tx) = [tx EXCEPT !.stored = tx.session, !.ok = ok]
  BY DEF Flushed
<1> HIDE DEF ok
<1>4. Flushed(tx) = [stored |-> tx.session, session |-> tx.session, known |-> tx.known, ok |-> ok]
  BY <1>1, <1>3
<1> QED
  BY <1>1, <1>2, <1>4 DEF TxOK

\* The row an entry is matched with is there.
LEMMA MatchIs ==
  ASSUME NEW table, NEW entry, Match(table, entry) # None
  PROVE  Match(table, entry) \in Ids /\ table[Match(table, entry)] # None
<1> DEFINE here == {i \in Ids : /\ table[i] # None
                                /\ table[i].title = entry.title
                                /\ table[i].slot = entry.slot}
           byExt == {i \in Ids : table[i] # None /\ table[i].ext = entry.ext}
           fresh == {i \in here : table[i].ext = None}
<1>1. Match(table, entry) = IF entry.ext = None THEN TheOnly(here)
                            ELSE IF byExt # {} THEN TheOnly(byExt) ELSE TheOnly(fresh)
  BY DEF Match
<1>2. /\ \A i \in here : i \in Ids /\ table[i] # None
      /\ \A i \in byExt : i \in Ids /\ table[i] # None
      /\ \A i \in fresh : i \in Ids /\ table[i] # None
  OBVIOUS
<1> HIDE DEF here, byExt, fresh
<1>3. Match(table, entry) \in here \cup byExt \cup fresh
  BY <1>1, TheOnlyIsOne
<1> QED
  BY <1>2, <1>3

\* Writing a row into the session.
LEMMA SessionIsWritten ==
  ASSUME NEW tx, TxOK(tx), NEW i \in Ids, NEW r \in Row, r.room \in tx.known \cup {None}
  PROVE  TxOK([tx EXCEPT !.session[i] = r])
<1> DEFINE new == [tx.session EXCEPT ![i] = r]
<1>1. tx \in [stored : Tables, session : Tables, known : SUBSET Names, ok : BOOLEAN]
  BY DEF TxOK
<1>2. [tx EXCEPT !.session[i] = r] =
        [stored |-> tx.stored, session |-> new, known |-> tx.known, ok |-> tx.ok]
  BY <1>1
<1>3. new \in Tables /\ new[i] = r /\ \A j \in Ids \ {i} : new[j] = tx.session[j]
  BY <1>1 DEF Tables
<1> HIDE DEF new
<1>4. Housed(new, tx.known) /\ \A j \in Ids : tx.stored[j] # None => new[j] # None
  BY <1>3, NoneAssumption DEF TxOK, Housed
<1>5. \A j \in Talks : new[j] # None
  BY <1>3, NoneAssumption DEF TxOK, Talks
<1> QED
  BY <1>1, <1>2, <1>3, <1>4, <1>5 DEF TxOK

\* Registering a room.
LEMMA RoomIsKnown ==
  ASSUME NEW tx, TxOK(tx), NEW name \in Names \cup {None}
  PROVE  TxOK([tx EXCEPT !.known = Ensured(tx.known, name)])
<1>1. tx \in [stored : Tables, session : Tables, known : SUBSET Names, ok : BOOLEAN]
  BY DEF TxOK
<1> DEFINE known == Ensured(tx.known, name)
<1>2. known \subseteq Names /\ tx.known \subseteq known /\ Distinct(known)
  BY <1>1, RoomNameIsIn, EnsuredIsDistinct DEF TxOK
<1> HIDE DEF known
<1>3. [tx EXCEPT !.known = known] =
        [stored |-> tx.stored, session |-> tx.session, known |-> known, ok |-> tx.ok]
  BY <1>1
<1>4. Housed(tx.stored, known) /\ Housed(tx.session, known)
  BY <1>2 DEF TxOK, Housed
<1>5. TxOK([tx EXCEPT !.known = known])
  BY <1>1, <1>2, <1>3, <1>4 DEF TxOK
<1> QED
  BY <1>5 DEF known

\* An entry that is updated or inserted keeps it.
LEMMA UpsertIsOK ==
  ASSUME NEW tx, TxOK(tx), NEW entry \in Row
  PROVE  TxOK(Upsert(tx, entry))
<1> DEFINE found == Match(tx.stored, entry)
           free == {i \in NewIds : tx.session[i] = None}
           i == IF found # None THEN found ELSE CHOOSE n \in free : \A m \in free : n <= m
           registers == entry.room # None /\ ~Registered(tx.known, entry.room)
           ext == IF entry.ext = None /\ found # None THEN tx.session[i].ext ELSE entry.ext
           titled == IF found = None THEN tx
                     ELSE [tx EXCEPT !.session[i].title = entry.title, !.session[i].ext = ext]
           before == IF registers THEN Flushed(titled) ELSE titled
           row == [ title |-> entry.title, ext |-> ext, slot |-> entry.slot,
                    room |-> RoomName(tx.known, entry.room) ]
<1>1. Upsert(tx, entry) =
        IF found = None /\ free = {} THEN [tx EXCEPT !.ok = FALSE]
        ELSE [ before EXCEPT !.session[i] = row, !.known = Ensured(before.known, entry.room) ]
  BY DEF Upsert
<1>2. tx \in [stored : Tables, session : Tables, known : SUBSET Names, ok : BOOLEAN]
  BY DEF TxOK
<1>3. /\ entry.title \in Titles /\ entry.ext \in ExtIds \cup {None}
      /\ entry.slot \in Slots /\ entry.room \in Names \cup {None}
  BY RowsHave
<1>4. CASE found = None /\ free = {}
  <2>1. Upsert(tx, entry) = [tx EXCEPT !.ok = FALSE]
    BY <1>1, <1>4
  <2> DEFINE failed == [ stored |-> tx.stored, session |-> tx.session,
                         known |-> tx.known, ok |-> FALSE ]
  <2>2. Upsert(tx, entry) = failed
    BY <1>2, <2>1
  <2>3. TxOK(failed)
    BY <1>2 DEF TxOK
  <2> HIDE DEF failed
  <2> QED
    BY <2>2, <2>3
<1>5. CASE ~(found = None /\ free = {})
  <2>1. i \in Ids /\ (found # None => tx.session[i] \in Row)
    <3>1. CASE found # None
      <4>1. found \in Ids /\ tx.stored[found] # None
        BY <3>1, MatchIs
      <4>2. tx.session[found] # None /\ tx.session[found] \in Row \cup {None}
        BY <1>2, <4>1 DEF TxOK, Tables
      <4> QED
        BY <3>1, <4>1, <4>2
    <3>2. CASE found = None
      <4>1. free # {} /\ free \subseteq Ids /\ free \subseteq Nat
        BY <1>5, <3>2, IdsAssumption DEF NewIds
      <4> HIDE DEF free
      <4>2. \E n \in free : \A m \in free : n <= m
        BY <4>1, LeastIsThere
      <4> QED
        BY <3>2, <4>1, <4>2
    <3> QED
      BY <3>1, <3>2
  <2> HIDE DEF found, free, i
  <2>2. ext \in ExtIds \cup {None}
    BY <1>3, <2>1, RowsHave
  <2>3. TxOK(titled) /\ titled.known = tx.known
    <3>1. CASE found = None
      BY <3>1
    <3>2. CASE found # None
      <4> DEFINE r == [tx.session[i] EXCEPT !.title = entry.title, !.ext = ext]
      <4>1. tx.session[i] \in Row
        BY <2>1, <3>2
      <4>2. r \in Row /\ r.room = tx.session[i].room
        BY <1>3, <2>2, <4>1 DEF Row
      <4>3. tx.session[i].room \in tx.known \cup {None}
        BY <2>1, <4>1, NoneAssumption DEF TxOK, Housed
      <4>4. titled = [tx EXCEPT !.session[i] = r]
        BY <1>2, <2>1, <3>2, <4>1 DEF Tables
      <4> HIDE DEF r, titled
      <4>5. TxOK(titled)
        BY <2>1, <4>2, <4>3, <4>4, SessionIsWritten
      <4>6. titled.known = tx.known
        BY <1>2, <4>4
      <4> QED
        BY <4>5, <4>6
    <3> QED
      BY <3>1, <3>2
  <2> HIDE DEF titled
  <2>4. TxOK(before) /\ before.known = tx.known
    BY <2>3, FlushedIsOK
  <2> HIDE DEF before
  <2> DEFINE known == Ensured(tx.known, entry.room)
             wide == [before EXCEPT !.known = known]
  <2>5. TxOK(wide)
    BY <1>3, <2>4, RoomIsKnown
  <2>6. /\ RoomName(tx.known, entry.room) \in Names \cup {None}
        /\ RoomName(tx.known, entry.room) \in known \cup {None}
    BY <1>2, <1>3, RoomNameIsIn
  <2> HIDE DEF known, ext
  <2>7. row \in Row /\ row.room \in known \cup {None}
    BY <1>3, <2>2, <2>6 DEF Row
  <2>8. before \in [stored : Tables, session : Tables, known : SUBSET Names, ok : BOOLEAN]
    BY <2>4 DEF TxOK
  <2> HIDE DEF row
  <2>9. wide.known = known /\ [wide EXCEPT !.session[i] = row] =
          [before EXCEPT !.session[i] = row, !.known = known]
    BY <2>8
  <2> HIDE DEF wide
  <2>10. TxOK([wide EXCEPT !.session[i] = row])
    BY <2>1, <2>5, <2>7, <2>9, SessionIsWritten
  <2>11. Upsert(tx, entry) = [before EXCEPT !.session[i] = row, !.known = known]
    BY <1>1, <1>5, <2>4 DEF known
  <2> QED
    BY <2>9, <2>10, <2>11
<1> QED
  BY <1>4, <1>5

\* The transaction at its beginning.
Begun == [stored |-> talk, session |-> talk, known |-> rooms, ok |-> TRUE]

\* What the transaction is after entry k, given what it was before.
After(f, batch, k) ==
  IF k = 0 THEN Begun
  ELSE IF Repeated(batch, k) THEN f[k - 1]
  ELSE Upsert(f[k - 1], Latest(batch, k))

\* The transaction after an entry depends on the entry before only.
LEMMA AfterIsLocal ==
  ASSUME NEW f, NEW g, NEW batch, NEW k, k = 0 \/ f[k - 1] = g[k - 1]
  PROVE  After(f, batch, k) = After(g, batch, k)
BY DEF After

\* The recursion is well-founded: there is such a function.
LEMMA TransactionExists ==
  ASSUME NEW batch, NEW n \in Nat
  PROVE  \E f : f = [k \in 0..n |-> After(f, batch, k)]
<1> DEFINE Good(m) == \E f : f = [k \in 0..m |-> After(f, batch, k)]
           T == {m \in 0..n : ~Good(m)}
<1>1. SUFFICES T = {}
  OBVIOUS
<1>2. SUFFICES ASSUME T # {} PROVE FALSE
  OBVIOUS
<1>3. PICK m \in T : \A j \in T : m <= j
  <2>1. T \in SUBSET Nat
    OBVIOUS
  <2> HIDE DEF T
  <2> QED
    BY <1>2, <2>1, LeastIsThere
<1>4. m \in 0..n /\ ~Good(m)
  OBVIOUS
<1>5. CASE m = 0
  <2> DEFINE f == [k \in 0..0 |-> Begun]
  <2>1. \A k \in 0..0 : After(f, batch, k) = Begun
    BY DEF After
  <2>2. f = [k \in 0..0 |-> After(f, batch, k)]
    BY <2>1
  <2> QED
    BY <1>4, <1>5, <2>2
<1>6. CASE m # 0
  <2>1. m - 1 \in 0..n /\ ~(m <= m - 1)
    BY <1>4, <1>6
  <2>2. Good(m - 1)
    BY <1>3, <2>1
  <2>3. PICK f : f = [k \in 0..(m - 1) |-> After(f, batch, k)]
    BY <2>2
  <2> DEFINE g == [k \in 0..m |-> IF k = m THEN After(f, batch, k) ELSE f[k]]
  <2>4. ASSUME NEW k \in 0..m PROVE g[k] = After(g, batch, k)
    <3>1. g[k] = After(f, batch, k)
      <4>1. CASE k = m
        BY <4>1
      <4>2. CASE k # m
        <5>1. k \in 0..(m - 1)
          BY <1>4, <4>2
        <5>2. f[k] = After(f, batch, k)
          BY <2>3, <5>1
        <5> QED
          BY <4>2, <5>2
      <4> QED
        BY <4>1, <4>2
    <3>2. k = 0 \/ f[k - 1] = g[k - 1]
      <4>1. k # 0 => k - 1 \in 0..m /\ k - 1 # m
        BY <1>4
      <4> QED
        BY <4>1
    <3> HIDE DEF g
    <3> QED
      BY <3>1, <3>2, AfterIsLocal
  <2>5. g = [k \in 0..m |-> After(g, batch, k)]
    <3>1. g = [k \in 0..m |-> g[k]]
      OBVIOUS
    <3> HIDE DEF g
    <3> QED
      BY <2>4, <3>1
  <2> QED
    BY <1>4, <2>5
<1> QED
  BY <1>5, <1>6

\* A set of indices that is not empty has a greatest element.
LEMMA GreatestIsThere ==
  ASSUME NEW n \in Nat, NEW T \in SUBSET (1..n), T # {}
  PROVE  \E k \in T : \A j \in T : j <= k
<1> DEFINE up == {d \in 0..n : n - d \in T}
<1>1. \A j \in T : j \in 1..n /\ n - j \in 0..n /\ n - (n - j) = j
  OBVIOUS
<1>2. \A j \in T : n - j \in up
  BY <1>1
<1>3. PICK d \in up : \A j \in up : d <= j
  <2>1. up \in SUBSET Nat
    OBVIOUS
  <2> HIDE DEF up
  <2>2. up # {}
    BY <1>2
  <2> QED
    BY <2>1, <2>2, LeastIsThere
<1>4. d \in 0..n /\ n - d \in T
  OBVIOUS
<1> HIDE DEF up
<1>5. \A j \in T : d <= n - j
  BY <1>2, <1>3
<1>6. \A j \in T : j <= n - d
  BY <1>1, <1>4, <1>5
<1> QED
  BY <1>4, <1>6

\* Of the entries of one talk, the last one counts; it is a row.
LEMMA LatestIsRow ==
  ASSUME NEW batch \in Seq(Row), NEW k \in 1..Len(batch)
  PROVE  Latest(batch, k) \in Row
<1> DEFINE same == {n \in 1..Len(batch) : SameEntry(batch[n], batch[k])}
<1>1. Len(batch) \in Nat /\ DOMAIN batch = 1..Len(batch)
      /\ \A n \in 1..Len(batch) : batch[n] \in Row
  OBVIOUS
<1>2. k \in same
  BY DEF SameEntry
<1>3. PICK n \in same : \A j \in same : j <= n
  <2>1. same \in SUBSET (1..Len(batch))
    OBVIOUS
  <2> HIDE DEF same
  <2> QED
    BY <1>1, <1>2, <2>1, GreatestIsThere
<1>4. \A m \in 1..Len(batch) : m > n => ~(m <= n)
  BY <1>1
<1>5. /\ n \in DOMAIN batch /\ SameEntry(batch[n], batch[k])
      /\ \A m \in DOMAIN batch : m > n => ~SameEntry(batch[m], batch[k])
  BY <1>1, <1>3, <1>4
<1>6. PICK l \in DOMAIN batch : Latest(batch, k) = batch[l]
  BY <1>5 DEF Latest
<1> QED
  BY <1>1, <1>6

\* It holds at the beginning.
LEMMA BegunIsOK ==
  ASSUME ScheduleInv
  PROVE  TxOK(Begun)
BY DEF ScheduleInv, ScheduleTypeOK, RoomsRegistered, Begun, TxOK, Tables, Housed, Distinct, Talks

\* It holds at the end, by the least entry after which it would not.
LEMMA ImportIsOK ==
  ASSUME ScheduleInv, NEW batch \in Batches
  PROVE  TxOK(ImportOf(batch)) /\ \A i \in Talks : ImportOf(batch).stored[i] # None
<1> DEFINE n == Len(batch)
           tx == CHOOSE f : f = [k \in 0..n |-> After(f, batch, k)]
<1>1. batch \in Seq(Row) /\ n \in Nat
  BY BatchesAssumption
<1>2. ImportOf(batch) = Flushed(tx[n])
  BY DEF ImportOf, After, Begun
<1>3. tx = [k \in 0..n |-> After(tx, batch, k)]
  <2> HIDE DEF n
  <2> QED
    BY <1>1, TransactionExists
<1> HIDE DEF tx
<1> DEFINE T == {k \in 0..n : ~TxOK(tx[k])}
<1>4. T = {}
  <2>1. SUFFICES ASSUME T # {} PROVE FALSE
    OBVIOUS
  <2>2. PICK m \in T : \A j \in T : m <= j
    <3>1. T \in SUBSET Nat
      BY <1>1
    <3> HIDE DEF T
    <3> QED
      BY <2>1, <3>1, LeastIsThere
  <2>3. m \in 0..n /\ ~TxOK(tx[m]) /\ tx[m] = After(tx, batch, m)
    BY <1>3
  <2>4. CASE m = 0
    BY <2>3, <2>4, BegunIsOK DEF After
  <2>5. CASE m # 0
    <3>1. m - 1 \in 0..n /\ m \in 1..n /\ ~(m <= m - 1)
      BY <1>1, <2>3, <2>5
    <3>2. TxOK(tx[m - 1])
      BY <2>2, <3>1
    <3>3. Latest(batch, m) \in Row
      BY <1>1, <3>1, LatestIsRow
    <3>4. TxOK(Upsert(tx[m - 1], Latest(batch, m)))
      BY <3>2, <3>3, UpsertIsOK
    <3> QED
      BY <2>3, <2>5, <3>2, <3>4 DEF After
  <2> QED
    BY <2>4, <2>5
<1>5. TxOK(tx[n])
  BY <1>1, <1>4
<1> QED
  BY <1>2, <1>5, FlushedIsOK DEF TxOK

\* import_schedule as a whole.
LEMMA ImportKeeps ==
  ASSUME ScheduleInv, NEW batch \in Batches, ImportSchedule(batch)
  PROVE  ScheduleInv' /\ Talks \subseteq Talks'
<1>1. /\ talk' = ImportOf(batch).stored /\ rooms' = ImportOf(batch).known
      /\ ~EventLocked /\ UNCHANGED <<event, edit>>
  BY DEF ImportSchedule
<1>2. TxOK(ImportOf(batch)) /\ \A i \in Talks : ImportOf(batch).stored[i] # None
  BY ImportIsOK
<1>3. talk' \in Tables /\ rooms' \subseteq Names /\ Distinct(rooms') /\ Housed(talk', rooms')
  BY <1>1, <1>2 DEF TxOK
<1>4. ScheduleTypeOK' /\ RoomsRegistered'
  BY <1>1, <1>3 DEF ScheduleInv, ScheduleTypeOK, RoomsRegistered, Tables, Housed, Distinct, Talks
<1>5. EditsOK'
  BY <1>1, SameRequestsKeepEdits
<1>6. Talks \subseteq Talks'
  BY <1>1, <1>2 DEF Talks
<1> QED
  BY <1>4, <1>5, <1>6 DEF ScheduleInv

-------------------------------------------------------------------------------
(* The module as a whole *)

\* Every change of a room keeps the invariant, and loses no talk.
LEMMA EditRoomsKeeps ==
  ASSUME ScheduleInv, EditRooms
  PROVE  ScheduleInv' /\ Talks \subseteq Talks'
BY RoomIsCreated, RoomIsRenamed, RoomIsDeleted DEF EditRooms

\* So does every change of a talk.
LEMMA EditTalkKeeps ==
  ASSUME ScheduleInv, NEW e \in Editors, EditTalk(e)
  PROVE  ScheduleInv' /\ Talks \subseteq Talks'
<1>1. e \in Requests
  BY DEF Requests
<1>2. ASSUME NEW p \in Creates, CreateTalkReads(e, p) PROVE ScheduleInv' /\ Talks \subseteq Talks'
  BY <1>1, <1>2, CreateTalkReadsKeeps
<1>3. CASE CreateTalkUpdates(e)
  BY <1>1, <1>3, CreateTalkUpdatesKeeps
<1>4. ASSUME NEW i \in Ids, CreateTalkInserts(e, i) PROVE ScheduleInv' /\ Talks \subseteq Talks'
  BY <1>1, <1>4, CreateTalkInsertsKeeps
<1>5. CASE CreateTalkConflicts(e)
  BY <1>1, <1>5, CreateTalkConflictsKeeps
<1>10. CASE CreateTalkFinds(e)
  BY <1>1, <1>10, CreateTalkFindsKeeps
<1>6. CASE CreateTalkFails(e)
  BY <1>1, <1>6, NothingIsWritten DEF CreateTalkFails
<1>7. ASSUME NEW i \in Ids, NEW p \in Updates, UpdateTalkReads(e, i, p) PROVE ScheduleInv' /\ Talks \subseteq Talks'
  BY <1>1, <1>7, UpdateTalkReadsKeeps
<1>8. CASE UpdateTalkWrites(e)
  BY <1>1, <1>8, UpdateTalkWritesKeeps
<1>9. CASE UpdateTalkFails(e)
  BY <1>1, <1>9, NothingIsWritten DEF UpdateTalkFails
<1> QED
  BY <1>2, <1>3, <1>4, <1>5, <1>6, <1>7, <1>8, <1>9, <1>10 DEF EditTalk

\* Every deletion keeps the invariant.
LEMMA DeleteTalksKeeps ==
  ASSUME ScheduleInv, NEW e \in Deleters, DeleteTalks(e)
  PROVE  ScheduleInv'
<1>1. e \in Requests
  BY DEF Requests
<1> QED
  BY <1>1, DeleteTalksReadsKeeps, DeleteEventReadsKeeps, DeletesKeep DEF DeleteTalks

\* It holds in the initial state.
LEMMA InitIsInv ==
  ASSUME ScheduleInit
  PROVE  ScheduleInv
<1>1. event = TRUE /\ rooms = {} /\ \A i \in Ids : talk[i] = None
  BY DEF ScheduleInit
<1>2. talk \in [Ids -> Row \cup {None}] /\ edit \in [Requests -> Edit]
  BY NoEditIsEdit DEF ScheduleInit
<1>3. \A e \in Requests : edit[e].op = "none"
  BY NoEditIsEdit DEF ScheduleInit
<1> QED
  BY <1>1, <1>2, <1>3 DEF ScheduleInv, ScheduleTypeOK, RoomsRegistered, EditsOK, Talks

\* Every step of the schedule keeps it.
LEMMA NextKeepsInv ==
  ASSUME ScheduleInv, [ScheduleNext]_scheduleVars
  PROVE  ScheduleInv'
<1>1. CASE UNCHANGED scheduleVars
  BY <1>1 DEF scheduleVars, ScheduleInv, ScheduleTypeOK, RoomsRegistered, EditsOK, Talks
<1>2. CASE EditRooms
  BY <1>2, EditRoomsKeeps
<1>3. ASSUME NEW e \in Editors, EditTalk(e) PROVE ScheduleInv'
  BY <1>3, EditTalkKeeps
<1>4. ASSUME NEW e \in Deleters, DeleteTalks(e) PROVE ScheduleInv'
  BY <1>4, DeleteTalksKeeps
<1>5. ASSUME NEW batch \in Batches, ImportSchedule(batch) PROVE ScheduleInv'
  BY <1>5, ImportKeeps
<1> QED
  BY <1>1, <1>2, <1>3, <1>4, <1>5 DEF ScheduleNext

\* Every variable keeps its type: app/routes/talks.py and events.py write
\* nothing else, and a request never writes from a row it has not read.
THEOREM TypesHold == Schedule => []ScheduleTypeOK
<1>1. ScheduleInit => ScheduleInv
  BY InitIsInv
<1>2. ScheduleInv /\ [ScheduleNext]_scheduleVars => ScheduleInv'
  BY NextKeepsInv
<1>3. ScheduleInv => ScheduleTypeOK
  BY DEF ScheduleInv
<1> QED
  BY <1>1, <1>2, <1>3, PTL DEF Schedule

\* In an event with nothing but these handlers, a talk names a registered room
\* or none, though update_talk reads the talk before it locks the event.
THEOREM RoomsStayRegistered == Schedule => []RoomsRegistered
<1>1. ScheduleInit => ScheduleInv
  BY InitIsInv
<1>2. ScheduleInv /\ [ScheduleNext]_scheduleVars => ScheduleInv'
  BY NextKeepsInv
<1>3. ScheduleInv => RoomsRegistered
  BY DEF ScheduleInv
<1> QED
  BY <1>1, <1>2, <1>3, PTL DEF Schedule
===============================================================================
