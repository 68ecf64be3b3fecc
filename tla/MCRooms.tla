-------------------------------- MODULE MCRooms -------------------------------
EXTENDS RoomProperties

\* Time in half-hours.
McLower == [n \in Names |-> IF n = "A" THEN "a" ELSE n]
McEntry(x, s, r) == [title |-> "t", ext |-> x, slot |-> s, room |-> r]
McCreates == {[title |-> "t", slot |-> 22, room |-> "A"]}
McUpdates == {[title |-> Keep, slot |-> 22, room |-> Keep]}
McBatches == {<<McEntry("x", 20, "A"), McEntry(None, 22, "b")>>}
McLength == [r \in Recordings |-> IF r = "long" THEN 3 ELSE 2]
McTakenAt == [r \in Recordings |-> IF r = "long" THEN 18 ELSE None]
McStarts == {None, 40}
McDayOf == [s \in Slots |-> s \div 48]
McScheduled == [i \in Ids |-> IF i < 3 THEN McEntry(None, 16 + 2 * i, "a") ELSE None]
McUploaded == [i \in Ids |-> IF i = 2 THEN "short" ELSE None]
===============================================================================
