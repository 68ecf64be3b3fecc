------------------------------ MODULE MCAccounts ------------------------------
EXTENDS AccountProperties, TLC

McSymmetry == Permutations(Slots)
McEventOf == [k \in TalkIds |-> IF k = 3 THEN "f" ELSE "e"]
McSpeakerOf == [k \in TalkIds |-> IF k = 1 THEN "ann" ELSE None]
McCreatorOf == [e \in Events |-> IF e = "e" THEN "bob" ELSE None]
McInitial ==
  [ u \in Users |->
      CASE u = "root" -> [NewUser("admin") EXCEPT !.verified = TRUE]
        [] u = "ann" -> [NewUser("user") EXCEPT !.verified = TRUE]
        [] OTHER -> None ]
McClients == [n \in {"key"} |-> [events |-> {"e"}, platform |-> FALSE]]
===============================================================================
