----------------------------- MODULE MCApiClients -----------------------------
EXTENDS ApiClientProperties, TLC

\* Client 1 has created two events; client 2 is marked as the platform's in the
\* database.
McRow(es, p, u, s) == [events |-> es, platform |-> p, url |-> u, secret |-> s]
McInitial ==
  [c \in ClientIds |-> CASE c = 1 -> McRow({"e1", "e2"}, FALSE, "u", "s")
                         [] c = 2 -> McRow({}, TRUE, None, None)
                         [] OTHER -> None]
McShared == [c \in ClientIds |-> IF c = 1 THEN McRow({"e1", "e2"}, FALSE, None, None) ELSE None]
McSymmetry == Permutations(Slots)
===============================================================================
