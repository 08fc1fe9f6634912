--------------------------- MODULE MCReservations ---------------------------
(***************************************************************************)
(* Two tables, a day of six hours, up to three reservations.               *)
(***************************************************************************)
EXTENDS Reservations

CONSTANTS t2, t4

Ranks == [t \in {t2, t4} |-> IF t = t2 THEN 1 ELSE 2]
Capacities == [t \in {t2, t4} |-> IF t = t2 THEN 2 ELSE 4]

Party(mesa, start, people) == [mesa |-> mesa, start |-> start, fin |-> Nobody, people |-> people]

\* Two at noon and one an hour later, for whom both tables will do; one that
\* wants the larger table; one that crosses midnight, one that
\* ends just before it though the search looks past it; one that stays longer.
Parties == { Party(Nobody, 1, 2), Party(Nobody, 2, 2), Party(t4, 2, 2) }
Late == { Party(Nobody, 5, 4), [Party(Nobody, 4, 4) EXCEPT !.fin = 5],
          [Party(t4, 0, 2) EXCEPT !.fin = 5] }

Nothing == [mesa |-> Nobody, start |-> Nobody, fin |-> Nobody, estado |-> Nobody]
Confirm == [Nothing EXCEPT !.estado = "CONFIRMADA"]
Move == [Nothing EXCEPT !.start = 3]
ToLarge == [Nothing EXCEPT !.mesa = t4]

AllMixes ==
  { [wants |-> Parties, edits |-> {Confirm}, does |-> {"cancel"}, faults |-> {},
     bookings |-> 3, changes |-> 2],
    [wants |-> Late, edits |-> {Move, ToLarge}, does |-> {"cancel"}, faults |-> {"crash"},
     bookings |-> 3, changes |-> 1],
    [wants |-> { Party(Nobody, 2, 2) }, edits |-> {Confirm}, does |-> {"cancel", "remind"},
     faults |-> {}, bookings |-> 2, changes |-> 1],
    [wants |-> { Party(Nobody, 2, 2) }, edits |-> {Move}, does |-> {"remind"},
     faults |-> {"send", "crash"}, bookings |-> 2, changes |-> 1] }
=============================================================================
