----------------------- MODULE MCDeliveryAssignments -----------------------
(***************************************************************************)
(* Two orders and two messages, of two drivers, against the staff.         *)
(***************************************************************************)
EXTENDS DeliveryAssignments

CONSTANTS t1, t2, d1, d2

Writers == [t \in {t1, t2} |-> IF t = t1 THEN d1 ELSE d2]
=============================================================================
