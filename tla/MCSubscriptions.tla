-------------------------- MODULE MCSubscriptions --------------------------
(***************************************************************************)
(* A first subscription and an upgrade, with limits small enough to reach. *)
(***************************************************************************)
EXTENDS Subscriptions

CONSTANTS s1, s2

\* An upgrade by itself; one subscription with each other kind of request.
Mixed ==
  {[from |-> "ESTANDAR", subs |-> {s1, s2}, does |-> {}]} \cup
  [from : {"ESTANDAR"}, subs : {{s1}},
   does : { {d} : d \in {"usage", "config", "plan", "admin", "lead", "fault", "unnumbered"} }] \cup
  {[from |-> "FREE", subs |-> {s1}, does |-> {}]}

PlanOfBought == [s \in Subs |-> IF s = s1 THEN "PLUS" ELSE "PRO"]
Limits == [p \in Plans |-> IF p \in {"FREE", "ESTANDAR"} THEN 1 ELSE IF p = "PLUS" THEN 2 ELSE 3]
=============================================================================
