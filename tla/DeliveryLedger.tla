--------------------------- MODULE DeliveryLedger ---------------------------
(***************************************************************************)
(* What the delivery of an order promises, as one atomic step: the order   *)
(* becomes ENTREGADO, it is linked to a sale, and its supplies are taken   *)
(* from what is in stock at that moment.  How requests read, lock, wait    *)
(* and fail on the way is left to Comandas, which implements this.         *)
(***************************************************************************)
EXTENDS Integers

CONSTANTS
  Orders, Supplies,
  Uses(_, _),   \* Uses(o, s): the units of supply s that order o consumes
  Estados       \* the states of an order; AUSENTE is the one that does not exist yet

VARIABLES estado, venta, sales, supply

vars == <<estado, venta, sales, supply>>

Init ==
  /\ estado \in [Orders -> (Estados \cup {"AUSENTE"}) \ {"ENTREGADO"}]
  /\ venta = [o \in Orders |-> FALSE]
  /\ sales = [o \in Orders |-> 0]
  /\ supply \in [Supplies -> Nat]

\* An order is created or moves to a state other than ENTREGADO.
Move(o, e) ==
  /\ e # "ENTREGADO"
  /\ estado' = [estado EXCEPT ![o] = e]
  /\ UNCHANGED <<venta, sales, supply>>

\* An order is delivered.  Its sales are new, or it had some already.
Deliver(o) ==
  /\ estado' = [estado EXCEPT ![o] = "ENTREGADO"]
  /\ venta' = [venta EXCEPT ![o] = TRUE]
  /\ \/ sales' = [sales EXCEPT ![o] = @ + 1]
     \/ sales[o] > 0 /\ UNCHANGED sales
  /\ supply' = [s \in Supplies |-> IF supply[s] > Uses(o, s) THEN supply[s] - Uses(o, s) ELSE 0]

Next == \E o \in Orders : Deliver(o) \/ \E e \in Estados : Move(o, e)

Spec == Init /\ [][Next]_vars
=============================================================================
