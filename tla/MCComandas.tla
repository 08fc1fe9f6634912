----------------------------- MODULE MCComandas -----------------------------
(* Small instances of Comandas for TLC.                                    *)
EXTENDS Comandas, TLC

CONSTANTS q1, q2, q3, o1, o2, o3, p1, p2, s1, l1

TwoRequests   == {q1, q2}
ThreeRequests == {q1, q2, q3}

\* Two orders of the same two products, listed in opposite order.
Crossed == (o1 :> <<p1, p2>>) @@ (o2 :> <<p2, p1>>)
\* Two orders of one product, one of them twice, and an order of another one.
Shared  == (o1 :> <<p1>>) @@ (o2 :> <<p1, p1>>) @@ (o3 :> <<p2>>)
\* Two orders of the same product.
OneEach  == (o1 :> <<p1>>) @@ (o2 :> <<p1>>)

SameClient   == [o \in Orders |-> l1]
OneAnonymous == [o \in Orders |-> IF o = o2 THEN Nobody ELSE l1]

\* Every product needs the supply, or only the first one does.
SharedSupply == [p \in Products |-> {s1}]
FirstOnly    == [p \in Products |-> IF p = p1 THEN {s1} ELSE {}]

StockTwo   == [p \in Products |-> 2]
StockThree == [p \in Products |-> 3]
SupplyThree == [s \in Supplies |-> 3]
MinimumOne == [p \in Products |-> 1]

NoFaults   == {}
AllFaults  == FaultKinds
SupplyOnly == {"supply"}

RequestSymmetry == Permutations(Requests)
=============================================================================
