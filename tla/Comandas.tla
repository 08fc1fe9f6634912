------------------------------ MODULE Comandas ------------------------------
(***************************************************************************)
(* Orders (comandas) of one tenant: transitions of their state, and what a *)
(* delivered order does to sales, stock, supplies and the client's record. *)
(*                                                                         *)
(* Each PATCH /comandas/{id}/estado or DELETE /comandas/{id} is a process   *)
(* that runs once, in one PostgreSQL transaction at READ COMMITTED through  *)
(* one ORM session.  The order, its products and its client are read at    *)
(* the start without a lock; the session keeps those objects, and a later  *)
(* SELECT ... FOR UPDATE of a product locks the row but does not refresh    *)
(* the object that is already loaded.  Supplies are first read under lock. *)
(*                                                                         *)
(* Row locks: an UPDATE or a FOR UPDATE makes the request the row's owner;  *)
(* inserting a sale takes a KEY SHARE lock on the product it refers to,    *)
(* which many may hold and which excludes FOR UPDATE.  PostgreSQL aborts a *)
(* transaction that finds itself on a cycle of waiting.                    *)
(*                                                                         *)
(* An item stands for one unit of its product; prices are left out.        *)
(***************************************************************************)
EXTENDS Integers, Sequences, FiniteSets

CONSTANTS
  Requests, Orders, Products, Supplies, Leads,
  Nobody,     \* the owner of an unlocked row, and the client of an anonymous order
  Items,      \* Items[o]: the products of the order, in the order of its items
  Client,     \* Client[o]: the lead who ordered, or Nobody
  Recipe,     \* Recipe[p]: the supplies that one unit of p consumes
  Stock0,     \* Stock0[p]: the initial stock; 0 means it is not tracked
  Supply0,    \* Supply0[s]: the initial stock of a supply
  Minimum,    \* Minimum[p]: stock_minimo
  Kitchen,    \* TRUE when the tenant's business has a kitchen (MESAS)
  Inventory,  \* TRUE when it has the capability INVENTARIO
  Faults      \* the failures the environment may produce, see FaultKinds

FaultKinds ==
  { "crash",      \* the process dies or the connection is lost
    "inactive",   \* a product, a client or the user has been soft-deleted
    "supply" }    \* the statement that locks the supplies fails

Rows == Orders \cup Products \cup Supplies \cup Leads

ASSUME RowsAssumption ==
  /\ Orders \cap Products = {} /\ Orders \cap Supplies = {} /\ Orders \cap Leads = {}
  /\ Products \cap Supplies = {} /\ Products \cap Leads = {} /\ Supplies \cap Leads = {}
  /\ Nobody \notin Rows \cup Requests
ASSUME DataAssumption ==
  /\ Items \in [Orders -> Seq(Products) \ {<<>>}]
  /\ Client \in [Orders -> Leads \cup {Nobody}]
  /\ Recipe \in [Products -> SUBSET Supplies]
  /\ Stock0 \in [Products -> Nat] /\ Minimum \in [Products -> Nat]
  /\ Supply0 \in [Supplies -> Nat]
  /\ Kitchen \in BOOLEAN /\ Inventory \in BOOLEAN
  /\ Faults \subseteq FaultKinds

Estados == {"PENDIENTE", "EN_COCINA", "EN_PROCESO", "LISTO", "ENTREGADO", "CANCELADO"}
Targets == Estados \cup {"BORRAR"}

VARIABLES
  estado, venta, activo,      \* committed rows: orders; venta[o] says venta_id is set
  stock, disponible,          \* committed rows: products
  supply,                     \* committed rows: supplies
  pedidos,                    \* committed rows: leads, total_pedidos
  alerts,                     \* products with a stock_bajo alert
  owner, sharers,             \* row locks; KEY SHARE locks of products
  stage, order, target, item, \* each request's progress
  session,                    \* what each request's ORM session has loaded
  cut,                        \* units each request has taken of each product
  answer,                     \* the HTTP answer of each request
  sales, taken, used, served  \* history: committed sales of an order, units of
                              \* a product and of a supply, deliveries to a lead

orderRows == <<estado, venta, activo>>
stockRows == <<stock, disponible, supply, pedidos, alerts>>
locks     == <<owner, sharers>>
request   == <<order, target>>
history   == <<sales, taken, used, served>>
vars == <<orderRows, stockRows, locks, stage, item, session, cut, answer, request, history>>

-----------------------------------------------------------------------------
(* The state machine of an order (shared/rubros/operativa.py).             *)

Final == {"ENTREGADO", "CANCELADO"}

\* transiciones_orden: with a kitchen, or the generic one.
Successors(e) ==
  CASE e = "PENDIENTE" /\ Kitchen  -> {"EN_COCINA", "CANCELADO"}
    [] e = "PENDIENTE" /\ ~Kitchen -> {"EN_PROCESO", "LISTO", "CANCELADO"}
    [] e = "EN_COCINA" /\ Kitchen  -> {"LISTO", "CANCELADO"}
    [] e = "EN_PROCESO" /\ ~Kitchen -> {"LISTO", "CANCELADO"}
    [] e = "LISTO"                 -> {"ENTREGADO", "CANCELADO"}
    [] OTHER                       -> {}

\* puede_transicionar; a soft delete has no condition on the state.
Allowed(from, to) == to = "BORRAR" \/ to \in Successors(from)

-----------------------------------------------------------------------------
\* Mutant: the floor is forgotten.
Minus_NoFloor(a, b) == a - b

\* max(0, a - b): a stock is never negative.
Minus(a, b) == IF a > b THEN a - b ELSE 0

SuppliesOf(o) == UNION { Recipe[Items[o][i]] : i \in DOMAIN Items[o] }

\* _accumulate_consumption
Uses(o, s) == Cardinality({ i \in DOMAIN Items[o] : s \in Recipe[Items[o][i]] })

\* Mutant: every item is taken from the stock twice.
View_Twice(q, p) == Minus(session[q].stock[p], 2 * cut[q][p])

\* The stock that the session shows after its decrements (max(0, ...)), and
\* whether that differs from what it loaded, so that the flush writes it.
View(q, p)  == Minus(session[q].stock[p], cut[q][p])
Dirty(q, p) == cut[q][p] > 0 /\ session[q].stock[p] > 0

\* Mutant: no alert when the stock lands exactly on the minimum.
Crosses_Strict(before, after, minimum) == before > minimum /\ minimum > after

\* cruza_stock_minimo
Crosses(before, after, minimum) == before > minimum /\ minimum >= after

\* _decrement_stock: disponible becomes false with the last unit.
SoldOut(q, p) == Dirty(q, p) /\ View(q, p) = 0

Current(q) == Items[order[q]][item[q]]

\* The requests whose row locks the next statement of q waits for.
Blockers(q) ==
  LET wanted == CASE stage[q] = "write"             -> {order[q]}
                  [] stage[q] \in {"sell", "stock"} -> {Current(q)}
                  [] stage[q] = "supplies"          -> SuppliesOf(order[q])
                  [] stage[q] = "lead"              -> {Client[order[q]]}
                  [] OTHER                          -> {}
      shared == IF stage[q] = "stock" THEN sharers[Current(q)] ELSE {}
  IN  ({ owner[r] : r \in wanted } \cup shared) \ {q, Nobody}

\* q is on a cycle of waiting: a set of requests all reached from q, one of
\* which waits for q.
Deadlocked(q) ==
  \E C \in SUBSET Requests :
    /\ q \in C
    /\ \A D \in SUBSET C : q \in D /\ D # C => \E c \in D : Blockers(c) \cap (C \ D) # {}
    /\ \E c \in C : q \in Blockers(c)

Open == {"related", "write", "sell", "stock", "supplies", "lead", "answer", "answered"}

Session == [ estado : Estados, venta : BOOLEAN, stock : [Products -> Nat],
             supply : [Supplies -> Nat], pedidos : Nat ]

NoSession == [ estado |-> "PENDIENTE", venta |-> FALSE, stock |-> Stock0,
               supply |-> Supply0, pedidos |-> 0 ]

NothingCut == [p \in Products |-> 0]

TypeOK ==
  /\ estado \in [Orders -> Estados \cup {"AUSENTE"}]
  /\ venta \in [Orders -> BOOLEAN] /\ activo \in [Orders -> BOOLEAN]
  /\ stock \in [Products -> Nat] /\ disponible \in [Products -> BOOLEAN]
  /\ supply \in [Supplies -> Nat] /\ pedidos \in [Leads -> Nat]
  /\ alerts \subseteq Products
  /\ owner \in [Rows -> Requests \cup {Nobody}]
  /\ sharers \in [Products -> SUBSET Requests]
  /\ stage \in [Requests -> Open \cup {"idle", "done"}]
  /\ order \in [Requests -> Orders \cup {Nobody}]
  /\ target \in [Requests -> Targets]
  /\ item \in [Requests -> Nat]
  /\ session \in [Requests -> Session]
  /\ cut \in [Requests -> [Products -> Nat]]
  /\ answer \in [Requests -> {"none", "ok", "error"}]
  /\ sales \in [Orders -> Nat] /\ taken \in [Products -> Nat]
  /\ used \in [Supplies -> Nat] /\ served \in [Leads -> Nat]
  /\ \A q \in Requests :
       /\ stage[q] = "idle" => item[q] = 1
       /\ stage[q] \in Open => order[q] \in Orders /\ item[q] \in DOMAIN Items[order[q]]
       /\ stage[q] = "lead" => Client[order[q]] \in Leads

\* Orders exist in a state that is still open, or are yet to be created.
Init ==
  /\ estado \in [Orders -> {"AUSENTE", IF Kitchen THEN "EN_COCINA" ELSE "EN_PROCESO", "LISTO"}]
  /\ venta = [o \in Orders |-> FALSE] /\ activo = [o \in Orders |-> TRUE]
  /\ stock = Stock0 /\ disponible = [p \in Products |-> TRUE]
  /\ supply = Supply0 /\ pedidos = [l \in Leads |-> 0] /\ alerts = {}
  /\ owner = [r \in Rows |-> Nobody] /\ sharers = [p \in Products |-> {}]
  /\ stage = [q \in Requests |-> "idle"]
  /\ order = [q \in Requests |-> Nobody] /\ target = [q \in Requests |-> "BORRAR"]
  /\ item = [q \in Requests |-> 1]
  /\ session = [q \in Requests |-> NoSession]
  /\ cut = [q \in Requests |-> NothingCut]
  /\ answer = [q \in Requests |-> "none"]
  /\ sales = [o \in Orders |-> 0] /\ taken = [p \in Products |-> 0]
  /\ used = [s \in Supplies |-> 0] /\ served = [l \in Leads |-> 0]

-----------------------------------------------------------------------------
(* Steps of one request.                                                   *)

\* create_comanda, in one transaction; inserting an item takes a KEY SHARE
\* lock on its product, so it waits for a FOR UPDATE of another request.
Create(o) ==
  /\ estado[o] = "AUSENTE"
  /\ \A i \in DOMAIN Items[o] : owner[Items[o][i]] = Nobody
  /\ estado' = [estado EXCEPT ![o] = "PENDIENTE"]
  /\ UNCHANGED <<venta, activo, stockRows, locks, stage, item, session, cut, answer, request, history>>

\* Mutant: the session is not closed and its row locks stay.
Close_KeepsLocks(q, a) ==
  /\ stage' = [stage EXCEPT ![q] = "done"]
  /\ answer' = [answer EXCEPT ![q] = IF @ = "none" THEN a ELSE @]
  /\ order' = [order EXCEPT ![q] = Nobody] /\ target' = [target EXCEPT ![q] = "BORRAR"]
  /\ item' = [item EXCEPT ![q] = 1]
  /\ session' = [session EXCEPT ![q] = NoSession]
  /\ cut' = [cut EXCEPT ![q] = NothingCut]
  /\ UNCHANGED locks

\* The transaction ends: its locks are released and its session is gone.
Close(q, a) ==
  /\ stage' = [stage EXCEPT ![q] = "done"]
  /\ answer' = [answer EXCEPT ![q] = IF @ = "none" THEN a ELSE @]
  /\ owner' = [r \in Rows |-> IF owner[r] = q THEN Nobody ELSE owner[r]]
  /\ sharers' = [p \in Products |-> sharers[p] \ {q}]
  /\ order' = [order EXCEPT ![q] = Nobody] /\ target' = [target EXCEPT ![q] = "BORRAR"]
  /\ item' = [item EXCEPT ![q] = 1]
  /\ session' = [session EXCEPT ![q] = NoSession]
  /\ cut' = [cut EXCEPT ![q] = NothingCut]

Rollback(q, a) == Close(q, a) /\ UNCHANGED <<orderRows, stockRows, history>>

\* get_comanda and crud.get_by_id: an active order of the tenant, no lock.
ReadOrder(q, o) ==
  /\ stage[q] = "idle"
  /\ estado[o] # "AUSENTE" /\ activo[o]
  /\ order' = [order EXCEPT ![q] = o]
  /\ session' = [session EXCEPT ![q].estado = estado[o], ![q].venta = venta[o]]
  /\ stage' = [stage EXCEPT ![q] = "related"]
  /\ UNCHANGED <<orderRows, stockRows, locks, target, item, cut, answer, history>>

\* NotFoundError.
NotFound(q, o) ==
  /\ stage[q] = "idle"
  /\ estado[o] = "AUSENTE" \/ ~activo[o]
  /\ Rollback(q, "error")

\* The eager loads of get_comanda (products, client), then the check of
\* transition_estado against the requested state, which is first looked at here.
ReadRelated(q, t) ==
  /\ stage[q] = "related"
  /\ IF Allowed(session[q].estado, t)
     THEN /\ stage' = [stage EXCEPT ![q] = "write"]
          /\ target' = [target EXCEPT ![q] = t]
          /\ session' = [session EXCEPT
               ![q].stock = stock,
               ![q].pedidos = IF Client[order[q]] = Nobody THEN 0 ELSE pedidos[Client[order[q]]]]
          /\ UNCHANGED <<orderRows, stockRows, locks, item, cut, answer, order, history>>
     ELSE Rollback(q, "error")

\* comanda.estado is assigned and flushed by the next statement: the row is
\* locked.  A session that saw venta_id creates no sales.
WriteEstado(q) ==
  /\ stage[q] = "write"
  /\ Blockers(q) = {}
  /\ owner' = [owner EXCEPT ![order[q]] = q]
  /\ stage' = [stage EXCEPT ![q] = IF target[q] # "ENTREGADO" THEN "answer"
                                   ELSE IF session[q].venta THEN "stock" ELSE "sell"]
  /\ UNCHANGED <<orderRows, stockRows, sharers, item, session, cut, answer, request, history>>

\* The stage after one item: the next item, or the next stage.
AfterItem(q, same, next) ==
  IF item[q] < Len(Items[order[q]])
  THEN item' = [item EXCEPT ![q] = @ + 1] /\ stage' = [stage EXCEPT ![q] = same]
  ELSE item' = [item EXCEPT ![q] = 1] /\ stage' = [stage EXCEPT ![q] = next]

\* create_venta for one item: the insert refers to the product.
Sell(q) ==
  /\ stage[q] = "sell"
  /\ Blockers(q) = {}
  /\ sharers' = [sharers EXCEPT ![Current(q)] = @ \cup {q}]
  /\ AfterItem(q, "sell", "stock")
  /\ UNCHANGED <<orderRows, stockRows, owner, session, cut, answer, request, history>>

\* require_exists finds the client, the product or the user inactive.
NotSellable(q) ==
  /\ "inactive" \in Faults
  /\ stage[q] = "sell"
  /\ Rollback(q, "error")

\* _decrement_stock for one item: the row is locked, the object in the session
\* is the one loaded at the start.
TakeStock(q) ==
  /\ stage[q] = "stock"
  /\ Blockers(q) = {}
  /\ owner' = [owner EXCEPT ![Current(q)] = q]
  /\ cut' = [cut EXCEPT ![q][Current(q)] = @ + 1]
  /\ AfterItem(q, "stock", "supplies")
  /\ UNCHANGED <<orderRows, stockRows, sharers, session, answer, request, history>>

\* Mutant: the supplies are read without FOR UPDATE.
TakeSupplies_NoLock(q) ==
  /\ stage[q] = "supplies"
  /\ session' = [session EXCEPT ![q].supply = supply]
  /\ stage' = [stage EXCEPT ![q] = IF Client[order[q]] = Nobody THEN "answer" ELSE "lead"]
  /\ UNCHANGED <<orderRows, stockRows, locks, item, cut, answer, request, history>>

\* _decrement_ingredients: the supplies are locked and read for the first time.
TakeSupplies(q) ==
  /\ stage[q] = "supplies"
  /\ Blockers(q) = {}
  /\ owner' = [r \in Rows |-> IF r \in SuppliesOf(order[q]) THEN q ELSE owner[r]]
  /\ session' = [session EXCEPT ![q].supply = supply]
  /\ stage' = [stage EXCEPT ![q] = IF Client[order[q]] = Nobody THEN "answer" ELSE "lead"]
  /\ UNCHANGED <<orderRows, stockRows, sharers, item, cut, answer, request, history>>

\* What an aborted transaction answers.  _decrement_ingredients swallows the
\* exception: with a client the next statement fails, without one there is no
\* next statement and the COMMIT of the aborted transaction raises nothing.
AbortAnswer(q) ==
  IF stage[q] = "supplies" /\ Client[order[q]] = Nobody THEN "ok" ELSE "error"

SupplyFailure(q) ==
  /\ "supply" \in Faults
  /\ stage[q] = "supplies" /\ SuppliesOf(order[q]) # {}
  /\ Rollback(q, AbortAnswer(q))

\* update_lead_stats: total_pedidos of the client loaded at the start, plus one.
UpdateLead(q) ==
  /\ stage[q] = "lead"
  /\ Blockers(q) = {}
  /\ owner' = [owner EXCEPT ![Client[order[q]]] = q]
  /\ stage' = [stage EXCEPT ![q] = "answer"]
  /\ UNCHANGED <<orderRows, stockRows, sharers, item, session, cut, answer, request, history>>

\* The answer, the KDS event and the client's notice leave before the commit.
Answer(q) ==
  /\ stage[q] = "answer"
  /\ stage' = [stage EXCEPT ![q] = "answered"]
  /\ answer' = [answer EXCEPT ![q] = "ok"]
  /\ UNCHANGED <<orderRows, stockRows, locks, item, session, cut, request, history>>

Delivers(q) == target[q] = "ENTREGADO"

\* _sync_delivery_sales: once per comanda, by the venta_id that was loaded.
Sells(q) == Delivers(q) /\ ~session[q].venta

\* get_db commits what the session has flushed.
Commit(q) ==
  LET o == order[q]
      Taken(s) == Delivers(q) /\ s \in SuppliesOf(o)
      Served(l) == Delivers(q) /\ Client[o] = l
  IN
  /\ stage[q] = "answered"
  /\ estado' = [estado EXCEPT ![o] = IF target[q] = "BORRAR" THEN @ ELSE target[q]]
  /\ activo' = [activo EXCEPT ![o] = @ /\ target[q] # "BORRAR"]
  /\ venta' = [venta EXCEPT ![o] = @ \/ Sells(q)]
  /\ stock' = [p \in Products |-> IF Dirty(q, p) THEN View(q, p) ELSE stock[p]]
  /\ disponible' = [p \in Products |-> disponible[p] /\ ~SoldOut(q, p)]
  /\ alerts' = alerts \cup { p \in Products : /\ Inventory /\ Dirty(q, p)
                                             /\ Crosses(session[q].stock[p], View(q, p), Minimum[p]) }
  /\ supply' = [s \in Supplies |-> IF Taken(s) THEN Minus(session[q].supply[s], Uses(o, s)) ELSE supply[s]]
  /\ pedidos' = [l \in Leads |-> IF Served(l) THEN session[q].pedidos + 1 ELSE pedidos[l]]
  /\ sales' = [sales EXCEPT ![o] = IF Sells(q) THEN @ + 1 ELSE @]
  /\ taken' = [p \in Products |-> taken[p] + cut[q][p]]
  /\ used' = [s \in Supplies |-> IF Taken(s) THEN used[s] + Uses(o, s) ELSE used[s]]
  /\ served' = [l \in Leads |-> IF Served(l) THEN served[l] + 1 ELSE served[l]]
  /\ Close(q, "ok")

\* PostgreSQL finds a cycle of waiting and aborts the transaction.
DeadlockAbort(q) ==
  /\ Deadlocked(q)
  /\ Rollback(q, AbortAnswer(q))

\* The process dies, or the connection is lost before the commit.
Crash(q) ==
  /\ "crash" \in Faults
  /\ stage[q] \in Open
  /\ Rollback(q, "error")

-----------------------------------------------------------------------------
Advance(q) ==
  \/ \E t \in Targets : ReadRelated(q, t)
  \/ WriteEstado(q) \/ Sell(q) \/ TakeStock(q) \/ TakeSupplies(q) \/ UpdateLead(q)
  \/ Answer(q) \/ Commit(q) \/ DeadlockAbort(q)

Next ==
  \/ \E o \in Orders : Create(o)
  \/ \E q \in Requests :
       \/ \E o \in Orders : ReadOrder(q, o) \/ NotFound(q, o)
       \/ Advance(q)
       \/ NotSellable(q) \/ SupplyFailure(q) \/ Crash(q)

Spec == Init /\ [][Next]_vars

\* A request that has been received goes on: statements return, a free lock is
\* granted, and the database looks for deadlocks.
FairSpec == Spec /\ \A q \in Requests : WF_vars(Advance(q))
-----------------------------------------------------------------------------
(* What holds for any number of concurrent requests.                       *)

\* A delivered order has been sold: state, sales and venta_id are written by
\* one transaction (transition_estado), and no later transition undoes a sale.
DeliveredIsSold ==
  \A o \in Orders : /\ estado[o] = "ENTREGADO" => sales[o] > 0
                    /\ venta[o] <=> sales[o] > 0

\* Supplies are locked before they are first read, so no decrement is lost
\* (decrement_ingredients_for_comanda).
SuppliesExact == \A s \in Supplies : supply[s] = Minus(Supply0[s], used[s])

\* A stale session can lose decrements of a product's stock, never invent
\* them: the stock shows at least what is left (_decrement_stock).
StockNotUnderstated == \A p \in Products : Minus(Stock0[p], taken[p]) <= stock[p]

\* A stock that is at or below its minimum has raised an alert, whichever
\* session took it there (cruza_stock_minimo).
LowStockAlerted ==
  Inventory => \A p \in Products : stock[p] <= Minimum[p] /\ Minimum[p] < Stock0[p] => p \in alerts

\* A product whose tracked stock has run out is no longer on offer.
SoldOutIsHidden == \A p \in Products : stock[p] = 0 /\ Stock0[p] > 0 => ~disponible[p]

\* Every request comes to an end: no request waits for a row lock for ever,
\* although requests lock products in the order of their items.
EveryRequestEnds == \A q \in Requests : stage[q] = "related" ~> stage[q] = "done"

\* A request answered with success has its effect stored when it ends.  It
\* holds while nothing fails: a crash may fall between answer and commit, and
\* the failure of the supplies is answered with success ("Non-blocking:
\* ingredient tracking is optional", _decrement_ingredients).
AnsweredIsStored ==
  [][\A q \in Requests :
       stage[q] \in Open /\ stage'[q] = "done" /\ answer'[q] = "ok" =>
         IF target[q] = "BORRAR" THEN ~activo'[order[q]]
                                 ELSE estado'[order[q]] = target[q]]_vars

-----------------------------------------------------------------------------
(* What the documentation says and concurrent requests break.              *)

\* "Create ventas from delivered comanda items once per comanda."
\* (_sync_delivery_sales)
SalesOncePerOrder == \A o \in Orders : sales[o] <= 1

\* "Decrement producto stock for each item in a delivered comanda."
\* (_decrement_stock)
StockConserved == \A p \in Products : stock[p] = Minus(Stock0[p], taken[p])

\* "FSM transition: valida contra el FSM del rubro" (transition_estado): the
\* stored state moves only along the state machine.
StatesFollowFSM ==
  [][\A o \in Orders :
       estado[o] # "AUSENTE" /\ estado'[o] # estado[o] => estado'[o] \in Successors(estado[o])]_vars

\* "Determine loyalty tier based on total orders." (compute_estado_cliente):
\* total_pedidos is the number of deliveries.
LoyaltyCountsDeliveries == \A l \in Leads : pedidos[l] = served[l]

-----------------------------------------------------------------------------
(* The abstract specification of a delivery.                               *)

Ledger == INSTANCE DeliveryLedger WITH estado <- estado, venta <- venta, sales <- sales, supply <- supply

\* Whatever is interleaved and whatever fails, the orders, their sales and the
\* supplies change as if every delivery were one atomic step (transition_estado).
ImplementsLedger == Ledger!Spec

-----------------------------------------------------------------------------
(* The inductive invariants behind the proofs.                             *)

\* From the lock on, a delivering session's copy of a supply is the stored one.
SupplyInv ==
  \A q \in Requests :
    Delivers(q) /\ stage[q] \in {"lead", "answer", "answered"} =>
      \A s \in SuppliesOf(order[q]) : owner[s] = q /\ session[q].supply[s] = supply[s]

\* What a session has loaded, however stale, is a state the rows have been in:
\* it shows no less stock than is left, a product it saw at its minimum has
\* raised the alert, and the sale it saw is there.
StaleInv ==
  \A q \in Requests :
    /\ \A p \in Products :
         /\ Minus(Stock0[p], taken[p]) <= session[q].stock[p]
         /\ Inventory /\ session[q].stock[p] <= Minimum[p] /\ Minimum[p] < Stock0[p] => p \in alerts
    /\ stage[q] \in Open /\ session[q].venta => venta[order[q]]
=============================================================================
