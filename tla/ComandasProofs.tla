--------------------------- MODULE ComandasProofs ---------------------------
(***************************************************************************)
(* Theorems about Comandas, for every set of requests, orders and rows and *)
(* every combination of faults.                                            *)
(***************************************************************************)
EXTENDS Comandas, FiniteSetTheorems, TLAPS

-----------------------------------------------------------------------------
(* What the items of an order are, and what they consume.                  *)

\* An order has at least one item and every item is a product (create_comanda
\* refuses an order without items).
LEMMA ItemsFacts ==
  ASSUME NEW o \in Orders
  PROVE  /\ Len(Items[o]) \in Nat /\ Len(Items[o]) >= 1
         /\ DOMAIN Items[o] = 1 .. Len(Items[o])
         /\ \A i \in DOMAIN Items[o] : Items[o][i] \in Products
<1>1. Items[o] \in Seq(Products) /\ Items[o] # <<>>
  BY DataAssumption
<1>2. Len(Items[o]) \in Nat /\ DOMAIN Items[o] = 1 .. Len(Items[o])
  BY <1>1
<1>3. Len(Items[o]) # 0
  BY <1>1
<1>4. \A i \in DOMAIN Items[o] : Items[o][i] \in Products
  BY <1>1, <1>2
<1>5. QED
  BY <1>2, <1>3, <1>4

\* What an order consumes of a supply is a natural number, and it is zero for
\* a supply that none of its products needs (_accumulate_consumption).
LEMMA UsesFacts ==
  ASSUME NEW o \in Orders, NEW s \in Supplies
  PROVE  Uses(o, s) \in Nat /\ (s \notin SuppliesOf(o) => Uses(o, s) = 0)
<1> DEFINE Using == { i \in DOMAIN Items[o] : s \in Recipe[Items[o][i]] }
<1>1. DOMAIN Items[o] = 1 .. Len(Items[o]) /\ Len(Items[o]) \in Nat
  BY ItemsFacts
<1>2. IsFiniteSet(DOMAIN Items[o])
  BY <1>1, FS_Interval
<1>3. IsFiniteSet(Using)
  BY <1>2, FS_Subset
<1>4. Cardinality(Using) \in Nat
  BY <1>3, FS_CardinalityType
<1>5. s \notin SuppliesOf(o) => Using = {}
  BY DEF SuppliesOf
<1>6. QED
  BY <1>4, <1>5, FS_EmptySet DEF Uses

\* Subtraction with a floor stays natural, is monotone and composes: taking b
\* and then c is taking b + c (max(0, ...) in _decrement_stock).
LEMMA MinusFacts ==
  /\ \A a, b \in Nat : Minus(a, b) \in Nat /\ Minus(a, b) <= a
  /\ \A a, b, c \in Nat : Minus(Minus(a, b), c) = Minus(a, b + c)
  /\ \A a, b, c \in Nat : a <= b => Minus(a, c) <= Minus(b, c)
BY DEF Minus

-----------------------------------------------------------------------------
(* Type correctness.                                                       *)

\* The end of a transaction keeps the types of what belongs to the request.
LEMMA CloseType ==
  ASSUME TypeOK, NEW q \in Requests, NEW a \in {"ok", "error"}, Close(q, a)
  PROVE  /\ owner' \in [Rows -> Requests \cup {Nobody}]
         /\ sharers' \in [Products -> SUBSET Requests]
         /\ stage' \in [Requests -> Open \cup {"idle", "done"}]
         /\ order' \in [Requests -> Orders \cup {Nobody}] /\ target' \in [Requests -> Targets]
         /\ item' \in [Requests -> Nat]
         /\ session' \in [Requests -> Session]
         /\ cut' \in [Requests -> [Products -> Nat]]
         /\ answer' \in [Requests -> {"none", "ok", "error"}]
         /\ \A r \in Requests :
              /\ stage'[r] = "idle" => item'[r] = 1
              /\ stage'[r] \in Open =>
                   order'[r] \in Orders /\ item'[r] \in DOMAIN Items[order'[r]]
              /\ stage'[r] = "lead" => Client[order'[r]] \in Leads
<1>1. NoSession \in Session /\ NothingCut \in [Products -> Nat]
  BY DataAssumption DEF NoSession, Session, NothingCut, Estados
<1>2. /\ stage' = [stage EXCEPT ![q] = "done"] /\ item' = [item EXCEPT ![q] = 1]
      /\ order' = [order EXCEPT ![q] = Nobody] /\ target' = [target EXCEPT ![q] = "BORRAR"]
      /\ stage \in [Requests -> Open \cup {"idle", "done"}] /\ item \in [Requests -> Nat]
      /\ order \in [Requests -> Orders \cup {Nobody}] /\ target \in [Requests -> Targets]
  BY DEF Close, TypeOK
<1>3. \A r \in Requests : stage'[r] \in Open \cup {"idle"} =>
        stage'[r] = stage[r] /\ item'[r] = item[r] /\ order'[r] = order[r]
  BY <1>2 DEF Open
<1>4. \A r \in Requests :
        /\ stage'[r] = "idle" => item'[r] = 1
        /\ stage'[r] \in Open =>
             order'[r] \in Orders /\ item'[r] \in DOMAIN Items[order'[r]]
        /\ stage'[r] = "lead" => Client[order'[r]] \in Leads
  BY <1>3 DEF TypeOK, Open
<1>5. /\ session' \in [Requests -> Session] /\ cut' \in [Requests -> [Products -> Nat]]
      /\ owner' \in [Rows -> Requests \cup {Nobody}]
      /\ sharers' \in [Products -> SUBSET Requests]
      /\ answer' \in [Requests -> {"none", "ok", "error"}]
  BY <1>1 DEF Close, TypeOK
<1>6. QED
  BY <1>2, <1>4, <1>5 DEF Targets

LEMMA RollbackType ==
  ASSUME TypeOK, NEW q \in Requests, NEW a \in {"ok", "error"}, Rollback(q, a)
  PROVE  TypeOK'
<1>1. Close(q, a) /\ UNCHANGED <<orderRows, stockRows, history>>
  BY DEF Rollback
<1>2. QED
  BY <1>1, CloseType DEF TypeOK, orderRows, stockRows, history

\* AfterItem goes to the next item or, from the last one, back to the first.
LEMMA AfterItemType ==
  ASSUME TypeOK, NEW q \in Requests, stage[q] \in Open,
         NEW same \in Open, NEW next \in Open, AfterItem(q, same, next)
  PROVE  /\ item' \in [Requests -> Nat]
         /\ item'[q] \in DOMAIN Items[order[q]]
         /\ stage' \in [Requests -> Open \cup {"idle", "done"}]
         /\ stage'[q] = same \/ stage'[q] = next
         /\ \A r \in Requests \ {q} : item'[r] = item[r] /\ stage'[r] = stage[r]
<1>1. order[q] \in Orders /\ item[q] \in DOMAIN Items[order[q]]
  BY DEF TypeOK
<1>2. /\ Len(Items[order[q]]) \in Nat /\ Len(Items[order[q]]) >= 1
      /\ DOMAIN Items[order[q]] = 1 .. Len(Items[order[q]])
  BY <1>1, ItemsFacts
<1>3. item \in [Requests -> Nat] /\ stage \in [Requests -> Open \cup {"idle", "done"}]
  BY DEF TypeOK
<1>4. CASE item[q] < Len(Items[order[q]])
  <2>1. /\ item' = [item EXCEPT ![q] = item[q] + 1]
        /\ stage' = [stage EXCEPT ![q] = same]
    BY <1>4 DEF AfterItem
  <2>2. item[q] + 1 \in DOMAIN Items[order[q]]
    BY <1>1, <1>2, <1>3, <1>4
  <2>3. QED
    BY <1>3, <2>1, <2>2
<1>5. CASE ~(item[q] < Len(Items[order[q]]))
  <2>1. /\ item' = [item EXCEPT ![q] = 1]
        /\ stage' = [stage EXCEPT ![q] = next]
    BY <1>5 DEF AfterItem
  <2>2. 1 \in DOMAIN Items[order[q]]
    BY <1>2
  <2>3. QED
    BY <1>3, <2>1, <2>2
<1>6. QED
  BY <1>4, <1>5

\* Every variable keeps its type: stocks and counters never become negative, a
\* request in progress has an order and one of its items, and only a request
\* whose order has a client updates a client.
THEOREM TypeCorrect == Spec => []TypeOK
<1>1. Init => TypeOK
  <2>1. NoSession \in Session /\ NothingCut \in [Products -> Nat]
    BY DataAssumption DEF NoSession, Session, NothingCut, Estados
  <2>2. QED
    BY <2>1, DataAssumption, RowsAssumption DEF Init, TypeOK, Estados, Targets, Open
<1>2. TypeOK /\ [Next]_vars => TypeOK'
  <2> SUFFICES ASSUME TypeOK, [Next]_vars PROVE TypeOK'
    OBVIOUS
  <2>1. ASSUME NEW o \in Orders, Create(o) PROVE TypeOK'
    BY <2>1 DEF Create, TypeOK, Estados, stockRows, locks, request, history
  <2>2. ASSUME NEW q \in Requests, NEW o \in Orders, ReadOrder(q, o)
        PROVE  TypeOK'
    <3>1. 1 \in DOMAIN Items[o]
      BY ItemsFacts
    <3>2. session' \in [Requests -> Session]
      <4>1. estado[o] \in Estados /\ venta[o] \in BOOLEAN /\ session[q] \in Session
        BY <2>2 DEF ReadOrder, TypeOK
      <4>2. [session[q] EXCEPT !.estado = estado[o], !.venta = venta[o]] \in Session
        BY <4>1 DEF Session
      <4>3. session' = [session EXCEPT ![q] =
                          [session[q] EXCEPT !.estado = estado[o], !.venta = venta[o]]]
        BY <2>2, <4>1 DEF ReadOrder, TypeOK, Session
      <4>4. QED
        BY <4>2, <4>3 DEF TypeOK
    <3>3. QED
      BY <2>2, <3>1, <3>2
         DEF ReadOrder, TypeOK, Open, orderRows, stockRows, locks, history
  <2>3. ASSUME NEW q \in Requests, NEW o \in Orders, NotFound(q, o) PROVE TypeOK'
    BY <2>3, RollbackType DEF NotFound
  <2>4. ASSUME NEW q \in Requests, NEW t \in Targets, ReadRelated(q, t) PROVE TypeOK'
    <3>1. CASE Allowed(session[q].estado, t)
      <4>1. session' \in [Requests -> Session]
        <5> DEFINE l == Client[order[q]]
                   n == IF l = Nobody THEN 0 ELSE pedidos[l]
        <5>1. session[q] \in Session /\ stock \in [Products -> Nat]
          BY DEF TypeOK
        <5>2. n \in Nat
          BY <2>4, DataAssumption DEF ReadRelated, TypeOK, Open
        <5>3. [session[q] EXCEPT !.stock = stock, !.pedidos = n] \in Session
          BY <5>1, <5>2 DEF Session
        <5>4. session' = [session EXCEPT ![q] =
                            [session[q] EXCEPT !.stock = stock, !.pedidos = n]]
          BY <2>4, <3>1, <5>1 DEF ReadRelated, TypeOK, Session
        <5>5. QED
          BY <5>3, <5>4 DEF TypeOK
      <4>2. QED
        BY <2>4, <3>1, <4>1
           DEF ReadRelated, TypeOK, Open, orderRows, stockRows, locks, request, history
    <3>2. CASE ~Allowed(session[q].estado, t)
      BY <2>4, <3>2, RollbackType DEF ReadRelated
    <3>3. QED
      BY <3>1, <3>2
  <2>5. ASSUME NEW q \in Requests, WriteEstado(q) PROVE TypeOK'
    BY <2>5 DEF WriteEstado, TypeOK, Open, Rows, orderRows, stockRows, request, history
  <2>6. ASSUME NEW q \in Requests, Sell(q) PROVE TypeOK'
    <3>1. stage[q] \in Open /\ AfterItem(q, "sell", "stock")
      BY <2>6 DEF Sell, Open
    <3>2. QED
      BY <2>6, <3>1, AfterItemType
         DEF Sell, TypeOK, Open, orderRows, stockRows, request, history
  <2>7. ASSUME NEW q \in Requests, NotSellable(q) PROVE TypeOK'
    BY <2>7, RollbackType DEF NotSellable
  <2>8. ASSUME NEW q \in Requests, TakeStock(q) PROVE TypeOK'
    <3>1. stage[q] \in Open /\ AfterItem(q, "stock", "supplies")
      BY <2>8 DEF TakeStock, Open
    <3>2. Current(q) \in Products
      BY <3>1, ItemsFacts DEF Current, TypeOK
    <3>3. owner' \in [Rows -> Requests \cup {Nobody}] /\ cut' \in [Requests -> [Products -> Nat]]
      BY <2>8, <3>2 DEF TakeStock, TypeOK, Rows
    <3>4. QED
      BY <2>8, <3>1, <3>3, AfterItemType
         DEF TakeStock, TypeOK, Open, orderRows, stockRows, request, history
  <2>9. ASSUME NEW q \in Requests, TakeSupplies(q) PROVE TypeOK'
    <3>1. session' \in [Requests -> Session]
      BY <2>9 DEF TakeSupplies, TypeOK, Session
    <3>2. Client[order[q]] \in Leads \cup {Nobody}
      BY <2>9, DataAssumption DEF TakeSupplies, TypeOK, Open
    <3>3. QED
      BY <2>9, <3>1, <3>2
         DEF TakeSupplies, TypeOK, Open, orderRows, stockRows, request, history
  <2>10. ASSUME NEW q \in Requests, SupplyFailure(q) \/ DeadlockAbort(q) PROVE TypeOK'
    BY <2>10, RollbackType DEF SupplyFailure, DeadlockAbort, AbortAnswer
  <2>11. ASSUME NEW q \in Requests, UpdateLead(q) PROVE TypeOK'
    BY <2>11 DEF UpdateLead, TypeOK, Open, orderRows, stockRows, request, history
  <2>12. ASSUME NEW q \in Requests, Answer(q) PROVE TypeOK'
    BY <2>12 DEF Answer, TypeOK, Open, orderRows, stockRows, locks, request, history
  <2>13. ASSUME NEW q \in Requests, Commit(q) PROVE TypeOK'
    <3> DEFINE o == order[q]
    <3>1. o \in Orders /\ Close(q, "ok")
      BY <2>13 DEF Commit, TypeOK, Open
    <3>2. /\ estado' \in [Orders -> Estados \cup {"AUSENTE"}]
          /\ venta' \in [Orders -> BOOLEAN] /\ activo' \in [Orders -> BOOLEAN]
      BY <2>13, <3>1 DEF Commit, TypeOK, Targets
    <3>3. /\ \A p \in Products : View(q, p) \in Nat
          /\ \A s \in Supplies : /\ Uses(o, s) \in Nat
                                 /\ Minus(session[q].supply[s], Uses(o, s)) \in Nat
      <4>1. /\ session[q].stock \in [Products -> Nat] /\ session[q].supply \in [Supplies -> Nat]
            /\ cut[q] \in [Products -> Nat]
        BY DEF TypeOK, Session
      <4>2. \A p \in Products : View(q, p) \in Nat
        BY <4>1, MinusFacts DEF View
      <4>3. \A s \in Supplies : Uses(o, s) \in Nat
        BY <3>1, UsesFacts
      <4>4. \A s \in Supplies : Minus(session[q].supply[s], Uses(o, s)) \in Nat
        BY <4>1, <4>3, MinusFacts
      <4>5. QED
        BY <4>2, <4>3, <4>4
    <3>4. /\ stock' \in [Products -> Nat] /\ disponible' \in [Products -> BOOLEAN]
          /\ alerts' \subseteq Products
      BY <2>13, <3>3 DEF Commit, TypeOK
    <3>5. supply' \in [Supplies -> Nat] /\ used' \in [Supplies -> Nat]
      BY <2>13, <3>3 DEF Commit, TypeOK
    <3>6. pedidos' \in [Leads -> Nat] /\ served' \in [Leads -> Nat]
      BY <2>13, <3>1 DEF Commit, TypeOK, Session
    <3>7. sales' \in [Orders -> Nat] /\ taken' \in [Products -> Nat]
      BY <2>13, <3>1 DEF Commit, TypeOK
    <3>8. QED
      BY <3>1, <3>2, <3>4, <3>5, <3>6, <3>7, CloseType DEF TypeOK
  <2>14. ASSUME NEW q \in Requests, Crash(q) PROVE TypeOK'
    BY <2>14, RollbackType DEF Crash
  <2>15. CASE UNCHANGED vars
    BY <2>15 DEF vars, orderRows, stockRows, locks, request, history, TypeOK
  <2>16. QED
    BY <2>1, <2>2, <2>3, <2>4, <2>5, <2>6, <2>7, <2>8, <2>9, <2>10, <2>11, <2>12,
       <2>13, <2>14, <2>15 DEF Next, Advance
<1>3. QED
  BY <1>1, <1>2, PTL DEF Spec

-----------------------------------------------------------------------------
(* What a step may touch.                                                  *)

\* Only the commit writes rows, except that an order may be created.
LEMMA OnlyCommitWrites ==
  ASSUME [Next]_vars
  PROVE  \/ \E q \in Requests : Commit(q)
         \/ /\ UNCHANGED <<venta, activo, stockRows, history>>
            /\ \/ UNCHANGED estado
               \/ \E o \in Orders : estado' = [estado EXCEPT ![o] = "PENDIENTE"]
<1> USE DEF Rollback, orderRows
<1>1. ASSUME NEW o \in Orders, Create(o)
      PROVE  /\ UNCHANGED <<venta, activo, stockRows, history>>
             /\ estado' = [estado EXCEPT ![o] = "PENDIENTE"]
  BY <1>1 DEF Create
<1>2. ASSUME NEW q \in Requests,
             \/ \E o \in Orders : ReadOrder(q, o) \/ NotFound(q, o)
             \/ \E t \in Targets : ReadRelated(q, t)
             \/ WriteEstado(q) \/ Sell(q) \/ TakeStock(q)
      PROVE  UNCHANGED <<orderRows, stockRows, history>>
  BY <1>2 DEF ReadOrder, NotFound, ReadRelated, WriteEstado, Sell, TakeStock
<1>3. ASSUME NEW q \in Requests,
             \/ TakeSupplies(q) \/ UpdateLead(q) \/ Answer(q) \/ DeadlockAbort(q)
             \/ NotSellable(q) \/ SupplyFailure(q) \/ Crash(q)
      PROVE  UNCHANGED <<orderRows, stockRows, history>>
  BY <1>3 DEF TakeSupplies, UpdateLead, Answer, DeadlockAbort, NotSellable, SupplyFailure, Crash
<1>4. CASE UNCHANGED vars
  BY <1>4 DEF vars
<1>5. QED
  BY <1>1, <1>2, <1>3, <1>4 DEF Next, Advance

\* What a step does to the products and the sale that a session shows: it
\* leaves them, reads them from the rows, or closes the session.
LEMMA SessionSteps ==
  ASSUME TypeOK, [Next]_vars, NEW r \in Requests
  PROVE  /\ \/ session'[r].stock = session[r].stock
            \/ session'[r].stock = stock /\ UNCHANGED stockRows /\ UNCHANGED history
            \/ session'[r].stock = Stock0
         /\ stage'[r] \in Open /\ session'[r].venta =>
              \/ stage[r] \in Open /\ session[r].venta /\ order'[r] = order[r]
              \/ venta[order'[r]] /\ UNCHANGED venta
<1> USE DEF Open
<1>1. NoSession.stock = Stock0 /\ stage \in [Requests -> Open \cup {"idle", "done"}]
  BY DEF NoSession, TypeOK
<1>2. session \in [Requests -> Session] /\ order \in [Requests -> Orders \cup {Nobody}]
  BY DEF TypeOK
<1>3. ASSUME NEW q \in Requests, NEW a \in {"ok", "error"}, Close(q, a)
      PROVE  /\ session'[r].stock = session[r].stock \/ session'[r].stock = Stock0
             /\ stage'[r] \in Open => /\ stage[r] \in Open /\ session'[r] = session[r]
                                      /\ order'[r] = order[r]
  BY <1>1, <1>2, <1>3 DEF Close, Open
<1>4. ASSUME NEW q \in Requests, NEW a \in {"ok", "error"}, Rollback(q, a)
      PROVE  /\ session'[r].stock = session[r].stock \/ session'[r].stock = Stock0
             /\ stage'[r] \in Open => /\ stage[r] \in Open /\ session'[r] = session[r]
                                      /\ order'[r] = order[r]
  BY <1>3, <1>4 DEF Rollback
<1>5. ASSUME NEW o \in Orders, Create(o) PROVE UNCHANGED <<session, stage, order>>
  BY <1>5 DEF Create, request
<1>6. ASSUME NEW q \in Requests, NEW o \in Orders, ReadOrder(q, o)
      PROVE  /\ session'[r].stock = session[r].stock
             /\ \/ UNCHANGED venta /\ order'[r] = o /\ session'[r].venta = venta[o]
                \/ session'[r] = session[r] /\ order'[r] = order[r] /\ stage'[r] = stage[r]
  <2>1. CASE q = r
    BY <1>1, <1>2, <1>6, <2>1 DEF ReadOrder, Session, orderRows
  <2>2. CASE q # r
    BY <1>1, <1>2, <1>6, <2>2 DEF ReadOrder
  <2>3. QED
    BY <2>1, <2>2
<1>7. ASSUME NEW q \in Requests, NEW t \in Targets, ReadRelated(q, t), Allowed(session[q].estado, t)
      PROVE  /\ \/ session'[r].stock = session[r].stock
                \/ session'[r].stock = stock /\ UNCHANGED <<stockRows, history>>
             /\ session'[r].venta = session[r].venta /\ order'[r] = order[r]
             /\ stage'[r] \in Open => stage[r] \in Open
  BY <1>1, <1>2, <1>7 DEF ReadRelated, Session, request
<1>8. ASSUME NEW q \in Requests, TakeSupplies(q)
      PROVE  /\ session'[r].stock = session[r].stock
             /\ session'[r].venta = session[r].venta /\ order'[r] = order[r]
             /\ stage'[r] \in Open => stage[r] \in Open
  BY <1>1, <1>2, <1>8 DEF TakeSupplies, Session, request
<1>9. ASSUME NEW q \in Requests,
             WriteEstado(q) \/ Sell(q) \/ TakeStock(q) \/ UpdateLead(q) \/ Answer(q)
      PROVE  UNCHANGED <<session, order>> /\ (stage'[r] \in Open => stage[r] \in Open)
  BY <1>1, <1>9 DEF WriteEstado, Sell, TakeStock, UpdateLead, Answer, AfterItem, request
<1>10. ASSUME NEW q \in Requests, Commit(q)
       PROVE  Close(q, "ok")
  BY <1>10 DEF Commit
<1>11. ASSUME NEW q \in Requests,
              \/ \E o \in Orders : NotFound(q, o)
              \/ \E t \in Targets : ReadRelated(q, t) /\ ~Allowed(session[q].estado, t)
              \/ DeadlockAbort(q) \/ NotSellable(q) \/ SupplyFailure(q) \/ Crash(q)
       PROVE  \E a \in {"ok", "error"} : Rollback(q, a)
  BY <1>11 DEF NotFound, ReadRelated, DeadlockAbort, NotSellable, SupplyFailure, Crash, AbortAnswer
<1>12. CASE UNCHANGED vars
  BY <1>12 DEF vars, request
<1>13. QED
  BY <1>3, <1>4, <1>5, <1>6, <1>7, <1>8, <1>9, <1>10, <1>11, <1>12 DEF Next, Advance

-----------------------------------------------------------------------------
(* Stock: what stale sessions can and cannot do.                           *)

StockInv == StaleInv /\ StockNotUnderstated /\ LowStockAlerted

\* StockInv is inductive.  A session may be older than any number of commits,
\* so the invariant speaks of what every session shows, not only of the rows.
THEOREM StockCorrect == Spec => []StockInv
<1> USE DEF StockInv
<1>1. Init => StockInv
  <2> SUFFICES ASSUME Init PROVE StockInv
    OBVIOUS
  <2>1. \A p \in Products : /\ Stock0[p] \in Nat /\ Minimum[p] \in Nat /\ taken[p] = 0
                            /\ Minus(Stock0[p], taken[p]) <= Stock0[p]
    BY DataAssumption, MinusFacts DEF Init
  <2>2. \A q \in Requests : session[q] = NoSession /\ stage[q] = "idle"
    BY DEF Init
  <2>3. QED
    BY <2>1, <2>2 DEF Init, StaleInv, StockNotUnderstated, LowStockAlerted, NoSession, Open
<1>2. TypeOK /\ StockInv /\ [Next]_vars => StockInv'
  <2> SUFFICES ASSUME TypeOK, StockInv, [Next]_vars PROVE StockInv'
    OBVIOUS
  <2>1. /\ Stock0 \in [Products -> Nat] /\ Minimum \in [Products -> Nat]
        /\ stock \in [Products -> Nat] /\ taken \in [Products -> Nat]
        /\ \A q \in Requests : /\ session[q].stock \in [Products -> Nat]
                               /\ cut[q] \in [Products -> Nat]
    BY DataAssumption DEF TypeOK, Session
  <2>2. ASSUME NEW q \in Requests, Commit(q), NEW p \in Products
        PROVE  /\ Minus(Stock0[p], taken'[p]) <= Minus(Stock0[p], taken[p])
               /\ Minus(Stock0[p], taken'[p]) <= stock'[p]
               /\ p \in alerts => p \in alerts'
               /\ Inventory /\ stock'[p] <= Minimum[p] /\ Minimum[p] < Stock0[p] => p \in alerts'
    <3> DEFINE seen == session[q].stock[p]
               left == Minus(Stock0[p], taken[p])
    <3>1. seen \in Nat /\ cut[q][p] \in Nat /\ taken[p] \in Nat /\ stock[p] \in Nat
          /\ Stock0[p] \in Nat /\ Minimum[p] \in Nat /\ left \in Nat
      BY <2>1, MinusFacts
    <3>2. /\ left <= seen /\ left <= stock[p]
          /\ Inventory /\ seen <= Minimum[p] /\ Minimum[p] < Stock0[p] => p \in alerts
          /\ Inventory /\ stock[p] <= Minimum[p] /\ Minimum[p] < Stock0[p] => p \in alerts
      BY DEF StaleInv, StockNotUnderstated, LowStockAlerted
    <3>3. /\ taken'[p] = taken[p] + cut[q][p]
          /\ stock'[p] = IF Dirty(q, p) THEN View(q, p) ELSE stock[p]
          /\ alerts \subseteq alerts'
          /\ Inventory /\ Dirty(q, p) /\ Crosses(seen, View(q, p), Minimum[p]) => p \in alerts'
      BY <2>2 DEF Commit
    <3>4. Minus(Stock0[p], taken'[p]) = Minus(left, cut[q][p])
      <4>1. taken'[p] = taken[p] + cut[q][p]
        BY <3>3
      <4>2. QED
        BY <3>1, <4>1 DEF Minus
    <3>5. Minus(left, cut[q][p]) <= left
      BY <3>1, MinusFacts
    <3>6. Minus(left, cut[q][p]) <= View(q, p) /\ View(q, p) \in Nat
      BY <3>1, <3>2, MinusFacts DEF View
    <3>7. ~Dirty(q, p) => Minus(left, cut[q][p]) <= stock[p]
      BY <3>1, <3>2, <3>5, MinusFacts DEF Minus
    <3>8. Inventory /\ Dirty(q, p) /\ View(q, p) <= Minimum[p] /\ Minimum[p] < Stock0[p]
            => p \in alerts'
      BY <3>1, <3>2, <3>3, <3>6 DEF Crosses
    <3>9. QED
      BY <3>2, <3>3, <3>4, <3>5, <3>6, <3>7, <3>8
  <2>3. ASSUME NEW p \in Products
        PROVE  /\ Minus(Stock0[p], taken'[p]) <= Minus(Stock0[p], taken[p])
               /\ Minus(Stock0[p], taken'[p]) <= stock'[p]
               /\ p \in alerts => p \in alerts'
               /\ Inventory /\ stock'[p] <= Minimum[p] /\ Minimum[p] < Stock0[p] => p \in alerts'
    <3>1. Minus(Stock0[p], taken[p]) \in Nat
      BY <2>1, MinusFacts
    <3>2. CASE UNCHANGED <<stockRows, history>>
      BY <3>1, <3>2 DEF stockRows, history, StockNotUnderstated, LowStockAlerted
    <3>3. QED
      BY <2>2, <3>2, OnlyCommitWrites
  <2>4. ASSUME NEW r \in Requests, NEW p \in Products
        PROVE  /\ Minus(Stock0[p], taken'[p]) <= session'[r].stock[p]
               /\ Inventory /\ session'[r].stock[p] <= Minimum[p] /\ Minimum[p] < Stock0[p]
                    => p \in alerts'
    <3>1. /\ Minus(Stock0[p], taken[p]) \in Nat /\ Minus(Stock0[p], taken'[p]) \in Nat
          /\ Minus(Stock0[p], taken[p]) <= Stock0[p]
      <4>1. taken'[p] \in Nat
        BY <2>1, OnlyCommitWrites DEF Commit, history
      <4>2. QED
        BY <2>1, <4>1, MinusFacts
    <3>2. CASE session'[r].stock = session[r].stock
      BY <2>1, <2>3, <3>1, <3>2 DEF StaleInv
    <3>3. CASE session'[r].stock = stock /\ UNCHANGED stockRows
      BY <2>1, <2>3, <3>1, <3>3 DEF stockRows
    <3>4. CASE session'[r].stock = Stock0
      BY <2>1, <2>3, <3>1, <3>4
    <3>5. QED
      BY <3>2, <3>3, <3>4, SessionSteps
  <2>5. ASSUME NEW r \in Requests, stage'[r] \in Open, session'[r].venta
        PROVE  venta'[order'[r]]
    <3>1. ASSUME stage[r] \in Open, venta[order[r]] PROVE venta'[order[r]]
      <4>1. order[r] \in Orders /\ venta \in [Orders -> BOOLEAN]
        BY <3>1 DEF TypeOK
      <4>2. ASSUME NEW q \in Requests, Commit(q) PROVE venta'[order[r]]
        BY <3>1, <4>1, <4>2 DEF Commit
      <4>3. QED
        BY <3>1, <4>2, OnlyCommitWrites
    <3>2. stage[r] \in Open /\ session[r].venta => venta[order[r]]
      BY DEF StaleInv
    <3>3. QED
      BY <2>5, <3>1, <3>2, SessionSteps
  <2>6. QED
    BY <2>3, <2>4, <2>5 DEF StaleInv, StockNotUnderstated, LowStockAlerted
<1>3. QED
  BY <1>1, <1>2, TypeCorrect, PTL DEF Spec

\* The stored stock is never below what the deliveries left: a stale session
\* loses decrements and never adds any (_decrement_stock).
THEOREM StockKept == Spec => []StockNotUnderstated
<1>1. StockInv => StockNotUnderstated
  BY DEF StockInv
<1>2. QED
  BY <1>1, StockCorrect, PTL

\* A product at its minimum has an alert, whichever of the concurrent sessions
\* took it there and however stale it was (cruza_stock_minimo).
THEOREM LowStockNoticed == Spec => []LowStockAlerted
<1>1. StockInv => LowStockAlerted
  BY DEF StockInv
<1>2. QED
  BY <1>1, StockCorrect, PTL

\* A product whose tracked stock is stored as zero is not on offer.
THEOREM SoldOutHidden == Spec => []SoldOutIsHidden
<1>1. Init => SoldOutIsHidden
  BY DEF Init, SoldOutIsHidden
<1>2. TypeOK /\ SoldOutIsHidden /\ [Next]_vars => SoldOutIsHidden'
  <2> SUFFICES ASSUME TypeOK, SoldOutIsHidden, [Next]_vars PROVE SoldOutIsHidden'
    OBVIOUS
  <2>1. ASSUME NEW q \in Requests, Commit(q) PROVE SoldOutIsHidden'
    <3>1. \A p \in Products : /\ stock'[p] = IF Dirty(q, p) THEN View(q, p) ELSE stock[p]
                              /\ disponible'[p] = (disponible[p] /\ ~SoldOut(q, p))
      BY <2>1 DEF Commit
    <3>2. QED
      BY <3>1 DEF SoldOutIsHidden, SoldOut
  <2>2. CASE UNCHANGED stockRows
    BY <2>2 DEF stockRows, SoldOutIsHidden
  <2>3. QED
    BY <2>1, <2>2, OnlyCommitWrites
<1>3. QED
  BY <1>1, <1>2, TypeCorrect, PTL DEF Spec

-----------------------------------------------------------------------------
(* Sales.                                                                  *)

\* A delivered order has been sold, and its venta_id says so: the session that
\* creates no sale is one that saw venta_id, and StaleInv says it is there.
THEOREM DeliveredSold == Spec => []DeliveredIsSold
<1>1. Init => DeliveredIsSold
  BY DEF Init, DeliveredIsSold
<1>2. TypeOK /\ StockInv /\ DeliveredIsSold /\ [Next]_vars => DeliveredIsSold'
  <2> SUFFICES ASSUME TypeOK, StockInv, DeliveredIsSold, [Next]_vars PROVE DeliveredIsSold'
    OBVIOUS
  <2>1. /\ estado \in [Orders -> Estados \cup {"AUSENTE"}] /\ venta \in [Orders -> BOOLEAN]
        /\ sales \in [Orders -> Nat]
    BY DEF TypeOK
  <2>2. ASSUME NEW q \in Requests, Commit(q) PROVE DeliveredIsSold'
    <3>1. order[q] \in Orders
      BY <2>2 DEF Commit, TypeOK, Open
    <3>2. Delivers(q) /\ ~Sells(q) => venta[order[q]]
      BY <2>2 DEF Commit, Sells, StockInv, StaleInv, Open
    <3>3. \A o \in Orders :
            /\ o # order[q] => /\ estado'[o] = estado[o] /\ venta'[o] = venta[o]
                               /\ sales'[o] = sales[o]
            /\ o = order[q] => /\ venta'[o] = (venta[o] \/ Sells(q))
                               /\ sales'[o] = IF Sells(q) THEN sales[o] + 1 ELSE sales[o]
                               /\ estado'[o] = "ENTREGADO" => estado[o] = "ENTREGADO" \/ Delivers(q)
      BY <2>1, <2>2, <3>1 DEF Commit, Delivers
    <3>4. \A o \in Orders : /\ estado[o] = "ENTREGADO" => sales[o] > 0
                            /\ venta[o] <=> sales[o] > 0
      BY DEF DeliveredIsSold
    <3>5. CASE Sells(q)
      <4>1. \A o \in Orders \ {order[q]} :
              estado'[o] = estado[o] /\ venta'[o] = venta[o] /\ sales'[o] = sales[o]
        BY <3>3
      <4>2. venta'[order[q]] /\ sales'[order[q]] = sales[order[q]] + 1
        BY <3>1, <3>3, <3>5
      <4>3. sales'[order[q]] > 0
        BY <2>1, <3>1, <4>2
      <4>4. QED
        BY <3>4, <4>1, <4>2, <4>3 DEF DeliveredIsSold
    <3>6. CASE ~Sells(q)
      <4>1. \A o \in Orders : (venta'[o] <=> venta[o]) /\ sales'[o] = sales[o]
        BY <2>1, <3>3, <3>6
      <4>2. \A o \in Orders : estado'[o] = "ENTREGADO" => estado[o] = "ENTREGADO" \/ venta[o]
        BY <3>2, <3>3, <3>6
      <4>3. QED
        BY <3>4, <4>1, <4>2 DEF DeliveredIsSold
    <3>7. QED
      BY <3>5, <3>6
  <2>3. ASSUME UNCHANGED venta, UNCHANGED history,
               UNCHANGED estado \/ \E o \in Orders : estado' = [estado EXCEPT ![o] = "PENDIENTE"]
        PROVE  DeliveredIsSold'
    BY <2>1, <2>3 DEF DeliveredIsSold, history
  <2>4. QED
    BY <2>2, <2>3, OnlyCommitWrites
<1>3. QED
  BY <1>1, <1>2, TypeCorrect, StockCorrect, PTL DEF Spec

-----------------------------------------------------------------------------
(* Supplies: read for the first time under their lock.                     *)

Holding == {"lead", "answer", "answered"}

\* A request that goes on past the supplies owned none of them against another.
LEMMA SuppliesFree ==
  ASSUME NEW q \in Requests, stage[q] = "supplies", Blockers(q) = {},
         NEW s \in SuppliesOf(order[q])
  PROVE  owner[s] \in {q, Nobody}
BY DEF Blockers

\* SupplyInv carries over a step that leaves the supplies alone, as long as
\* every request that holds supplies after it held them before.
LEMMA SupplyFrame ==
  ASSUME SupplyInv, UNCHANGED supply,
         \A r \in Requests : stage'[r] \in Holding /\ target'[r] = "ENTREGADO" =>
            /\ stage[r] \in Holding /\ target[r] = "ENTREGADO" /\ order'[r] = order[r]
            /\ session'[r].supply = session[r].supply
            /\ \A s \in Supplies : owner[s] = r => owner'[s] = r,
         \A r \in Requests : stage[r] \in Holding => order[r] \in Orders
  PROVE  SupplyInv'
<1>1. \A o \in Orders : SuppliesOf(o) \subseteq Supplies
  BY DataAssumption, ItemsFacts DEF SuppliesOf
<1>2. QED
  BY <1>1 DEF SupplyInv, Holding, Delivers, SuppliesOf

\* SupplyInv is inductive: whoever has read a supply holds its lock until the
\* commit, so nobody else writes it in between.
THEOREM SupplyCorrect == Spec => []SupplyInv
<1> USE DEF Holding
<1>1. Init => SupplyInv
  BY DEF Init, SupplyInv
<1>2. TypeOK /\ SupplyInv /\ [Next]_vars => SupplyInv'
  <2> SUFFICES ASSUME TypeOK, SupplyInv, [Next]_vars PROVE SupplyInv'
    OBVIOUS
  <2>1. /\ stage \in [Requests -> Open \cup {"idle", "done"}]
        /\ session \in [Requests -> Session]
        /\ order \in [Requests -> Orders \cup {Nobody}] /\ target \in [Requests -> Targets]
        /\ owner \in [Rows -> Requests \cup {Nobody}]
        /\ \A r \in Requests : stage[r] \in Open => order[r] \in Orders
        /\ \A r \in Requests : stage[r] \in Holding => order[r] \in Orders
    BY DEF TypeOK, Open
  <2>2. \A o \in Orders : SuppliesOf(o) \subseteq Supplies
    BY DataAssumption, ItemsFacts DEF SuppliesOf
  <2>3. \A s \in Supplies : s \in Rows /\ s \notin Orders /\ s \notin Products /\ s \notin Leads
    BY RowsAssumption DEF Rows
  <2>4. ASSUME NEW q \in Requests, NEW a \in {"ok", "error"}, Close(q, a)
        PROVE  \A r \in Requests : stage'[r] \in Holding =>
                 /\ r # q /\ stage[r] = stage'[r] /\ order'[r] = order[r] /\ target'[r] = target[r]
                 /\ session'[r] = session[r]
                 /\ \A s \in Supplies : owner[s] = r => owner'[s] = r
    BY <2>1, <2>3, <2>4 DEF Close
  <2>5. ASSUME NEW q \in Requests, NEW a \in {"ok", "error"}, Rollback(q, a) PROVE SupplyInv'
    BY <2>1, <2>4, <2>5, SupplyFrame DEF Rollback, stockRows
  <2>6. ASSUME NEW o \in Orders, Create(o) PROVE SupplyInv'
    BY <2>1, <2>6, SupplyFrame DEF Create, stockRows, request, locks
  <2>7. ASSUME NEW q \in Requests, NEW o \in Orders, ReadOrder(q, o)
        PROVE  SupplyInv'
    BY <2>1, <2>7, SupplyFrame DEF ReadOrder, stockRows, locks
  <2>8. ASSUME NEW q \in Requests, NEW t \in Targets, ReadRelated(q, t), Allowed(session[q].estado, t)
        PROVE  SupplyInv'
    BY <2>1, <2>8, SupplyFrame DEF ReadRelated, stockRows, locks, request
  <2>9. ASSUME NEW q \in Requests, WriteEstado(q) PROVE SupplyInv'
    <3>1. \A s \in Supplies : owner'[s] = owner[s]
      BY <2>1, <2>3, <2>9 DEF WriteEstado, Open
    <3>2. QED
      BY <2>1, <2>9, <3>1, SupplyFrame DEF WriteEstado, stockRows, request
  <2>10. ASSUME NEW q \in Requests, Sell(q) PROVE SupplyInv'
    BY <2>1, <2>10, SupplyFrame DEF Sell, AfterItem, stockRows, request
  <2>11. ASSUME NEW q \in Requests, TakeStock(q) PROVE SupplyInv'
    <3>1. Current(q) \in Products
      BY <2>11, ItemsFacts DEF TakeStock, Current, TypeOK, Open
    <3>2. \A s \in Supplies : owner'[s] = owner[s]
      BY <2>1, <2>3, <2>11, <3>1 DEF TakeStock
    <3>3. QED
      BY <2>1, <2>11, <3>2, SupplyFrame DEF TakeStock, AfterItem, stockRows, request
  <2>12. ASSUME NEW q \in Requests, TakeSupplies(q) PROVE SupplyInv'
    <3>1. /\ stage[q] = "supplies" /\ UNCHANGED <<supply, order, target>>
          /\ \A r \in Requests \ {q} : stage'[r] = stage[r] /\ session'[r] = session[r]
          /\ session'[q].supply = supply
      BY <2>1, <2>12 DEF TakeSupplies, stockRows, request, Session
    <3>2. /\ order[q] \in Orders
          /\ \A s \in SuppliesOf(order[q]) : owner'[s] = q /\ owner[s] \in {q, Nobody}
      BY <2>1, <2>2, <2>3, <2>12, SuppliesFree DEF TakeSupplies, Open
    <3>3. \A s \in Supplies : s \notin SuppliesOf(order[q]) => owner'[s] = owner[s]
      BY <2>3, <2>12 DEF TakeSupplies
    <3>4. ASSUME NEW r \in Requests, target[r] = "ENTREGADO", stage'[r] \in Holding,
                 NEW s \in SuppliesOf(order[r])
          PROVE  owner'[s] = r /\ session'[r].supply[s] = supply[s]
      <4>1. CASE r = q
        BY <3>1, <3>2, <4>1
      <4>2. CASE r # q
        <5>1. owner[s] = r /\ session[r].supply[s] = supply[s]
          BY <3>1, <3>4, <4>2 DEF SupplyInv, Delivers
        <5>2. s \in Supplies
          BY <2>1, <2>2, <3>1, <3>4, <4>2
        <5>3. s \notin SuppliesOf(order[q])
          BY <3>2, <4>2, <5>1, RowsAssumption
        <5>4. QED
          BY <3>1, <3>3, <4>2, <5>1, <5>2, <5>3
      <4>3. QED
        BY <4>1, <4>2
    <3>5. QED
      BY <3>1, <3>4 DEF SupplyInv, Delivers, SuppliesOf
  <2>13. ASSUME NEW q \in Requests, UpdateLead(q) PROVE SupplyInv'
    <3>1. \A s \in Supplies : owner'[s] = owner[s]
      BY <2>3, <2>13 DEF UpdateLead, TypeOK
    <3>2. QED
      BY <2>1, <2>13, <3>1, SupplyFrame DEF UpdateLead, stockRows, request
  <2>14. ASSUME NEW q \in Requests, Answer(q) PROVE SupplyInv'
    BY <2>1, <2>14, SupplyFrame DEF Answer, stockRows, request, locks
  <2>15. ASSUME NEW q \in Requests, Commit(q) PROVE SupplyInv'
    <3>1. Close(q, "ok") /\ stage[q] = "answered"
      BY <2>15 DEF Commit
    <3>2. ASSUME NEW r \in Requests, target'[r] = "ENTREGADO", stage'[r] \in Holding,
                 NEW s \in SuppliesOf(order'[r])
          PROVE  owner'[s] = r /\ session'[r].supply[s] = supply'[s]
      <4>1. /\ r # q /\ stage[r] = stage'[r] /\ session'[r] = session[r]
            /\ order'[r] = order[r] /\ target'[r] = target[r]
        BY <2>4, <3>1, <3>2
      <4>2. owner[s] = r /\ session[r].supply[s] = supply[s]
        BY <3>1, <3>2, <4>1 DEF SupplyInv, Delivers
      <4>3. s \in Supplies
        BY <2>1, <2>2, <3>2, <4>1
      <4>4. ~(Delivers(q) /\ s \in SuppliesOf(order[q]))
        BY <3>1, <4>1, <4>2 DEF SupplyInv
      <4>5. supply'[s] = supply[s]
        BY <2>15, <4>3, <4>4 DEF Commit
      <4>6. owner'[s] = owner[s]
        BY <2>3, <3>1, <4>1, <4>2, <4>3 DEF Close
      <4>7. QED
        BY <4>1, <4>2, <4>5, <4>6
    <3>3. QED
      BY <3>1, <3>2 DEF SupplyInv, Delivers, SuppliesOf
  <2>16. CASE UNCHANGED vars
    BY <2>1, <2>16, SupplyFrame DEF vars, stockRows, request, locks
  <2>17. ASSUME NEW q \in Requests,
                \/ \E o \in Orders : NotFound(q, o)
                \/ \E t \in Targets : ReadRelated(q, t) /\ ~Allowed(session[q].estado, t)
                \/ DeadlockAbort(q) \/ NotSellable(q) \/ SupplyFailure(q) \/ Crash(q)
         PROVE  SupplyInv'
    <3>1. \E a \in {"ok", "error"} : Rollback(q, a)
      BY <2>17 DEF NotFound, ReadRelated, DeadlockAbort, NotSellable, SupplyFailure, Crash,
                   AbortAnswer
    <3>2. QED
      BY <2>5, <3>1
  <2>18. QED
    BY <2>6, <2>7, <2>8, <2>9, <2>10, <2>11, <2>12, <2>13, <2>14, <2>15, <2>16, <2>17
       DEF Next, Advance
<1>3. QED
  BY <1>1, <1>2, TypeCorrect, PTL DEF Spec

\* What a commit takes from a supply is what the order consumes, off the stored
\* value, whatever the other sessions do.
LEMMA CommitTakes ==
  ASSUME TypeOK, SupplyInv, NEW q \in Requests, Commit(q), NEW s \in Supplies
  PROVE  /\ order[q] \in Orders /\ Uses(order[q], s) \in Nat
         /\ Delivers(q) => supply'[s] = Minus(supply[s], Uses(order[q], s))
         /\ ~Delivers(q) => supply'[s] = supply[s]
         /\ used'[s] = IF Delivers(q) THEN used[s] + Uses(order[q], s) ELSE used[s]
<1>1. order[q] \in Orders /\ supply[s] \in Nat /\ used[s] \in Nat
  BY DEF Commit, TypeOK, Open
<1>2. Uses(order[q], s) \in Nat /\ (s \notin SuppliesOf(order[q]) => Uses(order[q], s) = 0)
  BY <1>1, UsesFacts
<1>3. Delivers(q) /\ s \in SuppliesOf(order[q]) => session[q].supply[s] = supply[s]
  BY DEF Commit, SupplyInv
<1>4. /\ supply'[s] = IF Delivers(q) /\ s \in SuppliesOf(order[q])
                      THEN Minus(session[q].supply[s], Uses(order[q], s)) ELSE supply[s]
      /\ used'[s] = IF Delivers(q) /\ s \in SuppliesOf(order[q])
                    THEN used[s] + Uses(order[q], s) ELSE used[s]
  BY DEF Commit
<1>5. Minus(supply[s], 0) = supply[s]
  BY <1>1 DEF Minus
<1>6. QED
  BY <1>1, <1>2, <1>3, <1>4, <1>5

\* No decrement of a supply is lost, and none is taken twice
\* (decrement_ingredients_for_comanda).
THEOREM SuppliesKept == Spec => []SuppliesExact
<1>1. Init => SuppliesExact
  BY DataAssumption DEF Init, SuppliesExact, Minus
<1>2. TypeOK /\ SupplyInv /\ SuppliesExact /\ [Next]_vars => SuppliesExact'
  <2> SUFFICES ASSUME TypeOK, SupplyInv, SuppliesExact, [Next]_vars PROVE SuppliesExact'
    OBVIOUS
  <2>1. ASSUME NEW q \in Requests, Commit(q), NEW s \in Supplies
        PROVE  supply'[s] = Minus(Supply0[s], used'[s])
    <3>1. /\ supply[s] = Minus(Supply0[s], used[s])
          /\ Supply0[s] \in Nat /\ used[s] \in Nat
      BY DataAssumption DEF SuppliesExact, TypeOK
    <3>2. QED
      <4> DEFINE u == Uses(order[q], s)
      <4>1. /\ u \in Nat
            /\ Delivers(q) => supply'[s] = Minus(supply[s], u) /\ used'[s] = used[s] + u
            /\ ~Delivers(q) => supply'[s] = supply[s] /\ used'[s] = used[s]
        BY <2>1, CommitTakes
      <4>2. Minus(Minus(Supply0[s], used[s]), u) = Minus(Supply0[s], used[s] + u)
        BY <3>1, <4>1 DEF Minus
      <4>3. QED
        BY <3>1, <4>1, <4>2
  <2>2. CASE UNCHANGED <<stockRows, history>>
    BY <2>2 DEF stockRows, history, SuppliesExact
  <2>3. QED
    BY <2>1, <2>2, OnlyCommitWrites DEF SuppliesExact
<1>3. QED
  BY <1>1, <1>2, TypeCorrect, SupplyCorrect, PTL DEF Spec

-----------------------------------------------------------------------------
(* A delivery is atomic.                                                   *)

\* Comandas implements DeliveryLedger: the commit of a delivery is the abstract
\* Deliver, another commit that writes a state is Move, and every other step of
\* a request, with its reads, locks, failures and aborts, is a stutter.
THEOREM DeliveryIsAtomic == Spec => ImplementsLedger
<1>1. Init => Ledger!Init
  <2> SUFFICES ASSUME Init PROVE Ledger!Init
    OBVIOUS
  <2>1. estado \in [Orders -> (Estados \cup {"AUSENTE"}) \ {"ENTREGADO"}]
    BY DEF Init, Estados
  <2>2. supply \in [Supplies -> Nat]
    BY DataAssumption DEF Init
  <2>3. QED
    BY <2>1, <2>2 DEF Init, Ledger!Init
<1>2. TypeOK /\ StockInv /\ SupplyInv /\ DeliveredIsSold /\ [Next]_vars
        => [Ledger!Next]_(Ledger!vars)
  <2> SUFFICES ASSUME TypeOK, StockInv, SupplyInv, DeliveredIsSold, [Next]_vars
               PROVE  [Ledger!Next]_(Ledger!vars)
    OBVIOUS
  <2>1. /\ estado \in [Orders -> Estados \cup {"AUSENTE"}] /\ venta \in [Orders -> BOOLEAN]
        /\ sales \in [Orders -> Nat] /\ supply \in [Supplies -> Nat]
    BY DEF TypeOK
  <2>2. ASSUME NEW q \in Requests, Commit(q), Delivers(q) PROVE Ledger!Deliver(order[q])
    <3>1. order[q] \in Orders /\ stage[q] = "answered" /\ target[q] = "ENTREGADO"
      BY <2>2 DEF Commit, Delivers, TypeOK, Open
    <3>2. estado' = [estado EXCEPT ![order[q]] = "ENTREGADO"]
      BY <2>2, <3>1 DEF Commit
    <3>3. ~Sells(q) => venta[order[q]] /\ sales[order[q]] > 0
      BY <2>2, <3>1 DEF Sells, StockInv, StaleInv, Open, DeliveredIsSold
    <3>4. venta' = [venta EXCEPT ![order[q]] = TRUE]
      <4>1. venta' = [venta EXCEPT ![order[q]] = venta[order[q]] \/ Sells(q)]
        BY <2>2 DEF Commit
      <4>2. (venta[order[q]] \/ Sells(q)) = TRUE
        BY <3>3
      <4>3. QED
        BY <4>1, <4>2
    <3>5. \/ sales' = [sales EXCEPT ![order[q]] = @ + 1]
          \/ sales[order[q]] > 0 /\ sales' = sales
      BY <2>1, <2>2, <3>1, <3>3 DEF Commit
    <3>6. supply' = [s \in Supplies |-> IF supply[s] > Uses(order[q], s)
                                        THEN supply[s] - Uses(order[q], s) ELSE 0]
      <4>1. \A s \in Supplies : supply'[s] = Minus(supply[s], Uses(order[q], s))
        BY <2>2, CommitTakes
      <4>2. supply' = [s \in Supplies |-> supply'[s]]
        BY <2>2 DEF Commit
      <4>3. QED
        BY <4>1, <4>2 DEF Minus
    <3>7. QED
      BY <3>2, <3>4, <3>5, <3>6 DEF Ledger!Deliver
  <2>3. ASSUME NEW q \in Requests, Commit(q), ~Delivers(q)
        PROVE  (\E e \in Estados : Ledger!Move(order[q], e)) \/ UNCHANGED Ledger!vars
    <3>1. order[q] \in Orders /\ target[q] \in Targets /\ target[q] # "ENTREGADO"
      BY <2>3 DEF Commit, Delivers, TypeOK, Open
    <3>2. UNCHANGED sales
      BY <2>1, <2>3, <3>1 DEF Commit, Sells
    <3>3. UNCHANGED venta
      BY <2>1, <2>3, <3>1 DEF Commit, Sells
    <3>4. UNCHANGED supply
      <4>1. \A s \in Supplies : supply'[s] = supply[s]
        BY <2>3, CommitTakes
      <4>2. supply' = [s \in Supplies |-> supply'[s]]
        BY <2>3 DEF Commit
      <4>3. QED
        BY <2>1, <4>1, <4>2
    <3>5. CASE target[q] = "BORRAR"
      <4>1. UNCHANGED estado
        BY <2>1, <2>3, <3>5 DEF Commit
      <4>2. QED
        BY <3>2, <3>3, <3>4, <4>1 DEF Ledger!vars
    <3>6. CASE target[q] # "BORRAR"
      <4>1. target[q] \in Estados
        BY <3>1, <3>6 DEF Targets
      <4>2. estado' = [estado EXCEPT ![order[q]] = target[q]]
        BY <2>3, <3>6 DEF Commit
      <4>3. QED
        BY <3>1, <3>2, <3>3, <3>4, <4>1, <4>2 DEF Ledger!Move
    <3>7. QED
      BY <3>5, <3>6
  <2>4. ASSUME UNCHANGED <<venta, stockRows, history>>,
               UNCHANGED estado \/ \E o \in Orders : estado' = [estado EXCEPT ![o] = "PENDIENTE"]
        PROVE  [Ledger!Next]_(Ledger!vars)
    <3>1. UNCHANGED <<venta, sales, supply>>
      BY <2>4 DEF stockRows, history
    <3>2. CASE UNCHANGED estado
      BY <3>1, <3>2 DEF Ledger!vars
    <3>3. ASSUME NEW o \in Orders, estado' = [estado EXCEPT ![o] = "PENDIENTE"]
          PROVE  Ledger!Next
      <4>1. Ledger!Move(o, "PENDIENTE")
        BY <3>1, <3>3 DEF Ledger!Move
      <4>2. QED
        BY <4>1 DEF Ledger!Next, Estados
    <3>4. QED
      BY <2>4, <3>2, <3>3
  <2>5. ASSUME NEW q \in Requests, Commit(q) PROVE [Ledger!Next]_(Ledger!vars)
    <3>1. order[q] \in Orders
      BY <2>5 DEF Commit, TypeOK, Open
    <3>2. QED
      BY <2>2, <2>3, <2>5, <3>1 DEF Ledger!Next
  <2>6. QED
    BY <2>4, <2>5, OnlyCommitWrites
<1>3. QED
  BY <1>1, <1>2, TypeCorrect, StockCorrect, SupplyCorrect, DeliveredSold, PTL
     DEF Spec, ImplementsLedger, Ledger!Spec
=============================================================================
