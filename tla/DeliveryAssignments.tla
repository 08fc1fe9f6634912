------------------------ MODULE DeliveryAssignments ------------------------
(***************************************************************************)
(* The delivery of an order by a driver: delivery_svc and its routes in    *)
(* api_execute, and the handler of canales_service that turns a "TOMO" in  *)
(* the drivers' WhatsApp group into a claim.                               *)
(*                                                                         *)
(* Every write is an UPDATE that takes the lock of its row and is visible  *)
(* when its transaction commits, so the model writes at the commit.  Each  *)
(* message of a driver is one handler with at most one claim request; the  *)
(* gateway repeats group messages freely, they are not deduplicated, so    *)
(* two messages may be one message twice.                                  *)
(***************************************************************************)
EXTENDS Integers, Sequences, FiniteSets

CONSTANTS
  Orders, Drivers,
  Tomos,      \* messages of drivers to the group
  DriverOf,   \* who wrote each of them
  Moves,      \* PATCH /delivery/{id}/estado requests that may run at once
  MaxMoves,   \* how many there are in all
  Bound,      \* TRUE when the database role is bound by row-level security
  MaxFaults,  \* crashes, errors and time-outs
  NoOne

ASSUME DeliveryAssumption ==
  /\ DriverOf \in [Tomos -> Drivers]
  /\ NoOne \notin Drivers \cup Tomos \cup Moves
  /\ Tomos \cap Moves = {}
  /\ Bound \in BOOLEAN /\ MaxMoves \in Nat /\ MaxFaults \in Nat

DeliveryEstado == {"PUBLICADO", "ACEPTADO", "EN_RUTA", "ENTREGADO", "CANCELADO"}

\* The targets that DeliveryEstadoUpdate lets through.
Targets == DeliveryEstado \ {"PUBLICADO"}

\* DeliveryEstado.valid_transitions
CanTransition(from, to) ==
  \/ from = "PUBLICADO" /\ to \in {"ACEPTADO", "CANCELADO"}
  \/ from = "ACEPTADO" /\ to \in {"EN_RUTA", "CANCELADO"}
  \/ from = "EN_RUTA" /\ to \in {"ENTREGADO", "CANCELADO"}

\* _DELIVERY_CUSTOMER_EVENTS
Events == {"EN_RUTA", "ENTREGADO"}

VARIABLES
  estado, driver,  \* delivery_assignments: estado, repartidor_phone
  onOrder,         \* comandas: repartidor_phone
  created,         \* the orders with an assignment, by created_at
  lock,            \* who has an uncommitted UPDATE of each assignment
  tomo,            \* handler of each message: stage and the order it looked up
  claim,           \* stage of its POST /delivery/claim
  move, moves,     \* PATCH estado requests: stage, order, target; how many so far
  faults,          \* how many crashes, errors and time-outs so far
  notices,         \* history: WhatsApp notices to the customer of each order
  raced            \* history: orders with two PATCH requests at once

rows == <<estado, driver, onOrder>>
vars == <<rows, created, lock, tomo, claim, move, moves, faults, notices, raced>>

Published(o) == o \in { created[i] : i \in DOMAIN created }

Init ==
  /\ estado = [o \in Orders |-> "PUBLICADO"] /\ driver = [o \in Orders |-> NoOne]
  /\ onOrder = [o \in Orders |-> NoOne]
  /\ created = <<>> /\ lock = [o \in Orders |-> NoOne]
  /\ tomo = [t \in Tomos |-> [at |-> "look", order |-> NoOne]]
  /\ claim = [t \in Tomos |-> "none"]
  /\ move = [v \in Moves |-> [at |-> "idle", order |-> NoOne, to |-> "ACEPTADO"]]
  /\ moves = 0 /\ faults = 0
  /\ notices = [o \in Orders |-> [e \in Events |-> 0]] /\ raced = {}

\* create_assignment, with the order of a delivery.
Publish(o) ==
  /\ ~Published(o)
  /\ created' = Append(created, o)
  /\ UNCHANGED <<rows, lock, tomo, claim, move, moves, faults, notices, raced>>

Fault == faults < MaxFaults /\ faults' = faults + 1

-----------------------------------------------------------------------------
(* _handle_group_message                                                   *)

Pending == { i \in DOMAIN created : estado[created[i]] = "PUBLICADO" }

\* The latest assignment in PUBLICADO is claimed.
LookUp(t) ==
  /\ tomo[t].at = "look"
  /\ \E last \in Pending :
       /\ \A i \in Pending : i <= last
       /\ tomo' = [tomo EXCEPT ![t] = [at |-> "wait", order |-> created[last]]]
  /\ claim' = [claim EXCEPT ![t] = "update"]
  /\ UNCHANGED <<rows, created, lock, move, moves, faults, notices, raced>>

\* "No hay pedidos delivery pendientes en este momento."
NonePending(t) ==
  /\ tomo[t].at = "look" /\ Pending = {}
  /\ tomo' = [tomo EXCEPT ![t].at = "none"]
  /\ UNCHANGED <<rows, created, lock, claim, move, moves, faults, notices, raced>>

\* "Pedido asignado a ..."
SayAssigned(t) ==
  /\ tomo[t].at = "wait" /\ claim[t] = "ok"
  /\ tomo' = [tomo EXCEPT ![t].at = "assigned"]
  /\ UNCHANGED <<rows, created, lock, claim, move, moves, faults, notices, raced>>

\* "Este pedido ya fue tomado por otro repartidor."
SayTaken(t) ==
  /\ tomo[t].at = "wait" /\ claim[t] = "conflict"
  /\ tomo' = [tomo EXCEPT ![t].at = "taken"]
  /\ UNCHANGED <<rows, created, lock, claim, move, moves, faults, notices, raced>>

\* An error answer, 15 s without one, or a message that cannot be sent: nobody
\* is told.
SayNothing(t) ==
  /\ tomo[t].at = "wait"
  /\ \/ claim[t] = "error" /\ UNCHANGED faults
     \/ claim[t] # "error" /\ Fault
  /\ tomo' = [tomo EXCEPT ![t].at = "silent"]
  /\ UNCHANGED <<rows, created, lock, claim, move, moves, notices, raced>>

-----------------------------------------------------------------------------
(* claim_delivery                                                          *)

\* Mutant: the state was read before the lock was waited for.
ClaimUpdate_Stale(t) ==
  /\ claim[t] = "update" /\ lock[tomo[t].order] = NoOne
  /\ lock' = [lock EXCEPT ![tomo[t].order] = t]
  /\ claim' = [claim EXCEPT ![t] = "commit"]
  /\ UNCHANGED <<rows, created, tomo, move, moves, faults, notices, raced>>

\* UPDATE ... WHERE estado = 'PUBLICADO', evaluated when the lock is had.
ClaimUpdate(t) ==
  /\ claim[t] = "update" /\ lock[tomo[t].order] = NoOne
  /\ estado[tomo[t].order] = "PUBLICADO"
  /\ lock' = [lock EXCEPT ![tomo[t].order] = t]
  /\ claim' = [claim EXCEPT ![t] = "commit"]
  /\ UNCHANGED <<rows, created, tomo, move, moves, faults, notices, raced>>

\* No row: 409.
ClaimConflict(t) ==
  /\ claim[t] = "update" /\ lock[tomo[t].order] = NoOne
  /\ estado[tomo[t].order] # "PUBLICADO"
  /\ claim' = [claim EXCEPT ![t] = "conflict"]
  /\ UNCHANGED <<rows, created, lock, tomo, move, moves, faults, notices, raced>>

\* The transaction ends.
Release(who) == lock' = [o \in Orders |-> IF lock[o] = who THEN NoOne ELSE lock[o]]

\* Mutant: the id of the sender is stored as it came, not as a phone.
ClaimCommit_RawId(t) ==
  /\ claim[t] = "commit"
  /\ LET o == tomo[t].order IN
       /\ estado' = [estado EXCEPT ![o] = "ACEPTADO"]
       /\ driver' = [driver EXCEPT ![o] = t] /\ onOrder' = [onOrder EXCEPT ![o] = t]
  /\ claim' = [claim EXCEPT ![t] = "ok"]
  /\ Release(t)
  /\ UNCHANGED <<created, tomo, move, moves, faults, notices, raced>>

ClaimCommit(t) ==
  /\ claim[t] = "commit"
  /\ LET o == tomo[t].order IN
       /\ estado' = [estado EXCEPT ![o] = "ACEPTADO"]
       /\ driver' = [driver EXCEPT ![o] = DriverOf[t]]
       /\ onOrder' = [onOrder EXCEPT ![o] = DriverOf[t]]
  /\ claim' = [claim EXCEPT ![t] = "ok"]
  /\ Release(t)
  /\ UNCHANGED <<created, tomo, move, moves, faults, notices, raced>>

\* An exception or a crash: rolled back.
ClaimFails(t) ==
  /\ claim[t] \in {"update", "commit"} /\ Fault
  /\ claim' = [claim EXCEPT ![t] = "error"]
  /\ Release(t)
  /\ UNCHANGED <<rows, created, tomo, move, moves, notices, raced>>

-----------------------------------------------------------------------------
(* update_delivery_estado                                                  *)

InFlight(o) == { v \in Moves : move[v].at \in {"write", "commit"} /\ move[v].order = o }

\* transition_delivery_estado reads the assignment, without a lock, and checks
\* the transition; an invalid one is answered with 422.
MoveRead(v, o, to) ==
  /\ move[v].at = "idle" /\ moves < MaxMoves /\ Published(o)
  /\ CanTransition(estado[o], to)
  /\ move' = [move EXCEPT ![v] = [at |-> "write", order |-> o, to |-> to]]
  /\ moves' = moves + 1
  /\ raced' = IF InFlight(o) # {} THEN raced \cup {o} ELSE raced
  /\ UNCHANGED <<rows, created, lock, tomo, claim, faults, notices>>

\* UPDATE ... WHERE id, whatever the state is by now.
MoveWrite(v) ==
  /\ move[v].at = "write" /\ lock[move[v].order] = NoOne
  /\ lock' = [lock EXCEPT ![move[v].order] = v]
  /\ move' = [move EXCEPT ![v].at = "commit"]
  /\ UNCHANGED <<rows, created, tomo, claim, moves, faults, notices, raced>>

\* The commit ends the tenant context, and with it get_comanda's view of the
\* order when the role is bound by row-level security.
MoveCommit(v) ==
  /\ move[v].at = "commit"
  /\ estado' = [estado EXCEPT ![move[v].order] = move[v].to]
  /\ move' = [move EXCEPT ![v].at = IF move[v].to \in Events /\ ~Bound THEN "notify" ELSE "idle"]
  /\ Release(v)
  /\ UNCHANGED <<driver, onOrder, created, tomo, claim, moves, faults, notices, raced>>

MoveFails(v) ==
  /\ move[v].at \in {"write", "commit"} /\ Fault
  /\ move' = [move EXCEPT ![v].at = "idle"]
  /\ Release(v)
  /\ UNCHANGED <<rows, created, tomo, claim, moves, notices, raced>>

\* notify_customer_state_change
Notify(v) ==
  /\ move[v].at = "notify"
  /\ notices' = [notices EXCEPT ![move[v].order][move[v].to] = @ + 1]
  /\ move' = [move EXCEPT ![v].at = "idle"]
  /\ UNCHANGED <<rows, created, lock, tomo, claim, moves, faults, raced>>

\* Mutant: a send that timed out is repeated.
NotifyFails_Repeats(v) ==
  /\ move[v].at = "notify" /\ Fault
  /\ notices' = [notices EXCEPT ![move[v].order][move[v].to] = @ + 1]
  /\ UNCHANGED <<rows, created, lock, tomo, claim, move, moves, raced>>

\* Its failures are logged and swallowed; the message may be out all the same.
NotifyFails(v) ==
  /\ move[v].at = "notify" /\ Fault
  /\ notices' \in {notices, [notices EXCEPT ![move[v].order][move[v].to] = @ + 1]}
  /\ move' = [move EXCEPT ![v].at = "idle"]
  /\ UNCHANGED <<rows, created, lock, tomo, claim, moves, raced>>

-----------------------------------------------------------------------------

Claim(t) == ClaimUpdate(t) \/ ClaimConflict(t) \/ ClaimCommit(t) \/ ClaimFails(t)

Answer(t) == LookUp(t) \/ NonePending(t) \/ SayAssigned(t) \/ SayTaken(t) \/ SayNothing(t)

MoveOn(v) == MoveWrite(v) \/ MoveCommit(v) \/ MoveFails(v) \/ Notify(v) \/ NotifyFails(v)

Next ==
  \/ \E o \in Orders : Publish(o)
  \/ \E t \in Tomos : Answer(t) \/ Claim(t)
  \/ \E v \in Moves : MoveOn(v) \/ \E o \in Orders, to \in Targets : MoveRead(v, o, to)

Spec == Init /\ [][Next]_vars

-----------------------------------------------------------------------------
(* Properties.                                                             *)

Handler == [at : {"look", "wait", "none", "assigned", "taken", "silent"},
            order : Orders \cup {NoOne}]
Patch == [at : {"idle", "write", "commit", "notify"}, order : Orders \cup {NoOne}, to : Targets]
Notices == [Events -> Nat]
ClaimStages == {"none", "update", "commit", "ok", "conflict", "error"}

TypeOK ==
  /\ estado \in [Orders -> DeliveryEstado]
  /\ driver \in [Orders -> Drivers \cup {NoOne}] /\ onOrder \in [Orders -> Drivers \cup {NoOne}]
  /\ created \in Seq(Orders) /\ lock \in [Orders -> Tomos \cup Moves \cup {NoOne}]
  /\ tomo \in [Tomos -> Handler]
  /\ claim \in [Tomos -> ClaimStages]
  /\ move \in [Moves -> Patch]
  /\ moves \in 0 .. MaxMoves /\ faults \in 0 .. MaxFaults
  /\ notices \in [Orders -> Notices] /\ raced \subseteq Orders

\* claim_delivery: the driver whose claim was answered with 200, and whom the
\* group is told, keeps the delivery, in the assignment and on the order,
\* whatever other drivers and the staff do at the same time, and no second
\* message gets it, from another driver or from the same one.
AcceptedClaimStands ==
  \A t \in Tomos : claim[t] = "ok" =>
    /\ driver[tomo[t].order] = DriverOf[t] /\ onOrder[tomo[t].order] = DriverOf[t]
    /\ estado[tomo[t].order] # "PUBLICADO"
    /\ \A u \in Tomos : claim[u] = "ok" /\ tomo[u].order = tomo[t].order => u = t

\* The states follow valid_transitions as long as no two PATCH requests for one
\* delivery overlap; the claims of drivers may overlap with anything.
FollowsTransitions ==
  [][\A o \in Orders : estado'[o] # estado[o] /\ o \notin raced => CanTransition(estado[o], estado'[o])]_vars

\* And the customer is told of each event at most once, although a notice that
\* failed may be out all the same (notify_customer_state_change).
ToldOnce == \A o \in Orders \ raced : \A e \in Events : notices[o][e] <= 1

\* Without that restriction: a comment in the orders' route says that the
\* customer does not get two "entregado" messages.
DeliveredToldOnce == \A o \in Orders : notices[o]["ENTREGADO"] <= 1
=============================================================================
