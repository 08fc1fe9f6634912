---------------------- MODULE DeliveryAssignmentsProofs ----------------------
(***************************************************************************)
(* Theorems about DeliveryAssignments, for every set of orders, drivers,   *)
(* messages and requests and every number of faults.                       *)
(***************************************************************************)
EXTENDS DeliveryAssignments, TLAPS

-----------------------------------------------------------------------------
(* Type correctness.                                                       *)

\* The stage of a handler changes, or the stage of a PATCH request.
LEMMA HandlerStage ==
  ASSUME NEW h \in Handler, NEW a \in {"look", "wait", "none", "assigned", "taken", "silent"}
  PROVE  [h EXCEPT !.at = a] \in Handler
BY DEF Handler

LEMMA PatchStage ==
  ASSUME NEW p \in Patch, NEW a \in {"idle", "write", "commit", "notify"}
  PROVE  [p EXCEPT !.at = a] \in Patch
BY DEF Patch

\* One more notice.
LEMMA OneMoreNotice ==
  ASSUME NEW n \in Notices, NEW e
  PROVE  [n EXCEPT ![e] = @ + 1] \in Notices
<1>1. CASE e \in Events
  BY <1>1 DEF Notices
<1>2. CASE e \notin Events
  <2>1. [n EXCEPT ![e] = @ + 1] = n
    BY <1>2 DEF Notices
  <2>2. QED
    BY <2>1
<1>3. QED
  BY <1>1, <1>2

LEMMA OneMoreFault == ASSUME TypeOK, Fault PROVE faults' \in 0 .. MaxFaults
BY DeliveryAssumption DEF TypeOK, Fault

\* Every variable keeps its type: the assignments, the stages of the handlers
\* and requests, the locks and the counters.
THEOREM TypeCorrect == Spec => []TypeOK
<1> USE DEF TypeOK, ClaimStages
<1>1. Init => TypeOK
  BY DeliveryAssumption DEF Init, Handler, Patch, Notices, DeliveryEstado, Targets
<1>2. TypeOK /\ [Next]_vars => TypeOK'
  <2> SUFFICES ASSUME TypeOK, [Next]_vars PROVE TypeOK'
    OBVIOUS
  <2>1. ASSUME NEW o \in Orders, Publish(o) PROVE TypeOK'
    BY <2>1 DEF Publish, rows
  <2>2. ASSUME NEW t \in Tomos, LookUp(t) PROVE TypeOK'
    <3>1. PICK last \in Pending :
            tomo' = [tomo EXCEPT ![t] = [at |-> "wait", order |-> created[last]]]
      BY <2>2 DEF LookUp
    <3>2. created[last] \in Orders
      BY DEF Pending
    <3>3. QED
      BY <2>2, <3>1, <3>2 DEF LookUp, rows, Handler
  <2>3. ASSUME NEW t \in Tomos, NonePending(t) \/ SayAssigned(t) \/ SayTaken(t) PROVE TypeOK'
    <3>1. CASE NonePending(t)
      BY <3>1, HandlerStage DEF NonePending, rows
    <3>2. CASE SayAssigned(t)
      BY <3>2, HandlerStage DEF SayAssigned, rows
    <3>3. CASE SayTaken(t)
      BY <3>3, HandlerStage DEF SayTaken, rows
    <3>4. QED
      BY <2>3, <3>1, <3>2, <3>3
  <2>4. ASSUME NEW t \in Tomos, SayNothing(t) PROVE TypeOK'
    BY <2>4, HandlerStage, OneMoreFault DEF SayNothing, rows
  <2>5. ASSUME NEW t \in Tomos, ClaimUpdate(t) \/ ClaimConflict(t) PROVE TypeOK'
    BY <2>5 DEF ClaimUpdate, ClaimConflict, rows
  <2>6. ASSUME NEW t \in Tomos, ClaimCommit(t) PROVE TypeOK'
    BY <2>6, DeliveryAssumption DEF ClaimCommit, Release, DeliveryEstado
  <2>7. ASSUME NEW t \in Tomos, ClaimFails(t) PROVE TypeOK'
    BY <2>7, OneMoreFault DEF ClaimFails, Release, rows
  <2>8. ASSUME NEW v \in Moves, NEW o \in Orders, NEW to \in Targets, MoveRead(v, o, to)
        PROVE  TypeOK'
    BY <2>8, DeliveryAssumption DEF MoveRead, rows, Patch
  <2>9. ASSUME NEW v \in Moves, MoveWrite(v) PROVE TypeOK'
    BY <2>9, PatchStage DEF MoveWrite, rows
  <2>10. ASSUME NEW v \in Moves, MoveCommit(v) PROVE TypeOK'
    BY <2>10, PatchStage DEF MoveCommit, Release, Patch, Targets
  <2>11. ASSUME NEW v \in Moves, MoveFails(v) PROVE TypeOK'
    BY <2>11, PatchStage, OneMoreFault DEF MoveFails, Release, rows
  <2>12. ASSUME NEW v \in Moves, Notify(v) PROVE TypeOK'
    BY <2>12, PatchStage, OneMoreNotice DEF Notify, rows
  <2>13. ASSUME NEW v \in Moves, NotifyFails(v) PROVE TypeOK'
    <3>1. notices' \in [Orders -> Notices]
      <4>1. notices \in [Orders -> Notices]
        OBVIOUS
      <4>2. [notices EXCEPT ![move[v].order][move[v].to] = @ + 1] \in [Orders -> Notices]
        BY <4>1, OneMoreNotice
      <4>3. QED
        BY <2>13, <4>1, <4>2 DEF NotifyFails
    <3>2. /\ UNCHANGED <<rows, created, lock, tomo, claim, moves, raced>> /\ Fault
          /\ move' = [move EXCEPT ![v].at = "idle"]
      BY <2>13 DEF NotifyFails
    <3>3. QED
      BY <3>1, <3>2, PatchStage, OneMoreFault DEF rows
  <2>14. CASE UNCHANGED vars
    BY <2>14 DEF vars, rows
  <2>15. QED
    BY <2>1, <2>2, <2>3, <2>4, <2>5, <2>6, <2>7, <2>8, <2>9, <2>10, <2>11, <2>12, <2>13, <2>14
       DEF Next, Claim, Answer, MoveOn
<1>3. QED
  BY <1>1, <1>2, PTL DEF Spec

-----------------------------------------------------------------------------
(* The row lock, and the claim it protects.                                *)

\* A request that has updated a row holds its lock; the row a claim has
\* updated is still in PUBLICADO for everybody else; a claim concerns an order.
LockInv ==
  /\ \A t \in Tomos :
       /\ tomo[t].at = "look" => claim[t] = "none"
       /\ claim[t] = "commit" =>
            lock[tomo[t].order] = t /\ estado[tomo[t].order] = "PUBLICADO"
       /\ claim[t] # "none" => tomo[t].order \in Orders
  /\ \A v \in Moves :
       /\ move[v].at = "commit" => lock[move[v].order] = v
       /\ move[v].at # "idle" => move[v].order \in Orders

\* At most one PATCH request is under way for a delivery without overlap, and
\* what it will do is still allowed, or was done by a claim in the meantime.
Allowed(v) ==
  \/ CanTransition(estado[move[v].order], move[v].to)
  \/ estado[move[v].order] = "ACEPTADO" /\ move[v].to = "ACEPTADO"

MoveInv ==
  \A v \in Moves : move[v].at \in {"write", "commit"} /\ move[v].order \notin raced =>
    /\ Allowed(v)
    /\ \A u \in InFlight(move[v].order) : u = v

\* Where a delivery is once an event was, or is about to be, announced.
Past(e) == IF e = "EN_RUTA" THEN {"EN_RUTA", "ENTREGADO", "CANCELADO"} ELSE {"ENTREGADO"}

Announcing(v, o, e) == move[v].at = "notify" /\ move[v].order = o /\ move[v].to = e

NoticeInv ==
  \A o \in Orders \ raced : \A e \in Events :
    /\ notices[o][e] <= 1
    /\ notices[o][e] = 1 => estado[o] \in Past(e)
    /\ \A v \in Moves : Announcing(v, o, e) =>
         /\ notices[o][e] = 0 /\ estado[o] \in Past(e)
         /\ \A u \in Moves : Announcing(u, o, e) => u = v

\* LockInv is inductive: the lock of a row is what separates a claim from the
\* moves of the staff.
THEOREM LockCorrect == Spec => []LockInv
<1> USE DeliveryAssumption DEF LockInv
<1>1. Init => LockInv
  BY DEF Init
<1>2. TypeOK /\ LockInv /\ [Next]_vars => LockInv'
  <2> SUFFICES ASSUME TypeOK, LockInv, [Next]_vars PROVE LockInv'
    OBVIOUS
  <2> USE DEF TypeOK, Handler, Patch
  <2>1. ASSUME NEW o \in Orders, Publish(o) PROVE LockInv'
    BY <2>1 DEF Publish, rows
  <2>2. ASSUME NEW t \in Tomos, LookUp(t) PROVE LockInv'
    <3>1. PICK last \in Pending :
            tomo' = [tomo EXCEPT ![t] = [at |-> "wait", order |-> created[last]]]
      BY <2>2 DEF LookUp
    <3>2. created[last] \in Orders
      BY DEF Pending
    <3>3. QED
      BY <2>2, <3>1, <3>2 DEF LookUp, rows
  <2>3. ASSUME NEW t \in Tomos, NonePending(t) \/ SayAssigned(t) \/ SayTaken(t) \/ SayNothing(t)
        PROVE  LockInv'
    <3>1. /\ UNCHANGED <<rows, lock, claim, move>>
          /\ tomo[t].at \in {"look", "wait"}
          /\ \E a \in {"none", "assigned", "taken", "silent"} :
               tomo' = [tomo EXCEPT ![t].at = a]
      BY <2>3 DEF NonePending, SayAssigned, SayTaken, SayNothing
    <3>2. \A u \in Tomos : tomo'[u].order = tomo[u].order
      BY <3>1
    <3>3. \A u \in Tomos : tomo'[u].at = "look" => tomo[u].at = "look"
      BY <3>1
    <3>4. QED
      BY <3>1, <3>2, <3>3 DEF rows
  <2>4. ASSUME NEW t \in Tomos, ClaimUpdate(t) \/ ClaimConflict(t) PROVE LockInv'
    BY <2>4 DEF ClaimUpdate, ClaimConflict, rows
  <2>5. ASSUME NEW t \in Tomos, ClaimCommit(t) PROVE LockInv'
    BY <2>5 DEF ClaimCommit, Release
  <2>6. ASSUME NEW t \in Tomos, ClaimFails(t) PROVE LockInv'
    BY <2>6 DEF ClaimFails, Release, rows
  <2>7. ASSUME NEW v \in Moves, NEW o \in Orders, NEW to \in Targets, MoveRead(v, o, to)
        PROVE  LockInv'
    BY <2>7 DEF MoveRead, rows
  <2>8. ASSUME NEW v \in Moves, MoveWrite(v) PROVE LockInv'
    BY <2>8 DEF MoveWrite, rows
  <2>9. ASSUME NEW v \in Moves, MoveCommit(v) PROVE LockInv'
    BY <2>9 DEF MoveCommit, Release
  <2>10. ASSUME NEW v \in Moves, MoveFails(v) PROVE LockInv'
    BY <2>10 DEF MoveFails, Release, rows
  <2>11. ASSUME NEW v \in Moves, Notify(v) \/ NotifyFails(v) PROVE LockInv'
    BY <2>11 DEF Notify, NotifyFails, rows
  <2>12. CASE UNCHANGED vars
    BY <2>12 DEF vars, rows
  <2>13. QED
    BY <2>1, <2>2, <2>3, <2>4, <2>5, <2>6, <2>7, <2>8, <2>9, <2>10, <2>11, <2>12
       DEF Next, Claim, Answer, MoveOn
<1>3. QED
  BY <1>1, <1>2, TypeCorrect, PTL DEF Spec

\* A claim that was answered with 200 stands: the assignment and the order keep
\* its driver, and no second claim gets the delivery, for any number of
\* messages, requests of the staff and faults.
THEOREM ClaimStands == Spec => []AcceptedClaimStands
<1> USE DeliveryAssumption DEF AcceptedClaimStands
<1>1. Init => AcceptedClaimStands
  BY DEF Init
<1>2. TypeOK /\ LockInv /\ AcceptedClaimStands /\ [Next]_vars => AcceptedClaimStands'
  <2> SUFFICES ASSUME TypeOK, LockInv, AcceptedClaimStands, [Next]_vars
               PROVE  AcceptedClaimStands'
    OBVIOUS
  <2> USE DEF TypeOK, LockInv, Handler, Patch
  <2>1. ASSUME NEW o \in Orders, Publish(o) PROVE AcceptedClaimStands'
    BY <2>1 DEF Publish, rows
  <2>2. ASSUME NEW t \in Tomos, LookUp(t) PROVE AcceptedClaimStands'
    <3>1. \A u \in Tomos : claim'[u] = "ok" => claim[u] = "ok" /\ tomo'[u] = tomo[u]
      BY <2>2 DEF LookUp
    <3>2. QED
      BY <2>2, <3>1 DEF LookUp, rows
  <2>3. ASSUME NEW t \in Tomos, NonePending(t) \/ SayAssigned(t) \/ SayTaken(t) \/ SayNothing(t)
        PROVE  AcceptedClaimStands'
    BY <2>3 DEF NonePending, SayAssigned, SayTaken, SayNothing, rows
  <2>4. ASSUME NEW t \in Tomos, ClaimUpdate(t) \/ ClaimConflict(t) \/ ClaimFails(t)
        PROVE  AcceptedClaimStands'
    BY <2>4 DEF ClaimUpdate, ClaimConflict, ClaimFails, rows
  <2>5. ASSUME NEW t \in Tomos, ClaimCommit(t) PROVE AcceptedClaimStands'
    BY <2>5 DEF ClaimCommit
  <2>6. ASSUME NEW v \in Moves, NEW o \in Orders, NEW to \in Targets, MoveRead(v, o, to)
        PROVE  AcceptedClaimStands'
    BY <2>6 DEF MoveRead, rows
  <2>7. ASSUME NEW v \in Moves, MoveWrite(v) \/ MoveFails(v) \/ Notify(v) \/ NotifyFails(v)
        PROVE  AcceptedClaimStands'
    BY <2>7 DEF MoveWrite, MoveFails, Notify, NotifyFails, rows
  <2>8. ASSUME NEW v \in Moves, MoveCommit(v) PROVE AcceptedClaimStands'
    BY <2>8 DEF MoveCommit, Targets
  <2>9. CASE UNCHANGED vars
    BY <2>9 DEF vars, rows
  <2>10. QED
    BY <2>1, <2>2, <2>3, <2>4, <2>5, <2>6, <2>7, <2>8, <2>9
       DEF Next, Claim, Answer, MoveOn
<1>3. QED
  BY <1>1, <1>2, TypeCorrect, LockCorrect, PTL DEF Spec

-----------------------------------------------------------------------------
(* The transitions of the staff.                                           *)

\* MoveInv is inductive: without overlap, what a request has checked still
\* holds when it writes, although it holds no lock in between.
THEOREM MoveCorrect == Spec => []MoveInv
<1> USE DeliveryAssumption DEF MoveInv, Allowed, InFlight
<1>1. Init => MoveInv
  BY DEF Init
<1>2. TypeOK /\ LockInv /\ MoveInv /\ [Next]_vars => MoveInv'
  <2> SUFFICES ASSUME TypeOK, LockInv, MoveInv, [Next]_vars PROVE MoveInv'
    OBVIOUS
  <2> USE DEF TypeOK, LockInv, Handler, Patch
  <2>1. ASSUME NEW o \in Orders, Publish(o) PROVE MoveInv'
    BY <2>1 DEF Publish, rows
  <2>2. ASSUME NEW t \in Tomos, LookUp(t) \/ NonePending(t) \/ SayAssigned(t) \/ SayTaken(t)
                                  \/ SayNothing(t)
        PROVE  MoveInv'
    BY <2>2 DEF LookUp, NonePending, SayAssigned, SayTaken, SayNothing, rows
  <2>3. ASSUME NEW t \in Tomos, ClaimUpdate(t) \/ ClaimConflict(t) \/ ClaimFails(t)
        PROVE  MoveInv'
    BY <2>3 DEF ClaimUpdate, ClaimConflict, ClaimFails, rows
  <2>4. ASSUME NEW t \in Tomos, ClaimCommit(t) PROVE MoveInv'
    BY <2>4 DEF ClaimCommit, CanTransition
  <2>5. ASSUME NEW v \in Moves, NEW o \in Orders, NEW to \in Targets, MoveRead(v, o, to)
        PROVE  MoveInv'
    BY <2>5 DEF MoveRead, rows
  <2>6. ASSUME NEW v \in Moves, MoveWrite(v) PROVE MoveInv'
    BY <2>6 DEF MoveWrite, rows
  <2>7. ASSUME NEW v \in Moves, MoveFails(v) \/ Notify(v) \/ NotifyFails(v) PROVE MoveInv'
    <3>1. UNCHANGED <<rows, raced>> /\ move' = [move EXCEPT ![v].at = "idle"]
      BY <2>7 DEF MoveFails, Notify, NotifyFails
    <3>2. ASSUME NEW u \in Moves, move'[u].at \in {"write", "commit"} PROVE move'[u] = move[u]
      BY <3>1, <3>2
    <3>3. QED
      BY <3>1, <3>2 DEF rows
  <2>8. ASSUME NEW v \in Moves, MoveCommit(v) PROVE MoveInv'
    BY <2>8 DEF MoveCommit
  <2>9. CASE UNCHANGED vars
    BY <2>9 DEF vars, rows
  <2>10. QED
    BY <2>1, <2>2, <2>3, <2>4, <2>5, <2>6, <2>7, <2>8, <2>9
       DEF Next, Claim, Answer, MoveOn
<1>3. QED
  BY <1>1, <1>2, TypeCorrect, LockCorrect, PTL DEF Spec

\* What one step does to the states: a claim takes a published delivery, and
\* the staff move one that no second request has read.
Step ==
  \A o \in Orders : estado'[o] # estado[o] /\ o \notin raced => CanTransition(estado[o], estado'[o])

\* The states of a delivery follow valid_transitions as long as no two PATCH
\* requests for it overlap, however many drivers claim it meanwhile.
THEOREM TransitionsFollowed == Spec => FollowsTransitions
<1> USE DeliveryAssumption DEF Step
<1>1. TypeOK /\ LockInv /\ MoveInv /\ [Next]_vars => [Step]_vars
  <2> SUFFICES ASSUME TypeOK, LockInv, MoveInv, Next PROVE Step
    BY DEF vars
  <2> USE DEF TypeOK
  <2>1. ASSUME NEW t \in Tomos, ClaimCommit(t) PROVE Step
    BY <2>1 DEF ClaimCommit, LockInv, CanTransition
  <2>2. ASSUME NEW v \in Moves, MoveCommit(v) PROVE Step
    <3>1. estado' = [estado EXCEPT ![move[v].order] = move[v].to] /\ move[v].at = "commit"
      BY <2>2 DEF MoveCommit
    <3>2. move[v].order \notin raced => Allowed(v)
      BY <3>1 DEF MoveInv
    <3>3. QED
      BY <3>1, <3>2 DEF Allowed
  <2>3. ASSUME UNCHANGED estado PROVE Step
    BY <2>3
  <2>4. QED
    BY <2>1, <2>2, <2>3
       DEF Next, Publish, Answer, LookUp, NonePending, SayAssigned, SayTaken, SayNothing, Claim,
           ClaimUpdate, ClaimConflict, ClaimFails, MoveOn, MoveWrite, MoveFails, Notify,
           NotifyFails, MoveRead, rows
<1>2. [Step]_vars <=>
        [\A o \in Orders : estado'[o] # estado[o] /\ o \notin raced =>
           CanTransition(estado[o], estado'[o])]_vars
  OBVIOUS
<1>3. QED
  BY <1>1, <1>2, TypeCorrect, LockCorrect, MoveCorrect, PTL DEF Spec, FollowsTransitions

-----------------------------------------------------------------------------
(* The notices to the customer.                                            *)

\* NoticeInv is kept by a step that leaves the notices, the states and raced
\* alone and announces nothing new.
LEMMA NothingAnnounced ==
  ASSUME TypeOK, NoticeInv, UNCHANGED <<notices, estado, raced>>,
         \A v \in Moves : move'[v].at = "notify" => move'[v] = move[v]
  PROVE  NoticeInv'
BY DEF TypeOK, NoticeInv, Announcing, Past

\* A notice goes out or is lost: the event is announced no more.
LEMMA Announced ==
  ASSUME TypeOK, NoticeInv, NEW v \in Moves, move[v].at = "notify", move[v].order \in Orders,
         UNCHANGED <<estado, raced>>, move' = [move EXCEPT ![v].at = "idle"],
         notices' \in {notices, [notices EXCEPT ![move[v].order][move[v].to] = @ + 1]}
  PROVE  NoticeInv'
<1> USE DEF TypeOK, Patch, Notices
<1>1. ASSUME NEW u \in Moves, NEW o \in Orders, NEW e \in Events, Announcing(u, o, e)'
      PROVE  u # v /\ Announcing(u, o, e)
  BY <1>1 DEF Announcing
<1>2. ASSUME NEW o \in Orders \ raced, NEW e \in Events, o = move[v].order /\ e = move[v].to
      PROVE  notices[o][e] = 0 /\ estado[o] \in Past(e) /\ \A u \in Moves : ~Announcing(u, o, e)'
  BY <1>1, <1>2 DEF NoticeInv, Announcing
<1>3. ASSUME NEW o \in Orders \ raced, NEW e \in Events, ~(o = move[v].order /\ e = move[v].to)
      PROVE  notices'[o][e] = notices[o][e]
  BY <1>3
<1>4. ASSUME NEW o \in Orders \ raced, NEW e \in Events, o = move[v].order /\ e = move[v].to
      PROVE  notices'[o][e] \in {0, 1}
  BY <1>2, <1>4
<1>5. ASSUME NEW o \in Orders \ raced, NEW e \in Events
      PROVE  /\ notices'[o][e] <= 1
             /\ notices'[o][e] = 1 => estado'[o] \in Past(e)
             /\ \A u \in Moves : Announcing(u, o, e)' =>
                  /\ notices'[o][e] = 0 /\ estado'[o] \in Past(e)
                  /\ \A w \in Moves : Announcing(w, o, e)' => w = u
  <2>1. CASE o = move[v].order /\ e = move[v].to
    BY <2>1, <1>2, <1>4
  <2>2. CASE ~(o = move[v].order /\ e = move[v].to)
    BY <2>2, <1>1, <1>3 DEF NoticeInv
  <2>3. QED
    BY <2>1, <2>2
<1>6. QED
  BY <1>5 DEF NoticeInv, Past

\* NoticeInv is inductive: the commit that starts to announce an event is the
\* one that enters its state, and a delivery never returns to a state.
THEOREM NoticesCorrect == Spec => []NoticeInv
<1> USE DeliveryAssumption
<1>1. Init => NoticeInv
  BY DEF Init, NoticeInv, Announcing
<1>2. TypeOK /\ LockInv /\ MoveInv /\ NoticeInv /\ [Next]_vars => NoticeInv'
  <2> SUFFICES ASSUME TypeOK, LockInv, MoveInv, NoticeInv, [Next]_vars PROVE NoticeInv'
    OBVIOUS
  <2>1. ASSUME UNCHANGED <<estado, notices, raced, move>> PROVE NoticeInv'
    BY <2>1, NothingAnnounced
  <2>2. ASSUME NEW t \in Tomos, ClaimCommit(t) PROVE NoticeInv'
    <3>1. /\ UNCHANGED <<notices, raced, move>> /\ claim[t] = "commit"
          /\ estado' = [estado EXCEPT ![tomo[t].order] = "ACEPTADO"]
      BY <2>2 DEF ClaimCommit
    <3>2. ASSUME NEW o \in Orders, NEW e \in Events, estado[o] \in Past(e)
          PROVE  estado'[o] \in Past(e)
      BY <3>1, <3>2 DEF TypeOK, LockInv, Past
    <3>3. QED
      BY <3>1, <3>2 DEF NoticeInv, Announcing
  <2>3. ASSUME NEW v \in Moves, NEW o \in Orders, NEW to \in Targets, MoveRead(v, o, to)
        PROVE  NoticeInv'
    <3>1. /\ UNCHANGED <<notices, estado>> /\ raced \subseteq raced'
          /\ move' = [move EXCEPT ![v] = [at |-> "write", order |-> o, to |-> to]]
      BY <2>3 DEF MoveRead, rows
    <3>2. \A u \in Moves : move'[u].at = "notify" => move'[u] = move[u]
      BY <3>1 DEF TypeOK
    <3>3. QED
      BY <3>1, <3>2 DEF NoticeInv, Announcing, Past
  <2>4. ASSUME NEW v \in Moves, MoveWrite(v) PROVE NoticeInv'
    <3>1. \A u \in Moves : move'[u].at = "notify" => move'[u] = move[u]
      BY <2>4 DEF MoveWrite, TypeOK
    <3>2. QED
      BY <2>4, <3>1, NothingAnnounced DEF MoveWrite, rows
  <2>5. ASSUME NEW v \in Moves, MoveFails(v) PROVE NoticeInv'
    <3>1. \A u \in Moves : move'[u].at = "notify" => move'[u] = move[u]
      BY <2>5 DEF MoveFails, TypeOK
    <3>2. QED
      BY <2>5, <3>1, NothingAnnounced DEF MoveFails, rows
  <2>6. ASSUME NEW v \in Moves, MoveCommit(v) PROVE NoticeInv'
    <3> DEFINE p == move[v].order
    <3>1. /\ UNCHANGED <<notices, raced>> /\ p \in Orders /\ move[v].at = "commit"
          /\ estado' = [estado EXCEPT ![p] = move[v].to]
          /\ \E a \in {"notify", "idle"} : move' = [move EXCEPT ![v].at = a]
      BY <2>6 DEF MoveCommit, LockInv
    <3>2. ASSUME NEW o \in Orders \ {p}, NEW e \in Events, NEW u \in Moves, Announcing(u, o, e)'
          PROVE  Announcing(u, o, e)
      BY <3>1, <3>2 DEF Announcing, TypeOK
    <3>3. ASSUME p \notin raced, NEW e \in Events, estado[p] \in Past(e) PROVE estado'[p] \in Past(e)
      BY <3>1, <3>3 DEF TypeOK, Patch, MoveInv, Allowed, CanTransition, Past
    <3>4. ASSUME p \notin raced, NEW e \in Events, NEW u \in Moves, Announcing(u, p, e)', u = v
          PROVE  estado[p] \notin Past(e) /\ estado'[p] \in Past(e)
      <4>1. e = move[v].to /\ estado'[p] = e
        BY <3>1, <3>4 DEF TypeOK, Announcing
      <4>2. Allowed(v)
        BY <3>1, <3>4 DEF MoveInv
      <4>3. QED
        BY <4>1, <4>2 DEF Allowed, CanTransition, Past, Events
    <3>5. ASSUME NEW e \in Events, NEW u \in Moves, Announcing(u, p, e)', u # v
          PROVE  Announcing(u, p, e)
      BY <3>1, <3>5 DEF Announcing, TypeOK
    <3>6. ASSUME p \notin raced, NEW e \in Events
          PROVE  /\ notices'[p][e] <= 1
                 /\ notices'[p][e] = 1 => estado'[p] \in Past(e)
                 /\ \A u \in Moves : Announcing(u, p, e)' =>
                      /\ notices'[p][e] = 0 /\ estado'[p] \in Past(e)
                      /\ \A w \in Moves : Announcing(w, p, e)' => w = u
      <4>1. notices[p][e] \in {0, 1}
        BY <3>1, <3>6 DEF NoticeInv, TypeOK, Notices
      <4>2. notices[p][e] = 1 => estado[p] \in Past(e)
        BY <3>1, <3>6 DEF NoticeInv
      <4>3. ASSUME NEW u \in Moves, Announcing(u, p, e), u # v
            PROVE  /\ notices[p][e] = 0 /\ estado[p] \in Past(e)
                   /\ \A w \in Moves : Announcing(w, p, e) => w = u
        BY <3>1, <3>6, <4>3 DEF NoticeInv
      <4>4. ASSUME NEW u \in Moves, Announcing(u, p, e)'
            PROVE  notices[p][e] = 0 /\ estado'[p] \in Past(e)
        BY <3>3, <3>4, <3>5, <3>6, <4>1, <4>2, <4>3, <4>4
      <4>5. ASSUME NEW u \in Moves, Announcing(u, p, e)', NEW w \in Moves, Announcing(w, p, e)'
            PROVE  w = u
        BY <3>4, <3>5, <3>6, <4>3, <4>5
      <4>6. QED
        BY <3>1, <3>3, <3>6, <4>1, <4>2, <4>4, <4>5
    <3>7. ASSUME NEW o \in Orders \ raced, o # p, NEW e \in Events
          PROVE  /\ notices'[o][e] <= 1
                 /\ notices'[o][e] = 1 => estado'[o] \in Past(e)
                 /\ \A u \in Moves : Announcing(u, o, e)' =>
                      /\ notices'[o][e] = 0 /\ estado'[o] \in Past(e)
                      /\ \A w \in Moves : Announcing(w, o, e)' => w = u
      BY <3>1, <3>2, <3>7 DEF NoticeInv, TypeOK
    <3>8. QED
      BY <3>1, <3>6, <3>7 DEF NoticeInv, Past
  <2>7. ASSUME NEW v \in Moves, Notify(v) PROVE NoticeInv'
    BY <2>7, Announced DEF Notify, LockInv, rows
  <2>8. ASSUME NEW v \in Moves, NotifyFails(v) PROVE NoticeInv'
    BY <2>8, Announced DEF NotifyFails, LockInv, rows
  <2>9. QED
    BY <2>1, <2>2, <2>3, <2>4, <2>5, <2>6, <2>7, <2>8
       DEF Next, Publish, Answer, LookUp, NonePending, SayAssigned, SayTaken, SayNothing, Claim,
           ClaimUpdate, ClaimConflict, ClaimFails, MoveOn, rows, vars
<1>3. QED
  BY <1>1, <1>2, TypeCorrect, LockCorrect, MoveCorrect, PTL DEF Spec

\* The customer is told of each event at most once where no two PATCH requests
\* overlapped, whatever fails while a notice is sent.
THEOREM CustomerToldOnce == Spec => []ToldOnce
<1>1. NoticeInv => ToldOnce
  BY DEF NoticeInv, ToldOnce
<1>2. QED
  BY <1>1, NoticesCorrect, PTL
=============================================================================
