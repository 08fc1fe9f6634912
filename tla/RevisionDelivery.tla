-------------------------- MODULE RevisionDelivery --------------------------
(***************************************************************************)
(* The human review of one AI answer and its delivery to the lead.         *)
(*                                                                         *)
(* Two services share one row of table revision_humana:                    *)
(*   callback_manual  an operator approves, edits or rejects the answer;   *)
(*                    the first two call tasks over HTTP (10 s timeout);   *)
(*   tasks            delivers the answer by WhatsApp or e-mail inside one *)
(*                    database transaction, and retries failed ones.       *)
(*                                                                         *)
(* Every request is one process that runs once: a review request, a        *)
(* /send-response call made directly by a logged-in user, a /retry-failed  *)
(* call.  A review request also names the delivery it asks tasks for, so   *)
(* the two halves of one approval share an identity.                       *)
(*                                                                         *)
(* PostgreSQL is modelled at READ COMMITTED.  row is the committed row;    *)
(* holder is the tasks transaction that has updated it and not committed   *)
(* yet, and work is the delivery_status that transaction sees.  An UPDATE  *)
(* by anyone else waits for the holder, then looks at the new row.         *)
(***************************************************************************)
EXTENDS Naturals, FiniteSets

CONSTANTS
  Reviews,      \* review requests (aprobar, editar, rechazar), one operator each
  Directs,      \* /send-response calls that come from a user, not from a review
  Jobs,         \* /retry-failed calls
  Nobody,       \* SQL NULL in operador_id, and the holder of an unlocked row
  Faults,       \* the failures the environment may produce, see FaultKinds
  Roles         \* whether the database role is subject to row-level security: the
                \* cases to consider

FaultKinds ==
  { "timeout",    \* the 10 s of internal_http run out while the callee works on
    "stale",      \* a request outlives REVISION_CLAIM_TTL
    "crash",      \* a service process dies
    "evolution" } \* the WhatsApp gateway fails behind canales' HTTP 200

Deliveries == Reviews \cup Directs \cup Jobs

ASSUME RequestsAssumption ==
  /\ Reviews \cap Directs = {} /\ Reviews \cap Jobs = {} /\ Directs \cap Jobs = {}
  /\ Nobody \notin Deliveries
ASSUME FaultsAssumption == Faults \subseteq FaultKinds /\ Roles \subseteq BOOLEAN

Decisions == {"APROBAR", "EDITAR", "RECHAZAR"}
Statuses  == {"PENDING", "PROCESSING", "SENT", "FAILED", "SKIPPED"}
Channels  == {"WHATSAPP", "EMAIL"}

VARIABLES
  rowSecurity, \* a setting of the deployment
  row,        \* the committed row of revision_humana
  holder,     \* the tasks transaction that holds the row lock
  work,       \* delivery_status inside that transaction
  rpc,        \* stage of each review request
  decision,   \* what each review request was asked to do
  snap,       \* what each review request loaded of it
  dpc,        \* stage of each delivery in tasks
  reply,      \* the HTTP answer of each delivery
  delivered,  \* history: <<delivery, channel>> of the messages that reached the lead
  calm        \* history: nothing has failed but the lead's channels, and nobody has
              \* called /send-response directly

vars == <<rowSecurity, row, holder, work, rpc, decision, snap, dpc, reply, delivered, calm>>

-----------------------------------------------------------------------------
(* The row as the services read it.                                        *)

\* Mutants of Claimable: each drops one conjunct of the WHERE clause.
Claimable_AnyOwner(r)   == ~r.procesado /\ r.status \in {"PENDING", "FAILED"}
Claimable_Processed(r)  == (r.operador = Nobody \/ ~r.fresh) /\ r.status \in {"PENDING", "FAILED"}
Claimable_NoRetry(r)    == ~r.procesado /\ (r.operador = Nobody \/ ~r.fresh) /\ r.status = "PENDING"

\* _try_claim_update: the WHERE clause of the operator's claim.  fresh says
\* that updated_at is younger than REVISION_CLAIM_TTL.
Claimable(r) ==
  /\ ~r.procesado
  /\ r.operador = Nobody \/ ~r.fresh
  /\ r.status \in {"PENDING", "FAILED"}

\* Mutant: a rejected review can be delivered.
Deliverable_Skipped(status) == status \notin {"PROCESSING", "SENT"}

\* _try_claim_delivery_update: the WHERE clause of the delivery claim.
Deliverable(status) == status \notin {"PROCESSING", "SENT", "SKIPPED"}

\* retry_failed_deliveries: the WHERE clause of the scan.
Retryable(r) == r.status = "FAILED" /\ r.procesado

\* A flush writes the attributes that differ from what was loaded, no others.
OrmWrite(loaded, stored, new) == IF loaded = new THEN stored ELSE new

Unlocked == holder = Nobody

\* A tasks transaction is open, with the row updated, at these stages.
InTransaction == {"claimed", "whatsapp", "email", "decided", "answered"}

\* A review request owns, or believes it owns, the review at these stages.
Reviewing == {"claimed", "rejecting", "waiting", "ok", "conflict", "failed"}

Busy(h) == rpc[h] \in Reviewing \/ dpc[h] \in InTransaction \cup {"queued"}

-----------------------------------------------------------------------------
Row == [ operador  : Reviews \cup {Nobody},
         procesado : BOOLEAN,
         accion    : Decisions \cup {"none"},
         editada   : BOOLEAN,
         status    : Statuses,
         fresh     : BOOLEAN ]

\* create_revision: a new review with the model's column defaults.
NewRow == [ operador |-> Nobody, procesado |-> FALSE, accion |-> "none",
            editada |-> FALSE, status |-> "PENDING", fresh |-> TRUE ]

\* The attributes of the loaded ORM object that later decide what is written.
Snapshot == [ operador : Reviews \cup {Nobody}, procesado : BOOLEAN, status : Statuses ]

Loaded(r) == [ operador |-> r.operador, procesado |-> r.procesado, status |-> r.status ]

TypeOK ==
  /\ rowSecurity \in Roles
  /\ row \in Row
  /\ holder \in Deliveries \cup {Nobody}
  /\ work \in Statuses
  /\ rpc \in [Reviews -> Reviewing \cup {"idle", "done"}]
  /\ decision \in [Reviews -> Decisions \cup {"none"}]
  /\ snap \in [Reviews -> Snapshot]
  /\ dpc \in [Deliveries -> InTransaction \cup {"none", "queued", "scanned", "done"}]
  /\ reply \in [Deliveries -> {"none", "success", "failure", "conflict"}]
  /\ delivered \subseteq Deliveries \X Channels
  /\ calm \in BOOLEAN

Init ==
  /\ rowSecurity \in Roles
  /\ row = NewRow
  /\ holder = Nobody
  /\ work = "PENDING"
  /\ rpc = [h \in Reviews |-> "idle"]
  /\ decision = [h \in Reviews |-> "none"]
  /\ snap = [h \in Reviews |-> Loaded(NewRow)]
  /\ dpc = [d \in Deliveries |-> "none"]
  /\ reply = [d \in Deliveries |-> "none"]
  /\ delivered = {}
  /\ calm = TRUE

-----------------------------------------------------------------------------
(* callback_manual: aprobar, editar and rechazar.                          *)

\* The claim is an UPDATE ... RETURNING that is committed on its own.
Claim(h, a) ==
  /\ rpc[h] = "idle"
  /\ Unlocked
  /\ Claimable(row)
  /\ row' = [row EXCEPT !.operador = h, !.fresh = TRUE]
  /\ rpc' = [rpc EXCEPT ![h] = "claimed"]
  /\ decision' = [decision EXCEPT ![h] = a]
  /\ UNCHANGED <<rowSecurity, holder, work, snap, dpc, reply, delivered, calm>>

\* No row matched: _diagnose_claim_failure and HTTP 409.  A row that does not
\* match is not waited for, whoever has it locked.
ClaimRefused(h) ==
  /\ rpc[h] = "idle"
  /\ ~Claimable(row)
  /\ rpc' = [rpc EXCEPT ![h] = "done"]
  /\ UNCHANGED <<rowSecurity, row, holder, work, decision, snap, dpc, reply, delivered, calm>>

\* _get_revision in a new transaction; aprobar and editar then post to tasks.
Load(h) ==
  /\ rpc[h] = "claimed"
  /\ ~rowSecurity
  /\ snap' = [snap EXCEPT ![h] = Loaded(row)]
  /\ IF decision[h] = "RECHAZAR"
     THEN rpc' = [rpc EXCEPT ![h] = "rejecting"] /\ UNCHANGED dpc
     ELSE rpc' = [rpc EXCEPT ![h] = "waiting"] /\ dpc' = [dpc EXCEPT ![h] = "queued"]
  /\ UNCHANGED <<rowSecurity, row, holder, work, decision, reply, delivered, calm>>

\* The tenant of the session was SET LOCAL and ended with the claim's commit:
\* under row-level security the new transaction sees no row (NotFoundError).
LoadNothing(h) ==
  /\ rpc[h] = "claimed"
  /\ rowSecurity
  /\ rpc' = [rpc EXCEPT ![h] = "done"]
  /\ UNCHANGED <<rowSecurity, row, holder, work, decision, snap, dpc, reply, delivered, calm>>

\* _notify_tasks: every connection attempt is refused, the post never arrives.
Unreachable(h) ==
  /\ rpc[h] = "waiting"
  /\ dpc[h] = "queued"
  /\ rpc' = [rpc EXCEPT ![h] = "failed"]
  /\ dpc' = [dpc EXCEPT ![h] = "done"]
  /\ UNCHANGED <<rowSecurity, row, holder, work, decision, snap, reply, delivered, calm>>

\* _notify_tasks gives up; tasks is not told and carries on.
NotifyTimeout(h) ==
  /\ "timeout" \in Faults
  /\ rpc[h] = "waiting"
  /\ rpc' = [rpc EXCEPT ![h] = "failed"]
  /\ calm' = FALSE
  /\ UNCHANGED <<rowSecurity, row, holder, work, decision, snap, dpc, reply, delivered>>

\* Mutant: the flag success of the answer is not looked at.
GetReply_AnyOk(h) ==
  /\ rpc[h] = "waiting"
  /\ reply[h] # "none"
  /\ rpc' = [rpc EXCEPT ![h] = IF reply[h] = "conflict" THEN "conflict" ELSE "ok"]
  /\ UNCHANGED <<rowSecurity, row, holder, work, decision, snap, dpc, reply, delivered, calm>>

\* _notify_tasks: 409 is a ConflictError, every other failure a RuntimeError.
GetReply(h) ==
  /\ rpc[h] = "waiting"
  /\ reply[h] # "none"
  /\ rpc' = [rpc EXCEPT ![h] = CASE reply[h] = "success"  -> "ok"
                                 [] reply[h] = "conflict" -> "conflict"
                                 [] OTHER                 -> "failed"]
  /\ UNCHANGED <<rowSecurity, row, holder, work, decision, snap, dpc, reply, delivered, calm>>

\* aprobar, editar: the outcome, written when tasks reported success.
FinishDelivered(h) ==
  /\ rpc[h] = "ok"
  /\ Unlocked
  /\ row' = [row EXCEPT !.accion = decision[h],
                        !.editada = @ \/ decision[h] = "EDITAR",
                        !.operador = OrmWrite(snap[h].operador, @, h),
                        !.procesado = TRUE,
                        !.fresh = TRUE]
  /\ rpc' = [rpc EXCEPT ![h] = "done"]
  /\ UNCHANGED <<rowSecurity, holder, work, decision, snap, dpc, reply, delivered, calm>>

\* rechazar: by primary key, whatever delivery_status has become meanwhile.
FinishRejected(h) ==
  /\ rpc[h] = "rejecting"
  /\ Unlocked
  /\ row' = [row EXCEPT !.accion = "RECHAZAR",
                        !.operador = OrmWrite(snap[h].operador, @, h),
                        !.procesado = TRUE,
                        !.status = OrmWrite(snap[h].status, @, "SKIPPED"),
                        !.fresh = TRUE]
  /\ rpc' = [rpc EXCEPT ![h] = "done"]
  /\ UNCHANGED <<rowSecurity, holder, work, decision, snap, dpc, reply, delivered, calm>>

\* _release_revision_claim, after a 409 from tasks.
Release(h) ==
  /\ rpc[h] = "conflict"
  /\ \/ snap[h].procesado /\ UNCHANGED row
     \/ /\ ~snap[h].procesado
        /\ Unlocked
        /\ row' = [row EXCEPT !.operador = OrmWrite(snap[h].operador, @, Nobody),
                              !.fresh = TRUE]
  /\ rpc' = [rpc EXCEPT ![h] = "done"]
  /\ UNCHANGED <<rowSecurity, holder, work, decision, snap, dpc, reply, delivered, calm>>

\* Mutant: a status outside the enum is stored.
RecordFailure_BadStatus(h) ==
  /\ rpc[h] = "failed"
  /\ Unlocked
  /\ row' = [row EXCEPT !.operador = Nobody, !.status = "ERROR", !.fresh = TRUE]
  /\ rpc' = [rpc EXCEPT ![h] = "done"]
  /\ UNCHANGED <<rowSecurity, holder, work, decision, snap, dpc, reply, delivered, calm>>

\* _record_delivery_failure, after any other failure.
RecordFailure(h) ==
  /\ rpc[h] = "failed"
  /\ Unlocked
  /\ row' = [row EXCEPT !.operador = OrmWrite(snap[h].operador, @, Nobody),
                        !.status = OrmWrite(snap[h].status, @, "FAILED"),
                        !.fresh = TRUE]
  /\ rpc' = [rpc EXCEPT ![h] = "done"]
  /\ UNCHANGED <<rowSecurity, holder, work, decision, snap, dpc, reply, delivered, calm>>

\* The callback_manual process dies between two of its steps.
CallbackCrash(h) ==
  /\ "crash" \in Faults
  /\ rpc[h] \in Reviewing
  /\ rpc' = [rpc EXCEPT ![h] = "done"]
  /\ calm' = FALSE
  /\ UNCHANGED <<rowSecurity, row, holder, work, decision, snap, dpc, reply, delivered>>

\* REVISION_CLAIM_TTL passes.  Without the fault "stale" it passes only over
\* a claim whose request is gone: requests take seconds, the TTL is minutes.
ClaimExpires ==
  /\ row.fresh
  /\ "stale" \in Faults \/ \A h \in Reviews : ~Busy(h)
  /\ row' = [row EXCEPT !.fresh = FALSE]
  /\ UNCHANGED <<rowSecurity, holder, work, rpc, decision, snap, dpc, reply, delivered, calm>>

-----------------------------------------------------------------------------
(* tasks: deliver_response and retry_failed_deliveries.                    *)

\* A user posts /send-response for this revision.
PostDirect(d) ==
  /\ d \in Directs
  /\ dpc[d] = "none"
  /\ dpc' = [dpc EXCEPT ![d] = "queued"]
  /\ calm' = FALSE
  /\ UNCHANGED <<rowSecurity, row, holder, work, rpc, decision, snap, reply, delivered>>

\* _claim_revision_delivery: the UPDATE is flushed, not committed, so the row
\* stays locked until the request ends.
ClaimDelivery(d) ==
  /\ dpc[d] = "queued"
  /\ Unlocked
  /\ Deliverable(row.status)
  /\ holder' = d
  /\ work' = "PROCESSING"
  /\ dpc' = [dpc EXCEPT ![d] = "claimed"]
  /\ UNCHANGED <<rowSecurity, row, rpc, decision, snap, reply, delivered, calm>>

\* _diagnose_delivery_claim_failure: HTTP 409.
RefuseDelivery(d) ==
  /\ dpc[d] = "queued"
  /\ ~Deliverable(row.status)
  /\ dpc' = [dpc EXCEPT ![d] = "done"]
  /\ reply' = [reply EXCEPT ![d] = "conflict"]
  /\ UNCHANGED <<rowSecurity, row, holder, work, rpc, decision, snap, delivered, calm>>

\* retry_failed_deliveries: the scan, a plain SELECT.
Scan(j) ==
  /\ j \in Jobs
  /\ dpc[j] = "none"
  /\ dpc' = [dpc EXCEPT ![j] = IF Retryable(row) THEN "scanned" ELSE "done"]
  /\ UNCHANGED <<rowSecurity, row, holder, work, rpc, decision, snap, reply, delivered, calm>>

\* _retry_single_delivery: the row the scan saw is reset to PENDING by id and
\* claimed by the same transaction, which sees its own PENDING.
ResetFailed(j) ==
  /\ dpc[j] = "scanned"
  /\ Unlocked
  /\ holder' = j
  /\ work' = "PROCESSING"
  /\ dpc' = [dpc EXCEPT ![j] = "claimed"]
  /\ UNCHANGED <<rowSecurity, row, rpc, decision, snap, reply, delivered, calm>>

\* The transaction settles on a status: _mark_revision_delivery.
Settle(d, status) ==
  /\ work' = status
  /\ dpc' = [dpc EXCEPT ![d] = "decided"]

\* _fetch_lead and _route_delivery: a channel, or no lead or no contact data.
FetchLead(d) ==
  /\ dpc[d] = "claimed"
  /\ \/ \E stage \in {"whatsapp", "email"} :
          dpc' = [dpc EXCEPT ![d] = stage] /\ UNCHANGED work
     \/ Settle(d, "FAILED")
  /\ UNCHANGED <<rowSecurity, row, holder, rpc, decision, snap, reply, delivered, calm>>

\* Mutant: the e-mail goes out as well when WhatsApp succeeded.
WhatsAppAccepted_AlsoEmail(d) ==
  /\ dpc[d] = "whatsapp"
  /\ delivered' = delivered \cup {<<d, "WHATSAPP">>}
  /\ dpc' = [dpc EXCEPT ![d] = "email"]
  /\ UNCHANGED <<rowSecurity, row, holder, work, rpc, decision, snap, reply, calm>>

\* _send_via_whatsapp: any answer below 400 from canales counts as success,
\* the HTTP 200 with success=False it gives for a gateway failure included.
WhatsAppAccepted(d) ==
  /\ dpc[d] = "whatsapp"
  /\ \/ delivered' = delivered \cup {<<d, "WHATSAPP">>} /\ UNCHANGED calm
     \/ "evolution" \in Faults /\ calm' = FALSE /\ UNCHANGED delivered
  /\ Settle(d, "SENT")
  /\ UNCHANGED <<rowSecurity, row, holder, rpc, decision, snap, reply>>

\* An HTTP error, or a timeout after which the message may have gone out; then
\* the e-mail fallback when the lead has an address.
WhatsAppFailed(d) ==
  /\ dpc[d] = "whatsapp"
  /\ \/ UNCHANGED <<delivered, calm>>
     \/ "timeout" \in Faults /\ calm' = FALSE /\ delivered' = delivered \cup {<<d, "WHATSAPP">>}
  /\ \/ dpc' = [dpc EXCEPT ![d] = "email"] /\ UNCHANGED work
     \/ Settle(d, "FAILED")
  /\ UNCHANGED <<rowSecurity, row, holder, rpc, decision, snap, reply>>

\* _send_via_email.
SendEmail(d) ==
  /\ dpc[d] = "email"
  /\ \/ Settle(d, "SENT") /\ delivered' = delivered \cup {<<d, "EMAIL">>}
     \/ Settle(d, "FAILED") /\ UNCHANGED delivered
  /\ UNCHANGED <<rowSecurity, row, holder, rpc, decision, snap, reply, calm>>

\* The response leaves before get_db commits: the exit code of a dependency
\* with yield runs after the response has been sent.
Answer(d) ==
  /\ dpc[d] = "decided"
  /\ dpc' = [dpc EXCEPT ![d] = "answered"]
  /\ reply' = [reply EXCEPT ![d] = IF work = "SENT" THEN "success" ELSE "failure"]
  /\ UNCHANGED <<rowSecurity, row, holder, work, rpc, decision, snap, delivered, calm>>

\* Mutant: the session is neither committed nor closed.
Commit_KeepsLock(d) ==
  /\ dpc[d] = "answered"
  /\ row' = [row EXCEPT !.status = work]
  /\ dpc' = [dpc EXCEPT ![d] = "done"]
  /\ UNCHANGED <<rowSecurity, holder, work, rpc, decision, snap, reply, delivered, calm>>

\* get_db: commit, and the row lock is released.
Commit(d) ==
  /\ dpc[d] = "answered"
  /\ row' = [row EXCEPT !.status = work]
  /\ holder' = Nobody
  /\ work' = "PENDING"
  /\ dpc' = [dpc EXCEPT ![d] = "done"]
  /\ UNCHANGED <<rowSecurity, rpc, decision, snap, reply, delivered, calm>>

\* The tasks process dies, or its commit fails: the transaction rolls back,
\* the messages it sent do not.
TasksCrash(d) ==
  /\ "crash" \in Faults
  /\ dpc[d] \in InTransaction \cup {"queued", "scanned"}
  /\ dpc' = [dpc EXCEPT ![d] = "done"]
  /\ IF holder = d THEN holder' = Nobody /\ work' = "PENDING"
                   ELSE UNCHANGED <<holder, work>>
  /\ reply' = [reply EXCEPT ![d] = IF @ = "none" THEN "failure" ELSE @]
  /\ calm' = FALSE
  /\ UNCHANGED <<rowSecurity, row, rpc, decision, snap, delivered>>

-----------------------------------------------------------------------------
ReviewStep(h) ==
  \/ Load(h) \/ LoadNothing(h) \/ GetReply(h)
  \/ FinishDelivered(h) \/ FinishRejected(h) \/ Release(h) \/ RecordFailure(h)

DeliveryStep(d) ==
  \/ ClaimDelivery(d) \/ RefuseDelivery(d) \/ ResetFailed(d)
  \/ FetchLead(d) \/ WhatsAppAccepted(d) \/ WhatsAppFailed(d) \/ SendEmail(d)
  \/ Answer(d) \/ Commit(d)

Next ==
  \/ \E h \in Reviews :
       \/ \E a \in Decisions : Claim(h, a)
       \/ ClaimRefused(h)
       \/ ReviewStep(h)
       \/ Unreachable(h) \/ NotifyTimeout(h) \/ CallbackCrash(h)
  \/ \E d \in Deliveries : PostDirect(d) \/ Scan(d) \/ DeliveryStep(d) \/ TasksCrash(d)
  \/ ClaimExpires

Spec == Init /\ [][Next]_vars

\* What has been started is carried on: an awaited call returns, a lock that
\* is free again is granted, and time passes.  Users start what they like.
Fairness ==
  /\ \A h \in Reviews : WF_vars(ReviewStep(h))
  /\ \A d \in Deliveries : WF_vars(DeliveryStep(d))
  /\ WF_vars(ClaimExpires)

FairSpec == Spec /\ Fairness

-----------------------------------------------------------------------------
(* What holds whatever fails.                                              *)

\* The status PROCESSING lives only inside an uncommitted transaction
\* (_claim_revision_delivery flushes, get_db commits): no crash of tasks can
\* leave a review that every later claim refuses as "already in progress".
NeverCommittedProcessing == row.status # "PROCESSING"

\* /send-response never transmits a message for a review that is committed as
\* sent or rejected: the row lock taken by the delivery claim keeps the
\* operators' writes out until the transaction ends.
NoSendAfterFinal ==
  [][\A d \in Reviews \cup Directs, c \in Channels :
       <<d, c>> \in delivered' \ delivered => row.status \notin {"SENT", "SKIPPED"}]_vars

\* An approval or an edition is on record only if a delivery asked for by a
\* review with that very decision reported success (aprobar, editar).
ApprovalFollowsDelivery ==
  row.accion \in {"APROBAR", "EDITAR"} =>
    \E h \in Reviews : decision[h] = row.accion /\ reply[h] = "success"

-----------------------------------------------------------------------------
(* What holds while no request outlives the claim's TTL.                   *)

\* Two operators never work on the review at the same time (_claim_revision,
\* and every path that gives the claim back).
ClaimExclusive ==
  \A g, h \in Reviews : rpc[g] \in Reviewing /\ rpc[h] \in Reviewing => g = h

\* Once processed, a review keeps its decision.
DecisionIsFinal ==
  [][row.procesado => row'.procesado /\ row'.accion = row.accion]_vars

\* A review that is not processed is in the end processed, or open to a claim
\* again, or its answer has been sent.
PendingIsResolvable ==
  ~row.procesado ~> row.procesado \/ Claimable(row) \/ row.status = "SENT"

\* Every review request that got its claim comes to an end: nobody waits for
\* a row lock for ever.
EveryReviewEnds ==
  \A h \in Reviews : rpc[h] \in Reviewing ~> rpc[h] = "done"

\* As long as only the panel delivers and nothing fails, the lead gets the
\* answer at most once, on one channel, and not at all once it is rejected
\* ("Reject the AI response; no message is sent.", rechazar).
AtMostOneMessage ==
  calm => Cardinality(delivered) <= IF row.accion = "RECHAZAR" THEN 0 ELSE 1

-----------------------------------------------------------------------------
(* What the documentation says and the code does not do.                   *)

\* "Persist failed delivery attempts while keeping the review pending."
\* (_record_delivery_failure): the operator may try again afterwards.
FailureKeepsPending ==
  [][\A h \in Reviews : RecordFailure(h) => Claimable(row')]_vars

\* "Re-attempt delivery for all FAILED revisions in the tenant."
\* (retry_failed_deliveries): a scan takes up a review whose delivery failed.
RetryCoversFailed ==
  [][\A j \in Jobs : Scan(j) /\ row.status = "FAILED" => dpc'[j] = "scanned"]_vars

\* "Reject the AI response; no message is sent." (rechazar): a rejection is
\* not recorded over a delivery that has been committed as sent.
RejectionStopsDelivery ==
  [][\A h \in Reviews : FinishRejected(h) => row.status # "SENT"]_vars

\* "Retry a single failed delivery." (_retry_single_delivery): what a retry
\* transmits had not been sent yet.
RetrySendsOnlyFailed ==
  [][\A j \in Jobs, c \in Channels :
       <<j, c>> \in delivered' \ delivered => row.status = "FAILED"]_vars

\* The e-mail fallback is there for when WhatsApp fails (_route_delivery): a
\* review stored as SENT has reached the lead.
SentReachedLead == row.status = "SENT" => delivered # {}

\* "Approve the AI response and forward it to the tasks service." (aprobar)
ApprovalIsForwarded ==
  \A h \in Reviews : rpc[h] = "claimed" /\ decision[h] # "RECHAZAR" ~> rpc[h] = "waiting"
-----------------------------------------------------------------------------
(* The inductive invariants behind the proofs.                             *)

\* The row lock: who holds it is in a transaction, its status is settled when
\* it answers, and what it may overwrite is a status it was allowed to claim.
LockInv ==
  /\ row.status # "PROCESSING"
  /\ \A d \in Deliveries :
       /\ dpc[d] \in InTransaction <=> holder = d
       /\ dpc[d] \in {"claimed", "whatsapp", "email"} => work = "PROCESSING"
       /\ dpc[d] \in {"decided", "answered"} => work \in {"SENT", "FAILED"}
  /\ \A d \in Reviews \cup Directs :
       /\ dpc[d] # "scanned"
       /\ dpc[d] \in InTransaction => row.status \in {"PENDING", "FAILED"}
  /\ \A j \in Jobs : dpc[j] # "queued"
  /\ \A h \in Reviews : rpc[h] \in {"idle", "claimed"} => dpc[h] = "none"

\* A success is reported once, by a delivery that has nothing left to report.
ReplyInv ==
  /\ \A h \in Reviews :
       /\ reply[h] # "none" => dpc[h] \in {"answered", "done"}
       /\ rpc[h] = "ok" => reply[h] = "success"
  /\ row.accion \in {"APROBAR", "EDITAR"} =>
       \E h \in Reviews : /\ decision[h] = row.accion
                          /\ reply[h] = "success"
                          /\ rpc[h] # "idle"

\* While no request outlives the TTL, who is reviewing owns a fresh claim.
ClaimInv ==
  \A h \in Reviews :
    rpc[h] \in Reviewing => row.operador = h /\ row.fresh /\ ~row.procesado

Undelivered == row.status \in {"PENDING", "FAILED"}

\* As long as only the panel delivers and nothing fails.
PanelInv == calm =>
  /\ \A d \in Directs : dpc[d] = "none"
  /\ \A h \in Reviews :
       /\ rpc[h] \in {"claimed", "rejecting"} => dpc[h] = "none" /\ Undelivered
       /\ rpc[h] = "rejecting" => snap[h].status # "SKIPPED"
       /\ rpc[h] \in {"waiting", "ok"} => decision[h] # "RECHAZAR"
       /\ rpc[h] = "waiting" =>
            /\ dpc[h] \in InTransaction \cup {"queued", "done"}
            /\ dpc[h] = "done" /\ reply[h] = "success" => row.status = "SENT"
            /\ dpc[h] = "done" => reply[h] # "none"
            /\ dpc[h] # "done" \/ reply[h] = "failure" => Undelivered
       /\ rpc[h] = "ok" => (dpc[h] = "answered" /\ work = "SENT") \/ row.status = "SENT"
       /\ rpc[h] = "failed" =>
            Undelivered /\ ((dpc[h] = "answered" /\ work = "FAILED") \/ dpc[h] = "done")
       /\ rpc[h] # "conflict" /\ reply[h] # "conflict"
       /\ dpc[h] \in {"queued", "claimed", "whatsapp", "email", "decided"} =>
            rpc[h] = "waiting" /\ reply[h] = "none"
       /\ dpc[h] = "answered" =>
            /\ rpc[h] \in {"waiting", "ok", "failed"}
            /\ reply[h] = IF work = "SENT" THEN "success" ELSE "failure"
  /\ \A j \in Jobs : dpc[j] \in {"none", "done"}
  /\ row.procesado => row.status \in {"SENT", "SKIPPED"}
  /\ row.accion = "RECHAZAR" => row.procesado /\ row.status = "SKIPPED"
  /\ delivered # {} =>
       \E h \in Reviews, c \in Channels :
         /\ delivered = {<<h, c>>}
         /\ row.status = "SENT" \/ (holder = h /\ work = "SENT")
=============================================================================
