----------------------- MODULE RevisionDeliveryProofs -----------------------
(***************************************************************************)
(* Theorems about RevisionDelivery, for every set of requests and every    *)
(* combination of faults, unless a theorem names the faults it excludes.   *)
(***************************************************************************)
EXTENDS RevisionDelivery, FiniteSetTheorems, TLAPS

-----------------------------------------------------------------------------
(* Type correctness.                                                       *)

\* Every variable keeps its type: the columns of the row, the stages of the
\* requests and the statuses of revision_humana stay in their domains.
THEOREM TypeCorrect == Spec => []TypeOK
<1> USE RequestsAssumption DEF Deliveries, Reviewing, InTransaction, Row, Snapshot,
        Statuses, Decisions, Channels
<1>1. Init => TypeOK
  BY DEF Init, TypeOK, NewRow, Loaded
<1>2. TypeOK /\ [Next]_vars => TypeOK'
  <2> SUFFICES ASSUME TypeOK, [Next]_vars PROVE TypeOK'
    OBVIOUS
  <2> USE DEF TypeOK
  <2>1. ASSUME NEW h \in Reviews, NEW a \in Decisions, Claim(h, a) PROVE TypeOK'
    BY <2>1 DEF Claim
  <2>2. ASSUME NEW h \in Reviews, ClaimRefused(h) \/ LoadNothing(h) \/ CallbackCrash(h)
                                    \/ NotifyTimeout(h)
        PROVE  TypeOK'
    BY <2>2 DEF ClaimRefused, LoadNothing, CallbackCrash, NotifyTimeout
  <2>3. ASSUME NEW h \in Reviews, Load(h) PROVE TypeOK'
    BY <2>3 DEF Load, Loaded
  <2>4. ASSUME NEW h \in Reviews, Unreachable(h) PROVE TypeOK'
    BY <2>4 DEF Unreachable
  <2>5. ASSUME NEW h \in Reviews, GetReply(h) PROVE TypeOK'
    BY <2>5 DEF GetReply
  <2>6. ASSUME NEW h \in Reviews, FinishDelivered(h) PROVE TypeOK'
    BY <2>6 DEF FinishDelivered, OrmWrite
  <2>7. ASSUME NEW h \in Reviews, FinishRejected(h) PROVE TypeOK'
    BY <2>7 DEF FinishRejected, OrmWrite
  <2>8. ASSUME NEW h \in Reviews, Release(h) PROVE TypeOK'
    BY <2>8 DEF Release, OrmWrite
  <2>9. ASSUME NEW h \in Reviews, RecordFailure(h) PROVE TypeOK'
    BY <2>9 DEF RecordFailure, OrmWrite
  <2>10. ASSUME NEW d \in Deliveries, PostDirect(d) \/ Scan(d) \/ ResetFailed(d)
                                        \/ ClaimDelivery(d) \/ RefuseDelivery(d)
         PROVE  TypeOK'
    <3>1. CASE PostDirect(d)
      <4>1. calm' \in BOOLEAN /\ dpc' \in [Deliveries -> InTransaction \cup {"none", "queued",
                                                                    "scanned", "done"}]
        BY <3>1, Zenon DEF PostDirect
      <4>2. QED
        BY <3>1, <4>1 DEF PostDirect
    <3>2. CASE Scan(d) \/ ResetFailed(d) \/ ClaimDelivery(d) \/ RefuseDelivery(d)
      BY <3>2 DEF Scan, ResetFailed, ClaimDelivery, RefuseDelivery
    <3>3. QED
      BY <2>10, <3>1, <3>2
  <2>11. ASSUME NEW d \in Deliveries, FetchLead(d) PROVE TypeOK'
    BY <2>11 DEF FetchLead, Settle
  <2>12. ASSUME NEW d \in Deliveries, WhatsAppAccepted(d) PROVE TypeOK'
    <3>1. calm' \in BOOLEAN
      BY <2>12, Zenon DEF WhatsAppAccepted
    <3>2. delivered' \subseteq Deliveries \X Channels
      BY <2>12 DEF WhatsAppAccepted
    <3>3. QED
      BY <2>12, <3>1, <3>2 DEF WhatsAppAccepted, Settle
  <2>13. ASSUME NEW d \in Deliveries, WhatsAppFailed(d) PROVE TypeOK'
    <3>1. calm' \in BOOLEAN
      BY <2>13, Zenon DEF WhatsAppFailed
    <3>2. delivered' \subseteq Deliveries \X Channels
      BY <2>13 DEF WhatsAppFailed
    <3>3. QED
      BY <2>13, <3>1, <3>2 DEF WhatsAppFailed, Settle
  <2>14. ASSUME NEW d \in Deliveries, SendEmail(d) PROVE TypeOK'
    BY <2>14 DEF SendEmail, Settle
  <2>15. ASSUME NEW d \in Deliveries, Answer(d) PROVE TypeOK'
    BY <2>15 DEF Answer
  <2>16. ASSUME NEW d \in Deliveries, Commit(d) PROVE TypeOK'
    BY <2>16 DEF Commit
  <2>17. ASSUME NEW d \in Deliveries, TasksCrash(d) PROVE TypeOK'
    BY <2>17 DEF TasksCrash
  <2>18. ASSUME ClaimExpires PROVE TypeOK'
    BY <2>18 DEF ClaimExpires
  <2>19. CASE UNCHANGED vars
    BY <2>19 DEF vars
  <2>20. QED
    BY <2>1, <2>2, <2>3, <2>4, <2>5, <2>6, <2>7, <2>8, <2>9, <2>10, <2>11, <2>12,
       <2>13, <2>14, <2>15, <2>16, <2>17, <2>18, <2>19
       DEF Next, ReviewStep, DeliveryStep
<1>3. QED
  BY <1>1, <1>2, PTL DEF Spec

-----------------------------------------------------------------------------
(* The row lock.                                                           *)

\* LockInv is inductive: a committed status is never PROCESSING, at most one
\* tasks transaction holds the row, and no operator's write gets in between.
THEOREM LockCorrect == Spec => []LockInv
<1> USE RequestsAssumption DEF Deliveries, InTransaction
<1>1. Init => LockInv
  BY DEF Init, LockInv, NewRow
<1>2. TypeOK /\ LockInv /\ [Next]_vars => LockInv'
  <2> SUFFICES ASSUME TypeOK, LockInv, [Next]_vars PROVE LockInv'
    OBVIOUS
  <2> USE DEF LockInv, TypeOK, Row, Statuses
  <2>1. ASSUME NEW h \in Reviews, NEW a \in Decisions, Claim(h, a) PROVE LockInv'
    BY <2>1 DEF Claim
  <2>2. ASSUME NEW h \in Reviews, ClaimRefused(h) \/ LoadNothing(h) \/ CallbackCrash(h)
                                    \/ NotifyTimeout(h) \/ GetReply(h)
        PROVE  LockInv'
    BY <2>2 DEF ClaimRefused, LoadNothing, CallbackCrash, NotifyTimeout, GetReply
  <2>3. ASSUME NEW h \in Reviews, Load(h) PROVE LockInv'
    BY <2>3 DEF Load
  <2>4. ASSUME NEW h \in Reviews, Unreachable(h) PROVE LockInv'
    BY <2>4 DEF Unreachable
  <2>6. ASSUME NEW h \in Reviews, FinishDelivered(h) PROVE LockInv'
    BY <2>6 DEF FinishDelivered
  <2>7. ASSUME NEW h \in Reviews, FinishRejected(h) PROVE LockInv'
    BY <2>7 DEF FinishRejected, OrmWrite, Unlocked
  <2>8. ASSUME NEW h \in Reviews, Release(h) PROVE LockInv'
    BY <2>8 DEF Release
  <2>9. ASSUME NEW h \in Reviews, RecordFailure(h) PROVE LockInv'
    BY <2>9 DEF RecordFailure, OrmWrite, Unlocked
  <2>10. ASSUME NEW d \in Deliveries, PostDirect(d) \/ Scan(d) \/ RefuseDelivery(d)
         PROVE  LockInv'
    BY <2>10 DEF PostDirect, Scan, RefuseDelivery
  <2>11. ASSUME NEW d \in Deliveries, ClaimDelivery(d) \/ ResetFailed(d) PROVE LockInv'
    BY <2>11 DEF ResetFailed, ClaimDelivery, Deliverable, Unlocked
  <2>12. ASSUME NEW d \in Deliveries, FetchLead(d) PROVE LockInv'
    BY <2>12 DEF FetchLead, Settle
  <2>13. ASSUME NEW d \in Deliveries, WhatsAppAccepted(d) \/ WhatsAppFailed(d) \/ SendEmail(d)
         PROVE  LockInv'
    BY <2>13 DEF WhatsAppAccepted, WhatsAppFailed, SendEmail, Settle
  <2>14. ASSUME NEW d \in Deliveries, Answer(d) PROVE LockInv'
    BY <2>14 DEF Answer
  <2>15. ASSUME NEW d \in Deliveries, Commit(d) PROVE LockInv'
    BY <2>15 DEF Commit
  <2>16. ASSUME NEW d \in Deliveries, TasksCrash(d) PROVE LockInv'
    BY <2>16 DEF TasksCrash
  <2>17. ASSUME ClaimExpires PROVE LockInv'
    BY <2>17 DEF ClaimExpires
  <2>18. CASE UNCHANGED vars
    BY <2>18 DEF vars
  <2>19. QED
    BY <2>1, <2>2, <2>3, <2>4, <2>6, <2>7, <2>8, <2>9, <2>10, <2>11, <2>12,
       <2>13, <2>14, <2>15, <2>16, <2>17, <2>18
       DEF Next, ReviewStep, DeliveryStep
<1>3. QED
  BY <1>1, <1>2, TypeCorrect, PTL DEF Spec

\* No crash, time-out or race ever commits PROCESSING, so no review can be
\* locked out of delivery by an attempt that died (_claim_revision_delivery).
THEOREM ProcessingNeverCommitted == Spec => []NeverCommittedProcessing
<1>1. LockInv => NeverCommittedProcessing
  BY DEF LockInv, NeverCommittedProcessing
<1>2. QED
  BY <1>1, LockCorrect, PTL

\* /send-response never transmits for a review committed as sent or rejected:
\* the status its claim accepted stands until its transaction ends.
THEOREM NothingSentAfterFinal == Spec => NoSendAfterFinal
<1> DEFINE Quiet == \A d \in Reviews \cup Directs, c \in Channels :
                      <<d, c>> \in delivered' \ delivered =>
                        row.status \notin {"SENT", "SKIPPED"}
<1>1. TypeOK /\ LockInv /\ [Next]_vars => [Quiet]_vars
  <2> SUFFICES ASSUME TypeOK, LockInv, Next PROVE Quiet
    OBVIOUS
  <2> USE DEF Deliveries
  <2>1. ASSUME NEW d \in Deliveries,
               WhatsAppAccepted(d) \/ WhatsAppFailed(d) \/ SendEmail(d)
        PROVE  Quiet
    <3>1. dpc[d] \in InTransaction /\ delivered' \subseteq delivered \cup ({d} \X Channels)
      BY <2>1 DEF WhatsAppAccepted, WhatsAppFailed, SendEmail, InTransaction, Channels
    <3>2. d \in Reviews \cup Directs => row.status \in {"PENDING", "FAILED"}
      BY <3>1 DEF LockInv
    <3>3. QED
      BY <3>1, <3>2
  <2>2. ASSUME delivered' = delivered PROVE Quiet
    BY <2>2
  <2>3. ASSUME NEW h \in Reviews, ReviewStep(h) \/ ClaimRefused(h) \/ Unreachable(h)
                                    \/ NotifyTimeout(h) \/ CallbackCrash(h)
        PROVE  delivered' = delivered
    BY <2>3 DEF ReviewStep, Load, LoadNothing, GetReply, FinishDelivered, FinishRejected,
       Release, RecordFailure, ClaimRefused, Unreachable, NotifyTimeout, CallbackCrash
  <2>4. ASSUME NEW h \in Reviews, NEW a \in Decisions, Claim(h, a)
        PROVE  delivered' = delivered
    BY <2>4 DEF Claim
  <2>5. ASSUME NEW d \in Deliveries, PostDirect(d) \/ Scan(d) \/ TasksCrash(d)
                 \/ ClaimDelivery(d) \/ RefuseDelivery(d) \/ ResetFailed(d)
                 \/ FetchLead(d) \/ Answer(d) \/ Commit(d)
        PROVE  delivered' = delivered
    BY <2>5 DEF PostDirect, Scan, TasksCrash, ClaimDelivery, RefuseDelivery, ResetFailed,
       FetchLead, Answer, Commit
  <2>6. ASSUME ClaimExpires PROVE delivered' = delivered
    BY <2>6 DEF ClaimExpires
  <2>7. QED
    BY <2>1, <2>2, <2>3, <2>4, <2>5, <2>6 DEF Next, DeliveryStep
<1>2. QED
  BY <1>1, TypeCorrect, LockCorrect, PTL DEF Spec, NoSendAfterFinal

-----------------------------------------------------------------------------
(* Approvals and deliveries.                                               *)

\* ReplyInv is inductive: a success, once reported, is not taken back.
LEMMA ReplyCorrect == Spec => []ReplyInv
<1> USE RequestsAssumption DEF Deliveries, InTransaction
<1>1. Init => ReplyInv
  BY DEF Init, ReplyInv, NewRow
<1>2. TypeOK /\ LockInv /\ ReplyInv /\ [Next]_vars => ReplyInv'
  <2> SUFFICES ASSUME TypeOK, LockInv, ReplyInv, [Next]_vars PROVE ReplyInv'
    OBVIOUS
  <2> USE DEF TypeOK, Row, Decisions, ReplyInv
  <2>1. ASSUME NEW h \in Reviews, NEW a \in Decisions, Claim(h, a) PROVE ReplyInv'
    BY <2>1 DEF Claim
  <2>2. ASSUME NEW h \in Reviews, ClaimRefused(h) \/ LoadNothing(h) \/ CallbackCrash(h)
                                    \/ NotifyTimeout(h) \/ GetReply(h)
        PROVE  ReplyInv'
    BY <2>2 DEF ClaimRefused, LoadNothing, CallbackCrash, NotifyTimeout, GetReply, Reviewing
  <2>3. ASSUME NEW h \in Reviews, Load(h) PROVE ReplyInv'
    BY <2>3 DEF Load, LockInv
  <2>4. ASSUME NEW h \in Reviews, Unreachable(h) PROVE ReplyInv'
    BY <2>4 DEF Unreachable
  <2>5. ASSUME NEW h \in Reviews, FinishDelivered(h) PROVE ReplyInv'
    BY <2>5 DEF FinishDelivered
  <2>6. ASSUME NEW h \in Reviews, FinishRejected(h) PROVE ReplyInv'
    BY <2>6 DEF FinishRejected
  <2>7. ASSUME NEW h \in Reviews, Release(h) PROVE ReplyInv'
    BY <2>7 DEF Release
  <2>8. ASSUME NEW h \in Reviews, RecordFailure(h) PROVE ReplyInv'
    BY <2>8 DEF RecordFailure
  <2>9. ASSUME NEW d \in Deliveries, PostDirect(d) \/ Scan(d) \/ RefuseDelivery(d)
         PROVE  ReplyInv'
    BY <2>9 DEF PostDirect, Scan, RefuseDelivery
  <2>10. ASSUME NEW d \in Deliveries, ClaimDelivery(d) \/ ResetFailed(d) PROVE ReplyInv'
    BY <2>10 DEF ResetFailed, ClaimDelivery
  <2>11. ASSUME NEW d \in Deliveries, FetchLead(d) PROVE ReplyInv'
    BY <2>11 DEF FetchLead, Settle
  <2>12. ASSUME NEW d \in Deliveries, WhatsAppAccepted(d) \/ WhatsAppFailed(d) \/ SendEmail(d)
         PROVE  ReplyInv'
    BY <2>12 DEF WhatsAppAccepted, WhatsAppFailed, SendEmail, Settle
  <2>13. ASSUME NEW d \in Deliveries, Answer(d) PROVE ReplyInv'
    BY <2>13 DEF Answer
  <2>14. ASSUME NEW d \in Deliveries, Commit(d) PROVE ReplyInv'
    BY <2>14 DEF Commit
  <2>15. ASSUME NEW d \in Deliveries, TasksCrash(d) PROVE ReplyInv'
    BY <2>15 DEF TasksCrash
  <2>16. ASSUME ClaimExpires PROVE ReplyInv'
    BY <2>16 DEF ClaimExpires
  <2>17. CASE UNCHANGED vars
    BY <2>17 DEF vars
  <2>18. QED
    BY <2>1, <2>2, <2>3, <2>4, <2>5, <2>6, <2>7, <2>8, <2>9, <2>10, <2>11, <2>12,
       <2>13, <2>14, <2>15, <2>16, <2>17 DEF Next, ReviewStep, DeliveryStep
<1>3. QED
  BY <1>1, <1>2, TypeCorrect, LockCorrect, PTL DEF Spec

\* An approval is recorded only after a delivery asked for with that decision
\* has reported success (aprobar, editar), whatever fails.
THEOREM ApprovalDelivered == Spec => []ApprovalFollowsDelivery
<1>1. ReplyInv => ApprovalFollowsDelivery
  BY DEF ReplyInv, ApprovalFollowsDelivery
<1>2. QED
  BY <1>1, ReplyCorrect, PTL

-----------------------------------------------------------------------------
(* The operators' claim, while no request outlives its TTL.                *)

\* A claim that is being worked on is owned, fresh and unprocessed.
LEMMA ClaimOwned == ASSUME "stale" \notin Faults PROVE Spec => []ClaimInv
<1>1. Init => ClaimInv
  BY DEF Init, ClaimInv, Reviewing
<1>2. TypeOK /\ ClaimInv /\ [Next]_vars => ClaimInv'
  <2> SUFFICES ASSUME TypeOK, ClaimInv, [Next]_vars PROVE ClaimInv'
    OBVIOUS
  <2> USE RequestsAssumption DEF TypeOK, Row, Deliveries, ClaimInv, Reviewing
  <2>1. ASSUME NEW h \in Reviews, NEW a \in Decisions, Claim(h, a) PROVE ClaimInv'
    <3>1. \A g \in Reviews : rpc[g] \notin Reviewing
      BY <2>1 DEF Claim, Claimable
    <3>2. QED
      BY <2>1, <3>1 DEF Claim, Claimable
  <2>2. ASSUME NEW h \in Reviews, ClaimRefused(h) \/ LoadNothing(h) \/ CallbackCrash(h)
                                    \/ NotifyTimeout(h) \/ GetReply(h)
        PROVE  ClaimInv'
    BY <2>2 DEF ClaimRefused, LoadNothing, CallbackCrash, NotifyTimeout, GetReply
  <2>3. ASSUME NEW h \in Reviews, Load(h) \/ Unreachable(h) PROVE ClaimInv'
    BY <2>3 DEF Load, Unreachable
  <2>4. ASSUME NEW h \in Reviews,
               FinishDelivered(h) \/ FinishRejected(h) \/ Release(h) \/ RecordFailure(h)
        PROVE  ClaimInv'
    <3>1. rpc' = [rpc EXCEPT ![h] = "done"] /\ rpc[h] \in Reviewing
      BY <2>4 DEF FinishDelivered, FinishRejected, Release, RecordFailure
    <3>2. \A g \in Reviews : rpc'[g] \notin Reviewing
      BY <3>1
    <3>3. QED
      BY <3>2
  <2>5. ASSUME NEW d \in Deliveries, PostDirect(d) \/ Scan(d) \/ ClaimDelivery(d)
                 \/ RefuseDelivery(d) \/ ResetFailed(d) \/ FetchLead(d) \/ Answer(d)
                 \/ WhatsAppAccepted(d) \/ WhatsAppFailed(d) \/ SendEmail(d) \/ TasksCrash(d)
        PROVE  ClaimInv'
    BY <2>5 DEF PostDirect, Scan, ClaimDelivery, RefuseDelivery, ResetFailed, FetchLead,
       Answer, WhatsAppAccepted, WhatsAppFailed, SendEmail, TasksCrash
  <2>6. ASSUME NEW d \in Deliveries, Commit(d) PROVE ClaimInv'
    BY <2>6 DEF Commit
  <2>7. ASSUME ClaimExpires PROVE ClaimInv'
    BY <2>7 DEF ClaimExpires, Busy
  <2>8. CASE UNCHANGED vars
    BY <2>8 DEF vars
  <2>9. QED
    BY <2>1, <2>2, <2>3, <2>4, <2>5, <2>6, <2>7, <2>8 DEF Next, ReviewStep, DeliveryStep
<1>3. QED
  BY <1>1, <1>2, TypeCorrect, PTL DEF Spec

\* Two operators never work on one review at the same time (_claim_revision),
\* for any number of them and with every other fault.
THEOREM OneReviewer == ASSUME "stale" \notin Faults PROVE Spec => []ClaimExclusive
<1>1. ClaimInv => ClaimExclusive
  BY DEF ClaimInv, ClaimExclusive
<1>2. QED
  BY <1>1, ClaimOwned, PTL

\* A processed review keeps its decision: the late write of another request
\* would need a claim, and a claimed review is not processed.
THEOREM DecisionKept == ASSUME "stale" \notin Faults PROVE Spec => DecisionIsFinal
<1> DEFINE Kept == row.procesado => row'.procesado /\ row'.accion = row.accion
<1>1. TypeOK /\ ClaimInv /\ [Next]_vars => [Kept]_vars
  <2> SUFFICES ASSUME TypeOK, ClaimInv, Next PROVE Kept
    OBVIOUS
  <2> USE DEF TypeOK, Row
  <2>1. ASSUME NEW h \in Reviews, FinishDelivered(h) \/ FinishRejected(h) PROVE Kept
    BY <2>1 DEF FinishDelivered, FinishRejected, ClaimInv, Reviewing
  <2>2. ASSUME NEW h \in Reviews, Release(h) \/ RecordFailure(h) PROVE Kept
    BY <2>2 DEF Release, RecordFailure
  <2>3. ASSUME NEW h \in Reviews, NEW a \in Decisions, Claim(h, a) PROVE Kept
    BY <2>3 DEF Claim
  <2>4. ASSUME ClaimExpires PROVE Kept
    BY <2>4 DEF ClaimExpires
  <2>5. ASSUME NEW d \in Deliveries, Commit(d) PROVE Kept
    BY <2>5 DEF Commit
  <2>6. ASSUME row' = row PROVE Kept
    BY <2>6
  <2>7. ASSUME NEW h \in Reviews, Load(h) \/ LoadNothing(h) \/ GetReply(h) \/ ClaimRefused(h)
                 \/ Unreachable(h) \/ NotifyTimeout(h) \/ CallbackCrash(h)
        PROVE  row' = row
    BY <2>7 DEF Load, LoadNothing, GetReply, ClaimRefused, Unreachable, NotifyTimeout,
       CallbackCrash
  <2>8. ASSUME NEW d \in Deliveries, PostDirect(d) \/ Scan(d) \/ ClaimDelivery(d)
                 \/ RefuseDelivery(d) \/ ResetFailed(d) \/ FetchLead(d) \/ Answer(d)
                 \/ WhatsAppAccepted(d) \/ WhatsAppFailed(d) \/ SendEmail(d) \/ TasksCrash(d)
        PROVE  row' = row
    BY <2>8 DEF PostDirect, Scan, ClaimDelivery, RefuseDelivery, ResetFailed, FetchLead,
       Answer, WhatsAppAccepted, WhatsAppFailed, SendEmail, TasksCrash
  <2>9. QED
    BY <2>1, <2>2, <2>3, <2>4, <2>5, <2>6, <2>7, <2>8 DEF Next, ReviewStep, DeliveryStep
<1>2. QED
  BY <1>1, TypeCorrect, ClaimOwned, PTL DEF Spec, DecisionIsFinal

-----------------------------------------------------------------------------
(* The panel alone: nothing has failed, and nobody called /send-response.  *)

\* PanelInv is inductive together with the lock and the claim.
LEMMA PanelCorrect == ASSUME "stale" \notin Faults PROVE Spec => []PanelInv
<1> USE RequestsAssumption DEF Deliveries, InTransaction
<1>1. Init => PanelInv
  BY DEF Init, PanelInv, NewRow, Undelivered
<1>2. TypeOK /\ LockInv /\ ReplyInv /\ ClaimInv /\ PanelInv /\ [Next]_vars => PanelInv'
  <2> SUFFICES ASSUME TypeOK, LockInv, ReplyInv, ClaimInv, PanelInv, [Next]_vars
                PROVE  PanelInv'
    OBVIOUS
  <2> USE DEF TypeOK, Row, Statuses, Decisions, LockInv, PanelInv, Undelivered
  <2>0. \A g, h \in Reviews : rpc[g] \in Reviewing /\ rpc[h] \in Reviewing => g = h
    BY DEF ClaimInv
  <2>c. ASSUME ~calm' PROVE PanelInv'
    BY <2>c
  <2>1. ASSUME NEW h \in Reviews, NEW a \in Decisions, Claim(h, a) PROVE PanelInv'
    BY <2>1 DEF Claim, Claimable, Unlocked
  <2>2. ASSUME NEW h \in Reviews, ClaimRefused(h) \/ LoadNothing(h) \/ CallbackCrash(h)
                                    \/ NotifyTimeout(h)
        PROVE  PanelInv'
    <3>1. CASE ClaimRefused(h)
      BY <3>1 DEF ClaimRefused
    <3>2. CASE LoadNothing(h)
      BY <3>2 DEF LoadNothing
    <3>3. CASE CallbackCrash(h) \/ NotifyTimeout(h)
      BY <3>3, <2>c DEF CallbackCrash, NotifyTimeout
    <3>4. QED
      BY <2>2, <3>1, <3>2, <3>3
  <2>3. ASSUME NEW h \in Reviews, GetReply(h) PROVE PanelInv'
    BY <2>3 DEF GetReply
  <2>4. ASSUME NEW h \in Reviews, Load(h) PROVE PanelInv'
    BY <2>4 DEF Load, Loaded, ReplyInv
  <2>5. ASSUME NEW h \in Reviews, Unreachable(h) PROVE PanelInv'
    BY <2>5 DEF Unreachable
  <2>6. ASSUME NEW h \in Reviews, FinishDelivered(h) PROVE PanelInv'
    BY <2>0, <2>6 DEF FinishDelivered, ClaimInv, Reviewing, Unlocked
  <2>7. ASSUME NEW h \in Reviews, FinishRejected(h) PROVE PanelInv'
    BY <2>0, <2>7 DEF FinishRejected, ClaimInv, Reviewing, Unlocked, OrmWrite
  <2>8. ASSUME NEW h \in Reviews, Release(h) PROVE PanelInv'
    BY <2>8 DEF Release
  <2>9. ASSUME NEW h \in Reviews, RecordFailure(h) PROVE PanelInv'
    BY <2>0, <2>9 DEF RecordFailure, ClaimInv, Reviewing, Unlocked, OrmWrite
  <2>10. ASSUME NEW d \in Deliveries, PostDirect(d) \/ Scan(d) \/ ResetFailed(d)
         PROVE  PanelInv'
    <3>1. CASE PostDirect(d)
      BY <3>1, <2>c DEF PostDirect
    <3>2. CASE Scan(d)
      BY <3>2 DEF Scan, Retryable
    <3>3. CASE ResetFailed(d)
      BY <3>3 DEF ResetFailed
    <3>4. QED
      BY <2>10, <3>1, <3>2, <3>3
  <2>11. ASSUME NEW d \in Deliveries, ClaimDelivery(d) \/ RefuseDelivery(d) PROVE PanelInv'
    <3>1. CASE ClaimDelivery(d)
      BY <3>1 DEF ClaimDelivery, Deliverable, Unlocked
    <3>2. CASE RefuseDelivery(d)
      BY <3>2 DEF RefuseDelivery, Deliverable
    <3>3. QED
      BY <2>11, <3>1, <3>2
  <2>12. ASSUME NEW d \in Deliveries, FetchLead(d) PROVE PanelInv'
    BY <2>12 DEF FetchLead, Settle
  <2>13. ASSUME NEW d \in Deliveries, WhatsAppAccepted(d) PROVE PanelInv'
    <3>1. CASE ~calm'
      BY <3>1, <2>c
    <3>2. CASE calm'
      <4>1. calm /\ delivered' = delivered \cup {<<d, "WHATSAPP">>}
        BY <2>13, <3>2, Zenon DEF WhatsAppAccepted
      <4>2. QED
        BY <2>13, <4>1 DEF WhatsAppAccepted, Settle, Channels
    <3>3. QED
      BY <3>1, <3>2
  <2>14. ASSUME NEW d \in Deliveries, WhatsAppFailed(d) PROVE PanelInv'
    <3>1. CASE ~calm'
      BY <3>1, <2>c
    <3>2. CASE calm'
      <4>1. calm /\ delivered' = delivered
        BY <2>14, <3>2, Zenon DEF WhatsAppFailed
      <4>2. QED
        BY <2>14, <4>1 DEF WhatsAppFailed, Settle
    <3>3. QED
      BY <3>1, <3>2
  <2>15. ASSUME NEW d \in Deliveries, SendEmail(d) PROVE PanelInv'
    BY <2>15 DEF SendEmail, Settle, Channels
  <2>16. ASSUME NEW d \in Deliveries, Answer(d) PROVE PanelInv'
    BY <2>16 DEF Answer
  <2>17. ASSUME NEW d \in Deliveries, Commit(d) PROVE PanelInv'
    BY <2>17, <2>0 DEF Commit, Reviewing, ClaimInv
  <2>18. ASSUME NEW d \in Deliveries, TasksCrash(d) PROVE PanelInv'
    BY <2>18, <2>c DEF TasksCrash
  <2>19. ASSUME ClaimExpires PROVE PanelInv'
    BY <2>19 DEF ClaimExpires
  <2>20. CASE UNCHANGED vars
    BY <2>20 DEF vars
  <2>21. QED
    BY <2>1, <2>2, <2>3, <2>4, <2>5, <2>6, <2>7, <2>8, <2>9, <2>10, <2>11, <2>12,
       <2>13, <2>14, <2>15, <2>16, <2>17, <2>18, <2>19, <2>20
       DEF Next, ReviewStep, DeliveryStep
<1>3. Spec => []ClaimInv
  BY ClaimOwned
<1>4. QED
  BY <1>1, <1>2, <1>3, TypeCorrect, LockCorrect, ReplyCorrect, PTL DEF Spec

\* Operators who race on the panel never make the lead get the answer twice
\* (update_revision_ia and send_response), and an answer that was rejected is
\* never sent ("no message is sent", rechazar), although the rejection is
\* written two statements after its claim was committed.
THEOREM PanelDelivery == ASSUME "stale" \notin Faults PROVE Spec => []AtMostOneMessage
<1>1. PanelInv /\ LockInv => AtMostOneMessage
  <2> SUFFICES ASSUME PanelInv, LockInv, calm
                PROVE  Cardinality(delivered) <= IF row.accion = "RECHAZAR" THEN 0 ELSE 1
    BY DEF AtMostOneMessage
  <2>1. CASE delivered = {}
    BY <2>1, FS_EmptySet
  <2>2. CASE delivered # {}
    <3>1. PICK h \in Reviews, c \in Channels :
            /\ delivered = {<<h, c>>}
            /\ row.status = "SENT" \/ (holder = h /\ work = "SENT")
      BY <2>2 DEF PanelInv
    <3>2. Cardinality({<<h, c>>}) = 1
      BY FS_Singleton, Zenon
    <3>3. row.accion # "RECHAZAR"
      BY <3>1, RequestsAssumption DEF PanelInv, LockInv, Deliveries, InTransaction
    <3>4. QED
      BY <3>1, <3>2, <3>3
  <2>3. QED
    BY <2>1, <2>2
<1>2. Spec => []PanelInv
  BY PanelCorrect
<1>3. QED
  BY <1>1, <1>2, LockCorrect, PTL
=============================================================================
