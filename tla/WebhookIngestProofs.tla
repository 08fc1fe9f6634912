------------------------- MODULE WebhookIngestProofs -------------------------
(***************************************************************************)
(* Theorems about WebhookIngest, for every set of messages, phones and     *)
(* workers, every configuration and every plan of faults.                  *)
(***************************************************************************)
EXTENDS WebhookIngest, FiniteSetTheorems, TLAPS

-----------------------------------------------------------------------------
(* Counting.                                                               *)

\* How often a message occurs in a batch.
LEMMA Occurrences ==
  ASSUME NEW m, NEW s \in Seq(Messages)
  PROVE  Occurs(m, s) \in Nat /\ \A i \in DOMAIN s : s[i] = m => Occurs(m, s) > 0
<1> DEFINE S == { i \in DOMAIN s : s[i] = m }
<1>1. IsFiniteSet(S)
  <2>1. IsFiniteSet(1 .. Len(s))
    BY FS_Interval
  <2>2. S \subseteq 1 .. Len(s)
    OBVIOUS
  <2>3. QED
    BY <2>1, <2>2, FS_Subset
<1>2. Cardinality(S) \in Nat /\ (Cardinality(S) = 0 <=> S = {})
  BY <1>1, FS_CardinalityType, FS_EmptySet
<1>3. \A i \in DOMAIN s : s[i] = m => S # {}
  OBVIOUS
<1> HIDE DEF S
<1>4. Occurs(m, s) = Cardinality(S)
  BY DEF Occurs, S
<1>5. QED
  BY <1>2, <1>3, <1>4

\* One more of each message of a batch.
LEMMA Counted ==
  ASSUME NEW f \in [Messages -> Nat], NEW s \in Seq(Messages)
  PROVE  /\ Count(f, s) \in [Messages -> Nat]
         /\ \A m \in Messages : Count(f, s)[m] >= f[m]
         /\ \A i \in DOMAIN s : Count(f, s)[s[i]] > 0
<1>1. \A m \in Messages : Occurs(m, s) \in Nat
  BY Occurrences
<1>2. \A i \in DOMAIN s : s[i] \in Messages /\ Occurs(s[i], s) > 0
  BY Occurrences
<1>3. \A m \in Messages : f[m] \in Nat /\ Count(f, s)[m] = f[m] + Occurs(m, s)
  BY DEF Count
<1>4. Count(f, s) \in [Messages -> Nat]
  BY <1>1 DEF Count
<1>5. \A m \in Messages : Count(f, s)[m] >= f[m]
  BY <1>1, <1>3
<1>6. ASSUME NEW i \in DOMAIN s PROVE Count(f, s)[s[i]] > 0
  <2>1. s[i] \in Messages /\ Occurs(s[i], s) > 0
    BY <1>2
  <2>2. Count(f, s)[s[i]] = f[s[i]] + Occurs(s[i], s) /\ f[s[i]] \in Nat /\ Occurs(s[i], s) \in Nat
    BY <1>1, <1>3, <2>1
  <2>3. QED
    BY <2>1, <2>2
<1>7. QED
  BY <1>4, <1>5, <1>6

-----------------------------------------------------------------------------
(* The parts of the state, and what each keeps to.                         *)

Worker == [batch : Seq(Messages), via : Callers, at : Stages, tries : 0 .. 2]

\* A worker that is busy has a batch; that of a task is one message.
Busy(x) ==
  /\ x.at = "idle" => x.via = "nobody"
  /\ x.at # "idle" => x.batch # <<>> /\ (x.via = "task" => Len(x.batch) = 1)

Settings ==
  /\ mode \in Modes /\ kind \in Kinds /\ plan \in Plans /\ config \in Configs
  /\ active \in BOOLEAN /\ budget \in 0 .. MaxFaults[plan]
Posts == posts \in 0 .. MaxPosts
Buffers ==
  /\ seen \subseteq Messages \cup Phones
  /\ buffer \in [Phones -> Seq(Messages)] /\ timers \in [Phones -> Nat]
Queue == queue \in [Messages -> Nat]
Work == DOMAIN work = Workers /\ \A w \in Workers : work[w] \in Worker /\ Busy(work[w])
Leads == leads \in [Phones -> Nat]
History == stored \in [Messages -> Nat] /\ asked \in [Messages -> Nat] /\ sent \in [Messages -> Nat]
Answers == acked \subseteq Messages /\ dropped \subseteq Messages

TypeInv == Settings /\ Posts /\ Buffers /\ Queue /\ Work /\ Leads /\ History /\ Answers

LEMMA TypeInvOK == ASSUME TypeInv PROVE TypeOK
BY DEF TypeInv, TypeOK, Settings, Posts, Buffers, Queue, Work, Worker, Leads, History, Answers

LEMMA Spent == ASSUME Settings, NEW f, Fail(f) PROVE budget' \in 0 .. MaxFaults[plan]
BY SettingsAssumption DEF Settings, Fail

\* One worker goes on.
LEMMA OneWorker ==
  ASSUME Work, NEW w \in Workers, NEW x \in Worker, Busy(x), work' = [work EXCEPT ![w] = x]
  PROVE  Work'
BY DEF Work

LEMMA IdleWorker == Idle \in Worker /\ Busy(Idle)
BY DEF Idle, Worker, Busy, Callers, Stages

LEMMA Started ==
  ASSUME Work, NEW b \in Seq(Messages), b # <<>>, NEW via \in Callers, via = "task" => Len(b) = 1,
         Start(b, via)
  PROVE  /\ Work'
         /\ \E w \in Workers :
              /\ work[w].at = "idle"
              /\ work' = [work EXCEPT ![w] = [batch |-> b, via |-> via, at |-> "lookup", tries |-> 0]]
<1> DEFINE x == [batch |-> b, via |-> via, at |-> "lookup", tries |-> 0]
<1>1. PICK w \in Free : work' = [work EXCEPT ![w] = x]
  BY DEF Start
<1>2. w \in Workers /\ work[w].at = "idle"
  BY DEF Free
<1>3. x \in Worker /\ Busy(x)
  BY DEF Worker, Busy, Stages
<1> HIDE DEF x
<1>4. Work'
  BY <1>1, <1>2, <1>3, OneWorker
<1>5. QED
  BY <1>1, <1>2, <1>4 DEF x

LEMMA Gone ==
  ASSUME Work, NEW w \in Workers, work[w].at # "idle", NEW stage \in Stages \ {"idle"},
         GoTo(w, stage)
  PROVE  /\ Work'
         /\ work' = [work EXCEPT ![w] = [work[w] EXCEPT !.at = stage]]
<1> DEFINE x == [work[w] EXCEPT !.at = stage]
<1>1. x \in Worker /\ Busy(x)
  BY DEF Work, Worker, Busy
<1>2. work' = [work EXCEPT ![w] = x]
  BY DEF GoTo
<1> HIDE DEF x
<1>3. QED
  BY <1>1, <1>2, OneWorker DEF x

LEMMA OneMore ==
  ASSUME NEW f \in [Messages -> Nat], NEW m
  PROVE  [f EXCEPT ![m] = @ + 1] \in [Messages -> Nat]
<1>1. CASE m \in Messages
  BY <1>1
<1>2. CASE m \notin Messages
  BY <1>2
<1>3. QED
  BY <1>1, <1>2

\* The first message of a busy worker.
LEMMA FirstMessage ==
  ASSUME Work, NEW w \in Workers, work[w].at # "idle"
  PROVE  /\ work[w].batch \in Seq(Messages) /\ work[w].batch # <<>> /\ 1 \in DOMAIN work[w].batch
         /\ work[w].batch[1] \in Messages
<1>1. work[w].batch \in Seq(Messages) /\ work[w].batch # <<>>
  BY DEF Work, Worker, Busy
<1>2. QED
  BY <1>1

LEMMA Finished ==
  ASSUME TypeInv, NEW w \in Workers, work[w].at # "idle", NEW good \in BOOLEAN, Finish(w, good),
         dropped' = dropped
  PROVE  Work' /\ Queue' /\ Answers' /\ work' = [work EXCEPT ![w] = Idle]
<1>1. work' = [work EXCEPT ![w] = Idle]
  BY DEF Finish
<1>2. Work'
  BY <1>1, IdleWorker, OneWorker DEF TypeInv
<1>3. work[w].batch[1] \in Messages
  BY FirstMessage DEF TypeInv
<1>4. Queue' /\ Answers'
  BY <1>3 DEF Finish, TypeInv, Queue, Answers
<1>5. QED
  BY <1>1, <1>2, <1>4

LEMMA Dropped ==
  ASSUME TypeInv, NEW w \in Workers, work[w].at # "idle", Drop(w)
  PROVE  Answers'
<1>1. \A i \in DOMAIN work[w].batch : work[w].batch[i] \in Messages
  BY FirstMessage DEF TypeInv
<1>2. QED
  BY <1>1 DEF Drop, TypeInv, Answers

LEMMA PartsAfter ==
  ASSUME Settings', Posts', Buffers', Queue', Work', Leads', History', Answers'
  PROVE  TypeInv'
BY DEF TypeInv

\* What an action leaves alone stays as it is.
LEMMA SettingsKept == ASSUME Settings, UNCHANGED <<settings, budget>> PROVE Settings'
BY DEF Settings, settings

LEMMA SettingsSpent == ASSUME Settings, UNCHANGED settings, NEW f, Fail(f) PROVE Settings'
<1>1. budget' \in 0 .. MaxFaults[plan]
  BY Spent
<1>2. QED
  BY <1>1 DEF Settings, settings

LEMMA EffectsKept ==
  ASSUME TypeInv, UNCHANGED effects PROVE Leads' /\ History' /\ (UNCHANGED acked => Answers')
BY DEF TypeInv, Leads, History, Answers, effects

LEMMA MemoryKept == ASSUME Buffers, UNCHANGED memory PROVE Buffers'
BY DEF Buffers, memory

LEMMA KeyKnown == ASSUME Settings, NEW m \in Messages PROVE Key(m) \in Messages \cup Phones
BY SettingsAssumption DEF Key, Settings

LEMMA Marked == ASSUME TypeInv, NEW m \in Messages, Mark(m) PROVE Buffers'
BY KeyKnown DEF Mark, TypeInv, Buffers

LEMMA PostCounted == ASSUME Posts, Posted PROVE Posts'
<1>1. posts \in Nat /\ posts < MaxPosts /\ posts' = posts + 1 /\ MaxPosts \in Nat
  BY SettingsAssumption DEF Posts, Posted
<1>2. QED
  BY <1>1 DEF Posts

LEMMA OneMessage ==
  ASSUME NEW m \in Messages
  PROVE  <<m>> \in Seq(Messages) /\ <<m>> # <<>> /\ Len(<<m>>) = 1 /\ <<m>>[1] = m
OBVIOUS

LEMMA ChatKnown ==
  ASSUME TypeInv, NEW w \in Workers, work[w].at # "idle" PROVE ChatOf(w) \in Phones
BY FirstMessage, SettingsAssumption DEF TypeInv, ChatOf

\* The POSTs of the gateway.
LEMMA TypesGateway ==
  ASSUME TypeInv, NEW m \in Messages, Gateway(m) PROVE TypeInv'
<1> USE DEF TypeInv
<1>1. CASE Duplicate(m)
  BY <1>1, SettingsKept, EffectsKept, MemoryKept, PostCounted, PartsAfter DEF Duplicate, Queue, Work
<1>2. CASE Receive(m)
  <2>1. Work'
    BY <1>2, OneMessage, Started DEF Receive, Callers
  <2>2. QED
    BY <1>2, <2>1, SettingsKept, EffectsKept, Marked, PostCounted, PartsAfter DEF Receive, Queue
<1>3. CASE Enqueue(m)
  <2>1. Queue' /\ Answers' /\ Work'
    BY <1>3 DEF Enqueue, Queue, Answers, effects, Work
  <2>2. QED
    BY <1>3, <2>1, SettingsKept, EffectsKept, Marked, PostCounted, PartsAfter DEF Enqueue
<1>4. CASE EnqueueFails(m)
  <2>1. Work'
    BY <1>4, OneMessage, Started DEF EnqueueFails, Callers
  <2>2. Queue'
    BY <1>4 DEF EnqueueFails, Queue
  <2>3. QED
    BY <1>4, <2>1, <2>2, SettingsSpent, EffectsKept, Marked, PostCounted, PartsAfter
    DEF EnqueueFails
<1>5. QED
  BY <1>1, <1>2, <1>3, <1>4 DEF Gateway

LEMMA TypesDispatch == ASSUME TypeInv, NEW m \in Messages, Dispatch(m) PROVE TypeInv'
<1> USE DEF TypeInv
<1>1. Work'
  BY OneMessage, Started DEF Dispatch, Callers
<1>2. Queue'
  BY DEF Dispatch, Queue
<1>3. QED
  BY <1>1, <1>2, SettingsKept, EffectsKept, MemoryKept, PartsAfter DEF Dispatch, Posts

LEMMA TypesAttempt == ASSUME TypeInv, NEW w \in Workers, AttemptTimesOut(w) PROVE TypeInv'
<1> USE DEF TypeInv
<1> DEFINE x == [work[w] EXCEPT !.via = "nobody"]
<1> DEFINE m == work[w].batch[1]
<1>1. x \in Worker /\ Busy(x)
  BY DEF Work, Worker, Busy, Callers
<1>2. work' = [work EXCEPT ![w] = x] /\ queue' = [queue EXCEPT ![m] = @ + 1]
  BY DEF AttemptTimesOut
<1> HIDE DEF x
<1>3. Work'
  BY <1>1, <1>2, OneWorker
<1> HIDE DEF m
<1>4. Queue'
  BY <1>2, OneMore DEF Queue
<1>5. QED
  BY <1>3, <1>4, SettingsSpent, EffectsKept, MemoryKept, PartsAfter DEF AttemptTimesOut, Posts

\* An action that only moves a worker on, and may spend the budget.
LEMMA Moved ==
  ASSUME TypeInv, NEW w \in Workers, work[w].at # "idle", NEW stage \in Stages \ {"idle"},
         GoTo(w, stage), Settings', UNCHANGED <<posts, memory, queue, effects, acked>>
  PROVE  TypeInv'
<1>1. Work'
  BY Gone DEF TypeInv
<1>2. QED
  BY <1>1, EffectsKept, MemoryKept, PartsAfter DEF TypeInv, Posts, Queue

LEMMA ConfigRead == ASSUME Settings, UNCHANGED settings, NEW c, Reads(c) PROVE Settings'
BY SettingsKept, SettingsSpent DEF Reads

\* The instance, and the lead of the sender.
LEMMA TypesLead ==
  ASSUME TypeInv, NEW w \in Workers,
         Lookup(w) \/ Ignore(w) \/ FindLead(w) \/ NoLead(w) \/ CreateLead(w) \/ SkipMessage(w)
  PROVE  TypeInv'
<1>1. {"search", "route", "create"} \subseteq Stages \ {"idle"}
  BY DEF Stages
<1>2. CASE FindLead(w)
  BY <1>1, <1>2, SettingsKept, Moved DEF FindLead, TypeInv
<1>3. CASE NoLead(w)
  <2>1. Settings'
    BY <1>3, SettingsKept, SettingsSpent DEF NoLead, TypeInv
  <2>2. QED
    BY <1>1, <1>3, <2>1, Moved DEF NoLead
<1>4. CASE CreateLead(w)
  <2>1. work[w].at # "idle" /\ GoTo(w, "route")
    BY <1>4 DEF CreateLead
  <2>2. Work'
    BY <1>1, <2>1, Gone DEF TypeInv
  <2>3. Leads'
    BY <1>4, <2>1, ChatKnown DEF CreateLead, TypeInv, Leads
  <2>4. QED
    BY <1>4, <2>2, <2>3, SettingsKept, MemoryKept, PartsAfter
    DEF CreateLead, TypeInv, Posts, Queue, History, Answers
<1>5. CASE SkipMessage(w)
  <2>1. work[w].at # "idle" /\ work' = [work EXCEPT ![w] = Idle]
    BY <1>5 DEF SkipMessage
  <2>2. Work' /\ Answers'
    BY <1>5, <2>1, IdleWorker, OneWorker, Dropped DEF TypeInv, SkipMessage
  <2>3. QED
    BY <1>5, <2>2, SettingsSpent, MemoryKept, PartsAfter
    DEF SkipMessage, TypeInv, Posts, Queue, Leads, History
<1>6. CASE Lookup(w)
  BY <1>1, <1>6, SettingsKept, Moved DEF Lookup, TypeInv
<1>7. CASE Ignore(w)
  <2>1. work[w].at # "idle" /\ work' = [work EXCEPT ![w] = Idle]
    BY <1>7 DEF Ignore
  <2>2. Work' /\ Answers'
    BY <1>7, <2>1, IdleWorker, OneWorker, Dropped DEF TypeInv, Ignore
  <2>3. QED
    BY <1>7, <2>2, SettingsKept, MemoryKept, PartsAfter
    DEF Ignore, TypeInv, Posts, Queue, Leads, History
<1>8. QED
  BY <1>2, <1>3, <1>4, <1>5, <1>6, <1>7

\* Where the message goes.
LEMMA TypesRoute ==
  ASSUME TypeInv, NEW w \in Workers,
         RouteOwn(w) \/ RouteOff(w) \/ RouteBuffer(w) \/ RouteAsk(w)
  PROVE  TypeInv'
<1>1. {"store", "ask"} \subseteq Stages \ {"idle"}
  BY DEF Stages
<1>2. CASE RouteOwn(w)
  BY <1>1, <1>2, SettingsKept, Moved DEF RouteOwn, TypeInv
<1>3. CASE RouteOff(w)
  BY <1>1, <1>3, ConfigRead, Moved DEF RouteOff, TypeInv
<1>4. CASE RouteAsk(w)
  <2>1. Settings'
    BY <1>4, ConfigRead DEF RouteAsk, TypeInv
  <2>2. QED
    BY <1>1, <1>4, <2>1, Moved DEF RouteAsk
<1>5. CASE RouteBuffer(w)
  <2> DEFINE p == ChatOf(w)
  <2>1. /\ work[w].at # "idle" /\ GoTo(w, "store")
        /\ buffer' = [buffer EXCEPT ![p] = @ \o work[w].batch] /\ Restart(p)
    BY <1>5 DEF RouteBuffer
  <2>2. p \in Phones /\ work[w].batch \in Seq(Messages)
    BY <2>1, ChatKnown, FirstMessage DEF TypeInv
  <2> HIDE DEF p
  <2>3. buffer[p] \o work[w].batch \in Seq(Messages) /\ timers[p] \in Nat
    BY <2>2 DEF TypeInv, Buffers
  <2>4. buffer' \in [Phones -> Seq(Messages)]
    BY <2>1, <2>3 DEF TypeInv, Buffers
  <2>5. timers' \in [Phones -> Nat]
    <3>1. timers' = [timers EXCEPT ![p] = @ + 1] \/ timers' = timers
      BY <2>1 DEF Restart
    <3>2. timers \in [Phones -> Nat] /\ timers[p] + 1 \in Nat
      BY <2>3 DEF TypeInv, Buffers
    <3>3. QED
      BY <3>1, <3>2
  <2>6. Buffers'
    BY <1>5, <2>4, <2>5 DEF RouteBuffer, TypeInv, Buffers
  <2>7. Work'
    BY <1>1, <2>1, Gone DEF TypeInv
  <2>8. QED
    BY <1>5, <2>6, <2>7, ConfigRead, EffectsKept, PartsAfter
    DEF RouteBuffer, TypeInv, Posts, Queue
<1>6. QED
  BY <1>2, <1>3, <1>4, <1>5

\* A message stored, or asked about and answered.
LEMMA TypesEnd ==
  ASSUME TypeInv, NEW w \in Workers,
         \/ Store(w) \/ StoreFails(w) \/ Ask(w) \/ AskFails(w) \/ Reply(w) \/ ReplyFails(w)
  PROVE  TypeInv'
<1> DEFINE m == work[w].batch[1]
<1>1. work[w].at # "idle" /\ work[w].batch \in Seq(Messages) /\ m \in Messages
  <2>1. work[w].at # "idle"
    BY DEF Store, StoreFails, Ask, AskFails, Reply, ReplyFails
  <2>2. QED
    BY <2>1, FirstMessage DEF TypeInv
<1>2. /\ stored \in [Messages -> Nat] /\ asked \in [Messages -> Nat] /\ sent \in [Messages -> Nat]
      /\ Count(stored, work[w].batch) \in [Messages -> Nat]
      /\ Count(asked, work[w].batch) \in [Messages -> Nat]
  BY <1>1, Counted DEF TypeInv, History
<1>3. [sent EXCEPT ![m] = @ + 1] \in [Messages -> Nat]
  BY <1>2, OneMore
<1> HIDE DEF m
<1>4. CASE Store(w)
  <2>1. Work' /\ Queue' /\ Answers'
    BY <1>1, <1>4, Finished DEF Store
  <2>2. QED
    BY <1>2, <1>4, <2>1, SettingsKept, MemoryKept, PartsAfter
    DEF Store, TypeInv, Posts, Leads, History
<1>5. CASE StoreFails(w)
  <2>1. Work' /\ Queue' /\ Answers'
    BY <1>1, <1>5, Finished DEF StoreFails
  <2>2. History'
    BY <1>2, <1>5 DEF StoreFails, History
  <2>3. QED
    BY <1>5, <2>1, <2>2, SettingsSpent, MemoryKept, PartsAfter
    DEF StoreFails, TypeInv, Posts, Leads
<1>6. CASE Ask(w)
  <2>1. Work'
    BY <1>1, <1>6, Gone DEF Ask, TypeInv, Stages
  <2>2. QED
    BY <1>2, <1>6, <2>1, SettingsKept, MemoryKept, PartsAfter
    DEF Ask, TypeInv, Posts, Queue, Leads, History, Answers
<1>7. CASE AskFails(w)
  <2>1. Work' /\ Answers'
    BY <1>1, <1>7, IdleWorker, OneWorker, Dropped DEF AskFails, TypeInv
  <2>2. History'
    BY <1>2, <1>7 DEF AskFails, History
  <2>3. QED
    BY <1>7, <2>1, <2>2, SettingsSpent, MemoryKept, PartsAfter
    DEF AskFails, TypeInv, Posts, Queue, Leads
<1>8. CASE Reply(w)
  <2>1. Work' /\ Queue' /\ Answers'
    BY <1>1, <1>8, Finished DEF Reply
  <2>2. sent' = [sent EXCEPT ![m] = @ + 1]
    BY <1>8 DEF Reply, m
  <2>3. QED
    BY <1>2, <1>3, <1>8, <2>1, <2>2, SettingsKept, MemoryKept, PartsAfter
    DEF Reply, TypeInv, Posts, Leads, History
<1>9. CASE ReplyFails(w)
  <2>1. Work' /\ Queue' /\ Answers'
    <3>1. CASE work[w].tries < 2
      <4> DEFINE x == [work[w] EXCEPT !.tries = @ + 1]
      <4>1. x \in Worker /\ Busy(x)
        BY <3>1 DEF TypeInv, Work, Worker, Busy
      <4>2. work' = [work EXCEPT ![w] = x] /\ UNCHANGED <<queue, acked, dropped>>
        BY <1>9, <3>1 DEF ReplyFails
      <4> HIDE DEF x
      <4>3. QED
        BY <4>1, <4>2, OneWorker DEF TypeInv, Queue, Answers
    <3>2. CASE ~(work[w].tries < 2)
      <4>1. Finish(w, TRUE) /\ dropped' = dropped
        BY <1>9, <3>2 DEF ReplyFails
      <4>2. QED
        BY <1>1, <4>1, Finished
    <3>3. QED
      BY <3>1, <3>2
  <2>2. sent' \in {sent, [sent EXCEPT ![m] = @ + 1]}
    BY <1>9 DEF ReplyFails, m
  <2>3. History'
    BY <1>2, <1>3, <1>9, <2>2 DEF ReplyFails, History
  <2>4. QED
    BY <1>9, <2>1, <2>3, SettingsSpent, MemoryKept, PartsAfter
    DEF ReplyFails, TypeInv, Posts, Leads
<1>10. QED
  BY <1>4, <1>5, <1>6, <1>7, <1>8, <1>9

\* The timer.
LEMMA TypesFire == ASSUME TypeInv, NEW p \in Phones, Fire(p) PROVE TypeInv'
<1>1. timers[p] \in Nat \ {0} /\ buffer[p] \in Seq(Messages)
  BY DEF Fire, TypeInv, Buffers
<1>2. Buffers'
  <2>1. timers[p] - 1 \in Nat /\ <<>> \in Seq(Messages)
    BY <1>1
  <2>2. QED
    BY <2>1 DEF Fire, TypeInv, Buffers
<1>3. Work'
  <2>1. CASE buffer[p] = <<>>
    BY <2>1 DEF Fire, TypeInv, Work
  <2>2. CASE buffer[p] # <<>>
    BY <1>1, <2>2, Started DEF Fire, TypeInv, Callers
  <2>3. QED
    BY <2>1, <2>2
<1>4. QED
  BY <1>2, <1>3, SettingsKept, EffectsKept, PartsAfter DEF Fire, TypeInv, Posts, Queue

\* What was cut off is counted.
LEMMA Cut ==
  ASSUME NEW m
  PROVE  /\ Cardinality({ w \in Workers : work[w].via = "task" /\ work[w].batch = <<m>> }) \in Nat
         /\ \A w \in Workers : work[w].via = "task" /\ work[w].batch = <<m>> =>
              Cardinality({ v \in Workers : work[v].via = "task" /\ work[v].batch = <<m>> }) > 0
<1> DEFINE S == { w \in Workers : work[w].via = "task" /\ work[w].batch = <<m>> }
<1>1. IsFiniteSet(S)
  <2>1. S \subseteq Workers
    OBVIOUS
  <2>2. QED
    BY <2>1, SettingsAssumption, FS_Subset
<1>2. Cardinality(S) \in Nat /\ (Cardinality(S) = 0 <=> S = {})
  BY <1>1, FS_CardinalityType, FS_EmptySet
<1>3. \A w \in Workers : work[w].via = "task" /\ work[w].batch = <<m>> => S # {}
  OBVIOUS
<1> HIDE DEF S
<1>4. \A w \in Workers : work[w].via = "task" /\ work[w].batch = <<m>> => Cardinality(S) > 0
  BY <1>2, <1>3
<1>5. QED
  BY <1>2, <1>4 DEF S

LEMMA TypesCrash == ASSUME TypeInv, Crash PROVE TypeInv'
<1>1. Buffers'
  <2>1. seen' = {} /\ buffer' = [p \in Phones |-> <<>>] /\ timers' = [p \in Phones |-> 0]
    BY DEF Crash
  <2>2. <<>> \in Seq(Messages)
    OBVIOUS
  <2>3. QED
    BY <2>1, <2>2 DEF Buffers
<1>2. Work'
  BY IdleWorker DEF Crash, Work
<1>3. Queue'
  <2> DEFINE cut(m) == Cardinality({ w \in Workers : work[w].via = "task" /\ work[w].batch = <<m>> })
  <2>1. \A m \in Messages : queue[m] \in Nat /\ cut(m) \in Nat
    BY Cut DEF TypeInv, Queue
  <2>2. queue' = [m \in Messages |-> queue[m] + cut(m)]
    BY DEF Crash
  <2> HIDE DEF cut
  <2>3. QED
    BY <2>1, <2>2 DEF Queue
<1>4. QED
  BY <1>1, <1>2, <1>3, SettingsSpent, EffectsKept, PartsAfter DEF Crash, TypeInv, Posts

LEMMA TypesWorld ==
  ASSUME TypeInv,
         \/ \E c \in Configs : Configure(c)
         \/ Deactivate \/ Register
         \/ \E k \in Messages \cup Phones : Expire(k)
  PROVE  TypeInv'
<1>1. ASSUME NEW c \in Configs, Configure(c) PROVE TypeInv'
  <2>1. budget' \in 0 .. MaxFaults[plan] /\ plan' = plan
    BY <1>1, Spent DEF Configure, TypeInv
  <2>2. Settings'
    BY <1>1, <2>1 DEF Configure, TypeInv, Settings
  <2>3. QED
    BY <1>1, <2>2, EffectsKept, MemoryKept, PartsAfter DEF Configure, TypeInv, Posts, Queue, Work
<1>2. ASSUME NEW k, Expire(k) PROVE TypeInv'
  <2>1. Buffers'
    BY <1>2 DEF Expire, TypeInv, Buffers
  <2>2. QED
    BY <1>2, <2>1, SettingsSpent, EffectsKept, PartsAfter DEF Expire, TypeInv, Posts, Queue, Work
<1>3. CASE Deactivate \/ Register
  <2>1. budget' \in 0 .. MaxFaults[plan]
    BY <1>3, Spent DEF Deactivate, Register, TypeInv, Settings
  <2>2. Settings'
    BY <1>3, <2>1 DEF Deactivate, Register, TypeInv, Settings
  <2>3. QED
    BY <1>3, <2>2, EffectsKept, MemoryKept, PartsAfter
    DEF Deactivate, Register, TypeInv, Posts, Queue, Work
<1>4. QED
  BY <1>1, <1>2, <1>3

\* One step of a worker.
LEMMA TypesStep == ASSUME TypeInv, NEW w \in Workers, Step(w) PROVE TypeInv'
BY TypesLead, TypesRoute, TypesEnd DEF Step

LEMMA TypesNext == ASSUME TypeInv, [Next]_vars PROVE TypeInv'
<1>1. CASE Next
  BY <1>1, TypesGateway, TypesDispatch, TypesStep, TypesAttempt, TypesFire, TypesWorld, TypesCrash
  DEF Next
<1>2. CASE UNCHANGED vars
  BY <1>2, SettingsKept, EffectsKept, MemoryKept, PartsAfter DEF vars, TypeInv, Posts, Queue, Work
<1>3. QED
  BY <1>1, <1>2

LEMMA TypesStart == Init => TypeInv
<1> SUFFICES ASSUME Init PROVE TypeInv
  OBVIOUS
<1>1. Settings /\ Posts
  BY SettingsAssumption DEF Init, Settings, Posts
<1>2. Buffers
  <2>1. buffer = [p \in Phones |-> <<>>] /\ timers = [p \in Phones |-> 0] /\ seen = {}
    BY DEF Init
  <2>2. <<>> \in Seq(Messages)
    OBVIOUS
  <2>3. QED
    BY <2>1, <2>2 DEF Buffers
<1>3. Work
  BY IdleWorker DEF Init, Work
<1>4. Queue /\ Leads /\ History /\ Answers
  BY DEF Init, Queue, Leads, History, Answers
<1>5. QED
  BY <1>1, <1>2, <1>3, <1>4 DEF TypeInv

\* Every part of the state keeps to its type, a busy worker has a batch, and
\* an attempt of Cloud Tasks works on one message.
THEOREM TypesCorrect == Spec => []TypeInv
<1>1. TypeInv /\ [Next]_vars => TypeInv'
  BY TypesNext
<1>2. QED
  BY TypesStart, <1>1, PTL DEF Spec

\* The type invariant of the model.
THEOREM TypeCorrect == Spec => []TypeOK
<1>1. TypeInv => TypeOK
  BY TypeInvOK
<1>2. QED
  BY TypesCorrect, <1>1, PTL

-----------------------------------------------------------------------------
(* One timer for each buffer.                                              *)

\* Only three actions touch buffers and timers.
LEMMA TimersLeft ==
  ASSUME Next,
         ~ \E w \in Workers : RouteBuffer(w),
         ~ \E p \in Phones : Fire(p),
         ~Crash
  PROVE  UNCHANGED <<buffer, timers>>
<1>1. ASSUME NEW m \in Messages, Gateway(m) PROVE UNCHANGED <<buffer, timers>>
  BY <1>1 DEF Gateway, Duplicate, Receive, Enqueue, EnqueueFails, Mark, memory
<1>2. ASSUME NEW m \in Messages, Dispatch(m) PROVE UNCHANGED <<buffer, timers>>
  BY <1>2 DEF Dispatch, memory
<1>3. ASSUME NEW w \in Workers, Step(w) PROVE UNCHANGED <<buffer, timers>>
  BY <1>3 DEF Step, Lookup, Ignore, FindLead, NoLead, CreateLead, SkipMessage, RouteOwn, RouteOff,
              RouteAsk, Store, StoreFails, Ask, AskFails, Reply, ReplyFails, memory
<1>4. ASSUME NEW w \in Workers, AttemptTimesOut(w) PROVE UNCHANGED <<buffer, timers>>
  BY <1>4 DEF AttemptTimesOut, memory
<1>5. ASSUME NEW c \in Configs, Configure(c) PROVE UNCHANGED <<buffer, timers>>
  BY <1>5 DEF Configure, memory
<1>6. ASSUME NEW k \in Messages \cup Phones, Expire(k) PROVE UNCHANGED <<buffer, timers>>
  BY <1>6 DEF Expire
<1>7. ASSUME Deactivate \/ Register PROVE UNCHANGED <<buffer, timers>>
  BY <1>7 DEF Deactivate, Register, memory
<1>8. QED
  BY <1>1, <1>2, <1>3, <1>4, <1>5, <1>6, <1>7 DEF Next

LEMMA TimersNext ==
  ASSUME TypeInv, OneTimerPerBuffer, [Next]_vars PROVE OneTimerPerBuffer'
<1>1. \A p \in Phones : buffer[p] \in Seq(Messages) /\ timers[p] \in Nat
  BY DEF TypeInv, Buffers
<1>2. DOMAIN buffer = Phones /\ DOMAIN timers = Phones
  BY DEF TypeInv, Buffers
<1>3. CASE \E w \in Workers : RouteBuffer(w)
  <2>1. PICK w \in Workers : RouteBuffer(w)
    BY <1>3
  <2> DEFINE q == ChatOf(w)
             b == buffer[q] \o work[w].batch
  <2>2. /\ work[w].at # "idle" /\ buffer' = [buffer EXCEPT ![q] = b] /\ Restart(q)
    BY <2>1 DEF RouteBuffer
  <2>3. q \in Phones /\ work[w].batch \in Seq(Messages) /\ work[w].batch # <<>>
    BY <2>2, ChatKnown, FirstMessage DEF TypeInv
  <2>4. b # <<>>
    BY <1>1, <2>3
  <2> HIDE DEF q, b
  <2>5. timers'[q] = 1
    <3>1. CASE buffer[q] = <<>>
      <4>1. timers[q] = 0
        BY <2>3, <3>1 DEF OneTimerPerBuffer
      <4>2. timers' = [timers EXCEPT ![q] = @ + 1]
        BY <2>2, <3>1 DEF Restart
      <4>3. QED
        BY <1>2, <2>3, <4>1, <4>2
    <3>2. CASE buffer[q] # <<>>
      BY <2>2, <2>3, <3>2 DEF Restart, OneTimerPerBuffer
    <3>3. QED
      BY <3>1, <3>2
  <2>6. \A p \in Phones \ {q} : timers'[p] = timers[p] /\ buffer'[p] = buffer[p]
    BY <1>2, <2>2 DEF Restart
  <2>7. buffer'[q] # <<>>
    BY <1>2, <2>2, <2>3, <2>4
  <2>8. QED
    BY <2>5, <2>6, <2>7 DEF OneTimerPerBuffer
<1>4. CASE \E p \in Phones : Fire(p)
  <2>1. PICK q \in Phones : Fire(q)
    BY <1>4
  <2>2. /\ timers[q] > 0 /\ timers' = [timers EXCEPT ![q] = @ - 1]
        /\ buffer' = [buffer EXCEPT ![q] = <<>>]
    BY <2>1 DEF Fire
  <2>3. timers[q] = 1
    BY <2>2 DEF OneTimerPerBuffer
  <2>4. timers'[q] = 0 /\ buffer'[q] = <<>>
    BY <1>2, <2>2, <2>3
  <2>5. \A p \in Phones \ {q} : timers'[p] = timers[p] /\ buffer'[p] = buffer[p]
    BY <1>2, <2>2
  <2>6. QED
    BY <2>4, <2>5 DEF OneTimerPerBuffer
<1>5. CASE Crash
  BY <1>5 DEF Crash, OneTimerPerBuffer
<1>6. CASE UNCHANGED <<buffer, timers>>
  BY <1>6 DEF OneTimerPerBuffer
<1>7. UNCHANGED vars => UNCHANGED <<buffer, timers>>
  BY DEF vars, memory
<1>8. QED
  BY <1>3, <1>4, <1>5, <1>6, <1>7, TimersLeft

\* The debounce buffer: messages that wait have exactly one timer, whoever
\* adds to them, whichever timer fires and whenever the process restarts.
THEOREM TimersCorrect == Spec => []OneTimerPerBuffer
<1>1. Init => OneTimerPerBuffer
  BY DEF Init, OneTimerPerBuffer
<1>2. TypeInv /\ OneTimerPerBuffer /\ [Next]_vars => OneTimerPerBuffer'
  BY TimersNext
<1>3. QED
  BY TypesCorrect, <1>1, <1>2, PTL DEF Spec

-----------------------------------------------------------------------------
(* What was acknowledged is kept.                                          *)

Covered(m) == stored[m] > 0 \/ InQueue(m) \/ m \in dropped

\* A worker about to send a reply has its messages in the history.
RepliesStored ==
  \A w \in Workers : work[w].at = "reply" =>
    \A i \in DOMAIN work[w].batch : stored[work[w].batch[i]] > 0

KeptInv == RepliesStored /\ AckedIsKept

\* Nothing leaves the history, the queue or the messages given up on.
Grows ==
  /\ \A m \in Messages : stored[m] > 0 => stored'[m] > 0
  /\ \A m \in Messages : queue[m] > 0 => queue'[m] > 0
  /\ dropped \subseteq dropped'

\* A worker's next state.
MovesTo(w, x) == work' = [work EXCEPT ![w] = x]

\* Only the worker that moves can lose a message, and then only its own.
LEMMA CoveredStays ==
  ASSUME TypeInv, Grows, NEW w \in Workers, NEW x, MovesTo(w, x), NEW m \in Messages, Covered(m),
         \/ x.via = work[w].via /\ x.batch = work[w].batch
         \/ work[w].via = "task" /\ work[w].batch = <<m>> =>
              stored'[m] > 0 \/ queue'[m] > 0 \/ m \in dropped'
  PROVE  Covered(m)'
<1>1. CASE stored[m] > 0 \/ queue[m] > 0 \/ m \in dropped
  BY <1>1 DEF Grows, Covered, InQueue
<1>2. CASE \E v \in Workers : work[v].via = "task" /\ work[v].batch = <<m>>
  <2>1. PICK v \in Workers : work[v].via = "task" /\ work[v].batch = <<m>>
    BY <1>2
  <2>2. CASE v # w
    <3>1. work'[v] = work[v]
      BY <2>2 DEF MovesTo, TypeInv, Work
    <3>2. QED
      BY <2>1, <3>1 DEF Covered, InQueue
  <2>3. CASE v = w
    <3>1. work'[w] = x
      BY DEF MovesTo, TypeInv, Work
    <3>2. QED
      BY <2>1, <2>3, <3>1 DEF Covered, InQueue
  <2>4. QED
    BY <2>2, <2>3
<1>3. QED
  BY <1>1, <1>2 DEF Covered, InQueue

LEMMA RepliesStay ==
  ASSUME TypeInv, RepliesStored, Grows, NEW w \in Workers, NEW x, MovesTo(w, x),
         x.at = "reply" =>
           \/ work[w].at = "reply" /\ x.batch = work[w].batch
           \/ \A i \in DOMAIN x.batch : stored'[x.batch[i]] > 0
  PROVE  RepliesStored'
<1>1. \A v \in Workers : work[v].at = "reply" => \A i \in DOMAIN work[v].batch :
        work[v].batch[i] \in Messages /\ stored[work[v].batch[i]] > 0
  <2>1. \A v \in Workers : work[v].batch \in Seq(Messages)
    BY DEF TypeInv, Work, Worker
  <2>2. \A v \in Workers : \A i \in DOMAIN work[v].batch : work[v].batch[i] \in Messages
    BY <2>1
  <2>3. QED
    BY <2>2 DEF RepliesStored
<1>2. \A v \in Workers : work[v].at = "reply" => \A i \in DOMAIN work[v].batch :
        stored'[work[v].batch[i]] > 0
  BY <1>1 DEF Grows
<1>3. work'[w] = x /\ \A v \in Workers \ {w} : work'[v] = work[v]
  BY DEF MovesTo, TypeInv, Work
<1>4. QED
  BY <1>2, <1>3 DEF RepliesStored

\* A worker moves on with its messages.
LEMMA KeptOn ==
  ASSUME TypeInv, KeptInv, Grows, NEW w \in Workers, NEW x, MovesTo(w, x), acked' = acked,
         x.via = work[w].via, x.batch = work[w].batch,
         x.at = "reply" => \/ work[w].at = "reply"
                           \/ \A i \in DOMAIN work[w].batch : stored'[work[w].batch[i]] > 0
  PROVE  KeptInv'
<1>1. \A m \in acked : Covered(m)'
  <2>1. acked \subseteq Messages /\ \A m \in acked : Covered(m)
    BY DEF TypeInv, Answers, KeptInv, AckedIsKept, Covered
  <2>2. QED
    BY <2>1, CoveredStays
<1>2. RepliesStored'
  BY RepliesStay DEF KeptInv
<1>3. QED
  BY <1>1, <1>2 DEF KeptInv, AckedIsKept, Covered, InQueue

\* A free worker starts.
LEMMA KeptStarted ==
  ASSUME TypeInv, KeptInv, Grows, NEW b, NEW via, Start(b, via), acked' = acked
  PROVE  KeptInv'
<1> DEFINE x == [batch |-> b, via |-> via, at |-> "lookup", tries |-> 0]
<1>1. PICK w \in Free : MovesTo(w, x)
  BY DEF Start, MovesTo
<1>2. w \in Workers /\ work[w].at = "idle" /\ work[w].via # "task"
  BY <1>1 DEF Free, TypeInv, Work, Busy
<1>3. x.at # "reply"
  OBVIOUS
<1> HIDE DEF x
<1>4. \A m \in acked : Covered(m)'
  <2>1. acked \subseteq Messages /\ \A m \in acked : Covered(m)
    BY DEF TypeInv, Answers, KeptInv, AckedIsKept, Covered
  <2>2. QED
    BY <1>1, <1>2, <2>1, CoveredStays
<1>5. RepliesStored'
  BY <1>1, <1>2, <1>3, RepliesStay DEF KeptInv
<1>6. QED
  BY <1>4, <1>5 DEF KeptInv, AckedIsKept, Covered, InQueue

\* A worker ends: what it had is stored, given up on or back in the queue.
LEMMA KeptEnded ==
  ASSUME TypeInv, KeptInv, Grows, NEW w \in Workers, MovesTo(w, Idle),
         work[w].via = "task" =>
           LET m == work[w].batch[1] IN stored'[m] > 0 \/ queue'[m] > 0 \/ m \in dropped',
         \A m \in acked' \ acked : stored'[m] > 0 \/ m \in dropped'
  PROVE  KeptInv'
<1>1. \A m \in acked : Covered(m)'
  <2>1. acked \subseteq Messages /\ \A m \in acked : Covered(m)
    BY DEF TypeInv, Answers, KeptInv, AckedIsKept, Covered
  <2>2. \A m : <<m>>[1] = m
    OBVIOUS
  <2>3. ASSUME NEW m \in acked, work[w].via = "task", work[w].batch = <<m>>
        PROVE  stored'[m] > 0 \/ queue'[m] > 0 \/ m \in dropped'
    BY <2>2, <2>3
  <2>4. QED
    BY <2>1, <2>3, CoveredStays
<1>2. RepliesStored'
  BY RepliesStay DEF KeptInv, Idle
<1>3. \A m \in acked' : Covered(m)'
  BY <1>1 DEF Covered
<1>4. QED
  BY <1>2, <1>3 DEF KeptInv, AckedIsKept, Covered, InQueue

\* Storing a batch.
LEMMA BatchStored ==
  ASSUME TypeInv, NEW w \in Workers, work[w].at # "idle"
  PROVE  /\ \A m \in Messages : stored[m] > 0 => Count(stored, work[w].batch)[m] > 0
         /\ \A i \in DOMAIN work[w].batch : Count(stored, work[w].batch)[work[w].batch[i]] > 0
         /\ Count(stored, work[w].batch)[work[w].batch[1]] > 0
<1>1. work[w].batch \in Seq(Messages) /\ 1 \in DOMAIN work[w].batch
  BY FirstMessage DEF TypeInv
<1>2. stored \in [Messages -> Nat]
  BY DEF TypeInv, History
<1> DEFINE g == Count(stored, work[w].batch)
<1>3. /\ g \in [Messages -> Nat] /\ \A m \in Messages : g[m] >= stored[m]
      /\ \A i \in DOMAIN work[w].batch : g[work[w].batch[i]] > 0
  BY <1>1, <1>2, Counted
<1> HIDE DEF g
<1>4. \A m \in Messages : stored[m] > 0 => g[m] > 0
  <2>1. ASSUME NEW m \in Messages, stored[m] > 0 PROVE g[m] > 0
    <3>1. stored[m] \in Nat /\ g[m] \in Nat /\ g[m] >= stored[m]
      BY <1>2, <1>3
    <3>2. QED
      BY <2>1, <3>1
  <2>2. QED
    BY <2>1
<1>5. QED
  BY <1>1, <1>3, <1>4 DEF g

LEMMA QueueGrows ==
  ASSUME Queue, NEW q, queue' = [queue EXCEPT ![q] = @ + 1]
  PROVE  /\ \A m \in Messages : queue[m] > 0 => queue'[m] > 0
         /\ q \in Messages => queue'[q] > 0
<1>1. ASSUME NEW m \in Messages, m = q PROVE queue'[m] > 0
  BY <1>1 DEF Queue
<1>2. \A m \in Messages : m # q => queue'[m] = queue[m]
  BY DEF Queue
<1>3. QED
  BY <1>1, <1>2

\* The end of a worker's run.
LEMMA FinishEnds ==
  ASSUME TypeInv, KeptInv, NEW w \in Workers, work[w].at # "idle", NEW good \in BOOLEAN,
         Finish(w, good), dropped' = dropped,
         \A m \in Messages : stored[m] > 0 => stored'[m] > 0,
         good => stored'[work[w].batch[1]] > 0
  PROVE  KeptInv'
<1> DEFINE q == work[w].batch[1]
<1>1. q \in Messages
  BY FirstMessage DEF TypeInv
<1>2. /\ work' = [work EXCEPT ![w] = Idle]
      /\ queue' = IF work[w].via = "task" /\ ~good THEN [queue EXCEPT ![q] = @ + 1] ELSE queue
      /\ acked' = IF work[w].via \in {"gateway", "task"} /\ good THEN acked \cup {q} ELSE acked
  BY DEF Finish
<1>3. /\ \A m \in Messages : queue[m] > 0 => queue'[m] > 0
      /\ work[w].via = "task" /\ ~good => queue'[q] > 0
  <2>1. CASE work[w].via = "task" /\ ~good
    <3>1. queue' = [queue EXCEPT ![q] = @ + 1]
      BY <1>2, <2>1
    <3> HIDE DEF q
    <3>2. QED
      BY <1>1, <2>1, <3>1, QueueGrows DEF TypeInv
  <2>2. CASE ~(work[w].via = "task" /\ ~good)
    BY <1>2, <2>2
  <2>3. QED
    BY <2>1, <2>2
<1>4. Grows
  BY <1>3 DEF Grows
<1>5. work[w].via = "task" => stored'[q] > 0 \/ queue'[q] > 0 \/ q \in dropped'
  BY <1>3
<1>6. \A m \in acked' \ acked : stored'[m] > 0
  BY <1>2
<1>7. QED
  BY <1>2, <1>4, <1>5, <1>6, KeptEnded DEF MovesTo

\* The end of a worker that gives up.
LEMMA DropEnds ==
  ASSUME TypeInv, KeptInv, NEW w \in Workers, work[w].at # "idle",
         MovesTo(w, Idle), Drop(w), queue' = queue,
         \A m \in Messages : stored[m] > 0 => stored'[m] > 0
  PROVE  KeptInv'
<1> DEFINE lost == { work[w].batch[i] : i \in DOMAIN work[w].batch }
<1>1. work[w].batch[1] \in lost
  BY FirstMessage DEF TypeInv
<1>2. /\ dropped' = dropped \cup lost
      /\ acked' = IF work[w].via \in {"gateway", "task"} THEN acked \cup lost ELSE acked
  BY DEF Drop
<1> HIDE DEF lost
<1>3. Grows
  BY <1>2 DEF Grows
<1>4. \A m \in acked' \ acked : m \in dropped'
  BY <1>2
<1>5. QED
  BY <1>1, <1>2, <1>3, <1>4, KeptEnded

LEMMA KeptGateway ==
  ASSUME TypeInv, KeptInv, NEW m \in Messages, Gateway(m) PROVE KeptInv'
<1>1. CASE Duplicate(m)
  BY <1>1 DEF Duplicate, effects, KeptInv, RepliesStored, AckedIsKept, InQueue
<1>2. CASE Receive(m)
  <2>1. Grows
    BY <1>2 DEF Receive, effects, Grows
  <2>2. QED
    BY <1>2, <2>1, KeptStarted DEF Receive
<1>3. CASE Enqueue(m)
  <2>1. queue' = [queue EXCEPT ![m] = @ + 1] /\ acked' = acked \cup {m}
        /\ UNCHANGED <<work, stored, dropped>>
    BY <1>3 DEF Enqueue, effects
  <2>2. /\ \A n \in Messages : queue[n] > 0 => queue'[n] > 0
        /\ queue'[m] > 0
    BY <2>1, QueueGrows DEF TypeInv
  <2>3. acked \subseteq Messages
    BY DEF TypeInv, Answers
  <2>4. QED
    BY <2>1, <2>2, <2>3 DEF KeptInv, RepliesStored, AckedIsKept, InQueue
<1>4. CASE EnqueueFails(m)
  <2>1. Grows
    <3>1. \A n \in Messages : queue[n] > 0 => queue'[n] > 0
      BY <1>4, QueueGrows DEF EnqueueFails, TypeInv
    <3>2. QED
      BY <1>4, <3>1 DEF EnqueueFails, effects, Grows
  <2>2. QED
    BY <1>4, <2>1, KeptStarted DEF EnqueueFails
<1>5. QED
  BY <1>1, <1>2, <1>3, <1>4 DEF Gateway

\* Cloud Tasks hands a message over: the queue loses it, a worker has it.
LEMMA KeptDispatch == ASSUME TypeInv, KeptInv, NEW m \in Messages, Dispatch(m) PROVE KeptInv'
<1> DEFINE x == [batch |-> <<m>>, via |-> "task", at |-> "lookup", tries |-> 0]
<1>1. /\ queue' = [queue EXCEPT ![m] = @ - 1] /\ acked' = acked
      /\ stored' = stored /\ dropped' = dropped
  BY DEF Dispatch, effects
<1>2. PICK w \in Free : work' = [work EXCEPT ![w] = x]
  BY DEF Start, Dispatch
<1>3. w \in Workers /\ work[w].at = "idle" /\ work[w].via # "task" /\ DOMAIN work = Workers
  BY <1>2 DEF Free, TypeInv, Work, Busy
<1>4. x.via = "task" /\ x.batch = <<m>> /\ x.at # "reply"
  OBVIOUS
<1> HIDE DEF x
<1>5. work'[w] = x /\ \A v \in Workers \ {w} : work'[v] = work[v]
  BY <1>2, <1>3
<1>6. \A n \in Messages \ {m} : queue'[n] = queue[n]
  BY <1>1 DEF TypeInv, Queue
<1>7. ASSUME NEW n \in Messages, Covered(n) PROVE Covered(n)'
  <2>1. CASE n = m
    BY <1>3, <1>4, <1>5, <2>1 DEF Covered, InQueue
  <2>2. CASE n # m
    <3>1. queue'[n] = queue[n]
      BY <1>6, <2>2
    <3>2. \A v \in Workers : work[v].via = "task" => v # w
      BY <1>3
    <3>3. QED
      BY <1>1, <1>5, <1>7, <3>1, <3>2 DEF Covered, InQueue
  <2>3. QED
    BY <2>1, <2>2
<1>8. AckedIsKept'
  <2>1. \A n \in acked : n \in Messages /\ Covered(n)
    BY DEF TypeInv, Answers, KeptInv, AckedIsKept, Covered
  <2>2. \A n \in acked' : Covered(n)'
    BY <1>1, <1>7, <2>1
  <2>3. QED
    BY <2>2 DEF AckedIsKept, Covered, InQueue
<1>9. RepliesStored'
  BY <1>1, <1>4, <1>5 DEF KeptInv, RepliesStored
<1>10. QED
  BY <1>8, <1>9 DEF KeptInv

\* An attempt is given up by the tasks service, and repeated.
LEMMA KeptAttempt == ASSUME TypeInv, KeptInv, NEW w \in Workers, AttemptTimesOut(w) PROVE KeptInv'
<1> DEFINE q == work[w].batch[1]
           x == [work[w] EXCEPT !.via = "nobody"]
<1>1. /\ MovesTo(w, x) /\ queue' = [queue EXCEPT ![q] = @ + 1] /\ work[w].via = "task"
      /\ acked' = acked /\ stored' = stored /\ dropped' = dropped
  BY DEF AttemptTimesOut, MovesTo, effects
<1>2. q \in Messages
  <2>1. work[w].at # "idle"
    BY <1>1 DEF TypeInv, Work, Busy
  <2>2. QED
    BY <2>1, FirstMessage DEF TypeInv
<1>3. x.batch = work[w].batch /\ x.at = work[w].at
  BY DEF TypeInv, Work, Worker
<1>4. \A m : <<m>>[1] = m
  OBVIOUS
<1>5. \A m \in Messages : work[w].batch = <<m>> => m = q
  BY <1>4
<1> HIDE DEF q, x
<1>6. (\A m \in Messages : queue[m] > 0 => queue'[m] > 0) /\ queue'[q] > 0
  BY <1>1, <1>2, QueueGrows DEF TypeInv
<1>7. Grows
  BY <1>1, <1>6 DEF Grows
<1>8. \A m \in acked : Covered(m)'
  <2>1. acked \subseteq Messages /\ \A m \in acked : Covered(m)
    BY DEF TypeInv, Answers, KeptInv, AckedIsKept, Covered
  <2>2. QED
    BY <1>1, <1>5, <1>6, <1>7, <2>1, CoveredStays
<1>9. RepliesStored'
  BY <1>1, <1>3, <1>7, RepliesStay DEF KeptInv
<1>10. QED
  BY <1>1, <1>8, <1>9 DEF KeptInv, AckedIsKept, Covered, InQueue

\* The steps of a worker.
LEMMA GoesOn ==
  ASSUME TypeInv, KeptInv, NEW w \in Workers, NEW stage, GoTo(w, stage), stage # "reply",
         UNCHANGED <<queue, stored, dropped, acked>>
  PROVE  KeptInv'
<1> DEFINE x == [work[w] EXCEPT !.at = stage]
<1>1. MovesTo(w, x)
  BY DEF GoTo, MovesTo
<1>2. x.via = work[w].via /\ x.batch = work[w].batch /\ x.at = stage
  BY DEF TypeInv, Work, Worker
<1>3. Grows
  BY DEF Grows
<1> HIDE DEF x
<1>4. QED
  BY <1>1, <1>2, <1>3, KeptOn

LEMMA KeptStep == ASSUME TypeInv, KeptInv, NEW w \in Workers, Step(w) PROVE KeptInv'
<1>1. CASE \/ Lookup(w) \/ FindLead(w) \/ NoLead(w) \/ CreateLead(w)
           \/ RouteOwn(w) \/ RouteOff(w) \/ RouteBuffer(w) \/ RouteAsk(w)
  BY <1>1, GoesOn
  DEF Lookup, FindLead, NoLead, CreateLead, RouteOwn, RouteOff, RouteBuffer, RouteAsk, effects
<1>2. CASE Ignore(w) \/ SkipMessage(w)
  BY <1>2, DropEnds DEF Ignore, SkipMessage, MovesTo
<1>3. CASE Store(w)
  <2>1. work[w].at # "idle" /\ Finish(w, TRUE) /\ dropped' = dropped
        /\ stored' = Count(stored, work[w].batch)
    BY <1>3 DEF Store
  <2>2. QED
    BY <2>1, BatchStored, FinishEnds
<1>4. CASE StoreFails(w)
  <2>1. work[w].at # "idle" /\ Finish(w, FALSE) /\ dropped' = dropped
        /\ stored' \in {stored, Count(stored, work[w].batch)}
    BY <1>4 DEF StoreFails
  <2>2. \A m \in Messages : stored[m] > 0 => stored'[m] > 0
    BY <2>1, BatchStored
  <2>3. QED
    BY <2>1, <2>2, FinishEnds
<1>5. CASE Ask(w)
  <2> DEFINE x == [work[w] EXCEPT !.at = "reply"]
  <2>1. /\ work[w].at # "idle" /\ MovesTo(w, x) /\ stored' = Count(stored, work[w].batch)
        /\ UNCHANGED <<queue, dropped, acked>>
    BY <1>5 DEF Ask, GoTo, MovesTo
  <2>2. x.via = work[w].via /\ x.batch = work[w].batch
    BY DEF TypeInv, Work, Worker
  <2> HIDE DEF x
  <2>3. Grows
    BY <2>1, BatchStored DEF Grows
  <2>4. \A i \in DOMAIN work[w].batch : stored'[work[w].batch[i]] > 0
    BY <2>1, BatchStored
  <2>5. QED
    BY <2>1, <2>2, <2>3, <2>4, KeptOn
<1>6. CASE AskFails(w)
  <2>1. /\ work[w].at # "idle" /\ MovesTo(w, Idle) /\ Drop(w) /\ queue' = queue
        /\ stored' \in {stored, Count(stored, work[w].batch)}
    BY <1>6 DEF AskFails, MovesTo
  <2>2. \A m \in Messages : stored[m] > 0 => stored'[m] > 0
    BY <2>1, BatchStored
  <2>3. QED
    BY <2>1, <2>2, DropEnds
<1>7. work[w].at = "reply" => stored[work[w].batch[1]] > 0
  BY FirstMessage DEF TypeInv, KeptInv, RepliesStored
<1>8. CASE Reply(w)
  BY <1>7, <1>8, FinishEnds DEF Reply
<1>9. CASE ReplyFails(w)
  <2>1. work[w].at = "reply" /\ stored' = stored /\ dropped' = dropped
    BY <1>9 DEF ReplyFails
  <2>2. CASE work[w].tries < 2
    <3> DEFINE x == [work[w] EXCEPT !.tries = @ + 1]
    <3>1. MovesTo(w, x) /\ UNCHANGED <<queue, acked>>
      BY <1>9, <2>2 DEF ReplyFails, MovesTo
    <3>2. x.via = work[w].via /\ x.batch = work[w].batch
      BY DEF TypeInv, Work, Worker
    <3> HIDE DEF x
    <3>3. Grows
      BY <2>1, <3>1 DEF Grows
    <3>4. QED
      BY <2>1, <3>1, <3>2, <3>3, KeptOn
  <2>3. CASE ~(work[w].tries < 2)
    <3>1. Finish(w, TRUE)
      BY <1>9, <2>3 DEF ReplyFails
    <3>2. QED
      BY <1>7, <2>1, <3>1, FinishEnds
  <2>4. QED
    BY <2>2, <2>3
<1>10. QED
  BY <1>1, <1>2, <1>3, <1>4, <1>5, <1>6, <1>8, <1>9 DEF Step

LEMMA KeptFire == ASSUME TypeInv, KeptInv, NEW p \in Phones, Fire(p) PROVE KeptInv'
<1>1. UNCHANGED <<queue, stored, dropped, acked>>
  BY DEF Fire, effects
<1>2. Grows
  BY <1>1 DEF Grows
<1>3. CASE buffer[p] = <<>>
  <2>1. UNCHANGED work
    BY <1>3 DEF Fire
  <2>2. QED
    BY <1>1, <2>1 DEF KeptInv, RepliesStored, AckedIsKept, InQueue
<1>4. CASE buffer[p] # <<>>
  <2>1. Start(buffer[p], "timer")
    BY <1>4 DEF Fire
  <2>2. QED
    BY <1>1, <1>2, <2>1, KeptStarted
<1>5. QED
  BY <1>3, <1>4

\* The process restarts: Cloud Tasks repeats what it cut off.
LEMMA KeptCrash == ASSUME TypeInv, KeptInv, Crash PROVE KeptInv'
<1> DEFINE cut(m) == Cardinality({ w \in Workers : work[w].via = "task" /\ work[w].batch = <<m>> })
<1>1. /\ queue' = [m \in Messages |-> queue[m] + cut(m)] /\ work' = [w \in Workers |-> Idle]
      /\ UNCHANGED <<stored, dropped, acked>>
  BY DEF Crash, effects
<1>2. \A m \in Messages : /\ queue[m] \in Nat /\ cut(m) \in Nat
                          /\ \A w \in Workers :
                               work[w].via = "task" /\ work[w].batch = <<m>> => cut(m) > 0
  BY Cut DEF TypeInv, Queue
<1> HIDE DEF cut
<1>3. \A m \in Messages : InQueue(m) => queue'[m] > 0
  <2>1. ASSUME NEW m \in Messages, InQueue(m) PROVE queue'[m] > 0
    <3>1. queue[m] > 0 \/ cut(m) > 0
      BY <1>2, <2>1 DEF InQueue
    <3>2. QED
      BY <1>1, <1>2, <3>1
  <2>2. QED
    BY <2>1
<1>4. \A m \in acked : m \in Messages
  BY DEF TypeInv, Answers
<1>5. AckedIsKept'
  BY <1>1, <1>3, <1>4 DEF KeptInv, AckedIsKept, InQueue
<1>6. RepliesStored'
  BY <1>1 DEF RepliesStored, Idle
<1>7. QED
  BY <1>5, <1>6 DEF KeptInv

LEMMA KeptNext == ASSUME TypeInv, KeptInv, [Next]_vars PROVE KeptInv'
<1>1. ASSUME UNCHANGED <<queue, work, stored, dropped, acked>> PROVE KeptInv'
  BY <1>1 DEF KeptInv, RepliesStored, AckedIsKept, InQueue
<1>2. ASSUME NEW c \in Configs, Configure(c) PROVE KeptInv'
  BY <1>1, <1>2 DEF Configure, effects
<1>3. ASSUME NEW k \in Messages \cup Phones, Expire(k) PROVE KeptInv'
  BY <1>1, <1>3 DEF Expire, effects
<1>4. CASE UNCHANGED vars
  BY <1>1, <1>4 DEF vars, effects
<1>5. CASE Next
  <2>1. CASE Deactivate \/ Register
    BY <1>1, <2>1 DEF Deactivate, Register, effects
  <2>2. QED
    BY <1>2, <1>3, <1>5, <2>1, KeptGateway, KeptDispatch, KeptStep, KeptAttempt, KeptFire, KeptCrash
    DEF Next
<1>6. QED
  BY <1>4, <1>5

\* The webhook and Cloud Tasks: a message answered with 200 is in the history,
\* or Cloud Tasks still has it, or it was given up on; whatever fails and
\* whenever canales restarts.
THEOREM KeptCorrect == Spec => []AckedIsKept
<1>1. Init => KeptInv
  BY DEF Init, KeptInv, RepliesStored, AckedIsKept, Idle
<1>2. TypeInv /\ KeptInv /\ [Next]_vars => KeptInv'
  BY KeptNext
<1>3. KeptInv => AckedIsKept
  BY DEF KeptInv
<1>4. QED
  BY TypesCorrect, <1>1, <1>2, <1>3, PTL DEF Spec

-----------------------------------------------------------------------------
(* Asked and answered once.                                                *)

Calm == plan \cap Redelivers = {}

\* How often a place is filled: at most once; and who is not there.
Bounds ==
  /\ \A m \in Messages : queue[m] <= 1 /\ asked[m] <= 1
  /\ mode = "sync" => (\A m \in Messages : queue[m] = 0) /\ \A w \in Workers : work[w].via # "task"

Once == OnePerKey(Places) /\ (\A x \in Places : Key(x.msg) \in seen) /\ Bounds

LEMMA PlacesInvIs == PlacesInv <=> (Calm => Once)
BY DEF PlacesInv, Calm, Once, Bounds

LEMMA StillCalm == ASSUME UNCHANGED <<mode, kind, plan>> PROVE Calm' <=> Calm
BY DEF Calm, Redelivers

LEMMA SettingsStay == ASSUME [Next]_vars PROVE UNCHANGED <<mode, kind, plan>>
<1>1. ASSUME NEW m \in Messages, Gateway(m) \/ Dispatch(m) PROVE UNCHANGED <<mode, kind, plan>>
  BY <1>1 DEF Gateway, Duplicate, Receive, Enqueue, EnqueueFails, Dispatch, settings
<1>2. ASSUME NEW w \in Workers, Step(w) \/ AttemptTimesOut(w) PROVE UNCHANGED <<mode, kind, plan>>
  BY <1>2 DEF Step, Lookup, Ignore, FindLead, NoLead, CreateLead, SkipMessage, RouteOwn, RouteOff,
              RouteBuffer, RouteAsk, Store, StoreFails, Ask, AskFails, Reply, ReplyFails, AttemptTimesOut, settings
<1>3. QED
  BY <1>1, <1>2 DEF Next, Fire, Configure, Deactivate, Register, Expire, Crash, vars, settings

\* What is in the places moves.
LEMMA PlacesMove ==
  ASSUME Once, UNCHANGED <<mode, kind, plan>>, seen \subseteq seen', Bounds', NEW F,
         \A y \in Places' : \E x \in Places : y = F[x] /\ y.msg = x.msg
  PROVE  Once'
<1>1. OnePerKey(Places)'
  <2>1. \A x, y \in Places' : Key(x.msg)' = Key(y.msg)' => x = y
    BY DEF Once, OnePerKey, Key
  <2>2. QED
    BY <2>1 DEF OnePerKey, Key
<1>2. \A x \in Places' : Key(x.msg)' \in seen'
  BY DEF Once, Key
<1>3. QED
  BY <1>1, <1>2 DEF Once

LEMMA PlacesLeft ==
  ASSUME Once, UNCHANGED <<mode, kind, plan>>, seen \subseteq seen', Bounds', Places' \subseteq Places
  PROVE  Once'
<1> DEFINE F == [x \in Places |-> x]
<1>1. \A y \in Places' : \E x \in Places : y = F[x] /\ y.msg = x.msg
  OBVIOUS
<1> HIDE DEF F
<1>2. QED
  BY <1>1, PlacesMove

\* A message is marked and put into one place.
LEMMA PlacesGrow ==
  ASSUME Once, UNCHANGED <<mode, kind, plan>>, NEW m, Key(m) \notin seen, seen' = seen \cup {Key(m)},
         Bounds', NEW z, z.msg = m, Places' \subseteq Places \cup {z}
  PROVE  Once'
<1>1. \A x, y \in Places' : Key(x.msg)' = Key(y.msg)' => x = y
  BY DEF Once, OnePerKey, Key
<1>2. \A x \in Places' : Key(x.msg)' \in seen'
  BY DEF Once, Key
<1>3. QED
  BY <1>1, <1>2 DEF Once, OnePerKey, Key

\* The workers hold what they held, or less.
Keeps(w) ==
  /\ AtWork(w)' => AtWork(w) /\ work'[w].batch = work[w].batch
  /\ work'[w].via = "task" => work[w].via = "task"

LEMMA WorkingLeft == ASSUME \A w \in Workers : Keeps(w) PROVE Working' \subseteq Working
BY DEF Working, Keeps

LEMMA PlacesKept ==
  ASSUME Once, UNCHANGED <<mode, kind, plan, queue, buffer, asked>>, seen \subseteq seen',
         \A w \in Workers : Keeps(w)
  PROVE  Once'
<1>1. Places' \subseteq Places
  <2>1. Queued' = Queued /\ Buffered' = Buffered /\ Asked' = Asked
    BY DEF Queued, Buffered, Asked
  <2>2. QED
    BY <2>1, WorkingLeft DEF Places
<1>2. Bounds'
  BY DEF Once, Bounds, Keeps
<1>3. QED
  BY <1>1, <1>2, PlacesLeft

\* A worker that starts has the messages it was given.
LEMMA WorkingStarted ==
  ASSUME Work, NEW b \in Seq(Messages), NEW via, Start(b, via)
  PROVE  \E w \in Workers :
           /\ Working' \subseteq Working \cup { Place("work", w, i, b[i]) : i \in DOMAIN b }
           /\ \A v \in Workers : work'[v].via = "task" => work[v].via = "task" \/ via = "task"
           /\ \A v \in Workers : work'[v].at = "reply" =>
                work[v].at = "reply" /\ work'[v].batch = work[v].batch
<1> DEFINE x == [batch |-> b, via |-> via, at |-> "lookup", tries |-> 0]
<1>1. PICK w \in Free : work' = [work EXCEPT ![w] = x]
  BY DEF Start
<1>2. /\ w \in Workers /\ work'[w] = x /\ \A v \in Workers \ {w} : work'[v] = work[v]
  BY <1>1 DEF Free, Work
<1>3. x.batch = b /\ x.via = via /\ x.at = "lookup"
  OBVIOUS
<1> HIDE DEF x
<1>4. Working' \subseteq Working \cup { Place("work", w, i, b[i]) : i \in DOMAIN b }
  BY <1>2, <1>3 DEF Working, AtWork
<1>5. QED
  BY <1>2, <1>3, <1>4

LEMMA OneStarted ==
  ASSUME Work, NEW m \in Messages, NEW via, Start(<<m>>, via)
  PROVE  \E w \in Workers :
           /\ Working' \subseteq Working \cup { Place("work", w, 1, m) }
           /\ \A v \in Workers : work'[v].via = "task" => work[v].via = "task" \/ via = "task"
<1> DEFINE b == <<m>>
<1>1. b \in Seq(Messages) /\ DOMAIN b = {1} /\ b[1] = m /\ Start(b, via)
  OBVIOUS
<1> HIDE DEF b
<1>2. PICK w \in Workers :
        /\ Working' \subseteq Working \cup { Place("work", w, i, b[i]) : i \in DOMAIN b }
        /\ \A v \in Workers : work'[v].via = "task" => work[v].via = "task" \/ via = "task"
  BY <1>1, WorkingStarted
<1>3. { Place("work", w, i, b[i]) : i \in DOMAIN b } = { Place("work", w, 1, m) }
  BY <1>1
<1>4. QED
  BY <1>2, <1>3

\* The POSTs: a message whose key is new comes to one worker, or into the queue.
LEMMA OnceGateway ==
  ASSUME TypeInv, Calm, Once, NEW m \in Messages, Gateway(m) PROVE Once'
<1>1. CASE Duplicate(m)
  BY <1>1, PlacesKept DEF Duplicate, Keeps, AtWork, settings, memory, effects
<1>2. CASE Receive(m)
  <2>1. /\ UNCHANGED <<mode, kind, plan, queue, buffer, asked>>
        /\ Key(m) \notin seen /\ seen' = seen \cup {Key(m)} /\ Start(<<m>>, "gateway")
    BY <1>2 DEF Receive, Mark, settings, effects
  <2>2. PICK w \in Workers :
          /\ Working' \subseteq Working \cup { Place("work", w, 1, m) }
          /\ \A v \in Workers : work'[v].via = "task" => work[v].via = "task"
    BY <2>1, OneStarted DEF TypeInv
  <2>3. Places' \subseteq Places \cup { Place("work", w, 1, m) }
    BY <2>1, <2>2 DEF Places, Queued, Buffered, Asked
  <2>4. Bounds'
    BY <2>1, <2>2 DEF Once, Bounds
  <2>5. Place("work", w, 1, m).msg = m
    BY DEF Place
  <2>6. QED
    BY <2>1, <2>3, <2>4, <2>5, PlacesGrow
<1>3. CASE Enqueue(m)
  <2>1. /\ UNCHANGED <<mode, kind, plan, work, buffer, asked>> /\ mode = "cloud"
        /\ Key(m) \notin seen /\ seen' = seen \cup {Key(m)}
        /\ queue' = [queue EXCEPT ![m] = @ + 1]
    BY <1>3 DEF Enqueue, Mark, settings, effects
  <2>2. queue[m] = 0
    <3>1. queue[m] > 0 => Place("queue", m, 1, m) \in Places
      BY DEF Places, Queued
    <3>2. queue[m] \in Nat /\ Place("queue", m, 1, m).msg = m
      BY DEF TypeInv, Queue, Place
    <3>3. QED
      BY <2>1, <3>1, <3>2 DEF Once
  <2>3. Bounds'
    BY <2>1, <2>2 DEF Once, Bounds, TypeInv, Queue
  <2>4. Queued' \subseteq Queued \cup { Place("queue", m, 1, m) }
    BY <2>1 DEF Queued, TypeInv, Queue
  <2>5. Places' \subseteq Places \cup { Place("queue", m, 1, m) }
    BY <2>1, <2>4 DEF Places, Working, AtWork, Buffered, Asked
  <2>6. Place("queue", m, 1, m).msg = m
    BY DEF Place
  <2>7. QED
    BY <2>1, <2>3, <2>5, <2>6, PlacesGrow
<1>4. CASE EnqueueFails(m)
  BY <1>4 DEF EnqueueFails, Fail, Calm, Redelivers
<1>5. QED
  BY <1>1, <1>2, <1>3, <1>4 DEF Gateway

\* Cloud Tasks hands over what it has, and has it no more.
LEMMA OnceDispatch == ASSUME TypeInv, Once, NEW m \in Messages, Dispatch(m) PROVE Once'
<1>1. /\ UNCHANGED <<mode, kind, plan, seen, buffer, asked>> /\ Start(<<m>>, "task")
      /\ queue[m] = 1 /\ queue' = [queue EXCEPT ![m] = 0] /\ mode # "sync"
  <2>1. queue \in [Messages -> Nat] /\ queue[m] > 0 /\ queue[m] <= 1 /\ mode # "sync"
    BY DEF Dispatch, TypeInv, Queue, Once, Bounds
  <2>2. queue[m] = 1 /\ queue' = [queue EXCEPT ![m] = queue[m] - 1]
    BY <2>1 DEF Dispatch
  <2>3. QED
    BY <2>1, <2>2 DEF Dispatch, settings, memory, effects
<1>2. PICK w \in Workers : Working' \subseteq Working \cup { Place("work", w, 1, m) }
  BY <1>1, OneStarted DEF TypeInv
<1>3. Bounds'
  BY <1>1 DEF Once, Bounds, TypeInv, Queue
<1> DEFINE from == Place("queue", m, 1, m)
           F == [x \in Places |-> IF x = from THEN Place("work", w, 1, m) ELSE x]
<1>4. from \in Places /\ from.msg = m /\ Place("work", w, 1, m).msg = m
  BY <1>1 DEF Places, Queued, Place
<1>5. ASSUME NEW y \in Places' PROVE y = Place("work", w, 1, m) \/ y \in Places \ {from}
  <2>1. CASE y \in Queued'
    <3>1. PICK n \in Messages : queue'[n] > 0 /\ y = Place("queue", n, 1, n)
      BY <2>1 DEF Queued
    <3>2. n # m /\ queue[n] > 0
      BY <1>1, <3>1 DEF TypeInv, Queue
    <3>3. QED
      BY <3>1, <3>2 DEF Places, Queued, Place
  <2>2. CASE y \in Working'
    BY <1>2, <2>2 DEF Places, Working, Place
  <2>3. CASE y \in Buffered' \/ y \in Asked'
    BY <1>1, <2>3 DEF Places, Buffered, Asked, Place
  <2>4. QED
    BY <2>1, <2>2, <2>3 DEF Places
<1>6. \A y \in Places' : \E x \in Places : y = F[x] /\ y.msg = x.msg
  BY <1>4, <1>5
<1> HIDE DEF F
<1>7. QED
  BY <1>1, <1>3, <1>6, PlacesMove

\* The buffer is taken away by the worker of its timer.
LEMMA OnceFire == ASSUME TypeInv, Once, NEW p \in Phones, Fire(p) PROVE Once'
<1>1. /\ UNCHANGED <<mode, kind, plan, seen, queue, asked>>
      /\ buffer' = [buffer EXCEPT ![p] = <<>>] /\ buffer[p] \in Seq(Messages)
  BY DEF Fire, settings, effects, TypeInv, Buffers
<1>2. CASE buffer[p] = <<>>
  <2>1. UNCHANGED work /\ UNCHANGED buffer
    BY <1>1, <1>2 DEF Fire, TypeInv, Buffers
  <2>2. QED
    BY <1>1, <2>1, PlacesKept DEF Keeps, AtWork
<1>3. CASE buffer[p] # <<>>
  <2>1. PICK w \in Workers :
          /\ Working' \subseteq Working \cup { Place("work", w, i, buffer[p][i]) : i \in DOMAIN buffer[p] }
          /\ \A v \in Workers : work'[v].via = "task" => work[v].via = "task"
    BY <1>1, <1>3, WorkingStarted DEF Fire, TypeInv
  <2>2. Bounds'
    BY <1>1, <2>1 DEF Once, Bounds
  <2> DEFINE F == [x \in Places |-> IF x.at = "buffer" /\ x.of = p THEN Place("work", w, x.i, x.msg) ELSE x]
  <2>3. ASSUME NEW y \in Places' PROVE \E x \in Places : y = F[x] /\ y.msg = x.msg
    <3>1. CASE y \in { Place("work", w, i, buffer[p][i]) : i \in DOMAIN buffer[p] }
      <4>1. PICK i \in DOMAIN buffer[p] : y = Place("work", w, i, buffer[p][i])
        BY <3>1
      <4> DEFINE x == Place("buffer", p, i, buffer[p][i])
      <4>2. x \in Places /\ x.at = "buffer" /\ x.of = p /\ x.i = i /\ x.msg = buffer[p][i] /\ y.msg = x.msg
        BY <4>1 DEF Places, Buffered, Place
      <4> HIDE DEF x
      <4>3. QED
        BY <4>1, <4>2
    <3>2. CASE y \in Queued' \/ y \in Asked' \/ y \in Working
      <4>1. y \in Places /\ y.at # "buffer"
        BY <1>1, <3>2 DEF Places, Queued, Asked, Working, Place
      <4>2. QED
        BY <4>1
    <3>3. CASE y \in Buffered'
      <4>1. PICK q \in Phones : \E i \in DOMAIN buffer'[q] : y = Place("buffer", q, i, buffer'[q][i])
        BY <3>3 DEF Buffered
      <4>2. q # p /\ buffer'[q] = buffer[q]
        BY <1>1, <4>1 DEF TypeInv, Buffers
      <4>3. y \in Places /\ y.of # p
        BY <4>1, <4>2 DEF Places, Buffered, Place
      <4>4. QED
        BY <4>3
    <3>4. QED
      BY <2>1, <3>1, <3>2, <3>3 DEF Places
  <2> HIDE DEF F
  <2>4. QED
    BY <1>1, <2>2, <2>3, PlacesMove
<1>4. QED
  BY <1>2, <1>3

\* How often a message occurs that does so nowhere, or in one place.
LEMMA OccursWhere ==
  ASSUME NEW m, NEW s \in Seq(Messages)
  PROVE  /\ (\A i \in DOMAIN s : s[i] # m) => Occurs(m, s) = 0
         /\ \A i \in DOMAIN s : s[i] = m /\ (\A j \in DOMAIN s : s[j] = m => j = i) => Occurs(m, s) = 1
<1> DEFINE S == { i \in DOMAIN s : s[i] = m }
<1>1. ASSUME \A i \in DOMAIN s : s[i] # m PROVE Cardinality(S) = 0
  <2>1. S = {}
    BY <1>1
  <2>2. QED
    BY <2>1, FS_EmptySet
<1>2. ASSUME NEW i \in DOMAIN s, s[i] = m, \A j \in DOMAIN s : s[j] = m => j = i
      PROVE  Cardinality(S) = 1
  <2>1. S = {i}
    BY <1>2
  <2>2. QED
    BY <2>1, FS_Singleton
<1>3. QED
  BY <1>1, <1>2 DEF Occurs

\* The agent is asked about the messages of one worker.
LEMMA OnceAsked ==
  ASSUME TypeInv, Once, NEW w \in Workers, work[w].at = "ask", asked' = Count(asked, work[w].batch),
         UNCHANGED <<mode, kind, plan, seen, queue, buffer>>, ~AtWork(w)', work'[w].via # "task" \/ work'[w].via = work[w].via,
         \A v \in Workers \ {w} : work'[v] = work[v]
  PROVE  Once'
<1> DEFINE b == work[w].batch
<1>1. b \in Seq(Messages) /\ AtWork(w)
  BY FirstMessage DEF TypeInv, AtWork
<1>2. \A i \in DOMAIN b : Place("work", w, i, b[i]) \in Places /\ b[i] \in Messages
  BY <1>1 DEF Places, Working
<1>3. ASSUME NEW m \in Messages
      PROVE  /\ asked'[m] = asked[m] + Occurs(m, b) /\ asked'[m] <= 1
             /\ asked'[m] > 0 => asked[m] > 0 \/ \E i \in DOMAIN b : b[i] = m
  <2>1. asked'[m] = asked[m] + Occurs(m, b) /\ asked[m] \in Nat /\ asked[m] <= 1
    BY DEF Count, TypeInv, History, Once, Bounds
  <2>2. CASE \A i \in DOMAIN b : b[i] # m
    <3>1. Occurs(m, b) = 0
      BY <1>1, <2>2, OccursWhere
    <3>2. QED
      BY <2>1, <3>1
  <2>3. ASSUME NEW i \in DOMAIN b, b[i] = m PROVE asked[m] = 0 /\ Occurs(m, b) = 1
    <3>1. \A x \in Places : Key(x.msg) = Key(m) => x = Place("work", w, i, b[i])
      <4>1. Place("work", w, i, b[i]).msg = m
        BY <2>3 DEF Place
      <4>2. QED
        BY <1>2, <4>1 DEF Once, OnePerKey
    <3>2. asked[m] > 0 => Place("asked", m, 1, m) \in Places
      BY DEF Places, Asked
    <3>3. ~(asked[m] > 0)
      BY <3>1, <3>2 DEF Place
    <3>4. \A j \in DOMAIN b : b[j] = m => j = i
      BY <1>2, <3>1 DEF Place
    <3>5. QED
      BY <1>1, <2>1, <2>3, <3>3, <3>4, OccursWhere
  <2>4. QED
    BY <2>1, <2>2, <2>3
<1>4. Bounds'
  BY <1>3 DEF Once, Bounds
<1> DEFINE F == [x \in Places |-> IF x.at = "work" /\ x.of = w THEN Place("asked", x.msg, 1, x.msg) ELSE x]
<1>5. ASSUME NEW y \in Places' PROVE \E x \in Places : y = F[x] /\ y.msg = x.msg
  <2>1. CASE y \in Queued' \/ y \in Buffered'
    <3>1. y \in Places /\ y.at # "work"
      BY <2>1 DEF Places, Queued, Buffered, Place
    <3>2. QED
      BY <3>1
  <2>2. CASE y \in Working'
    <3>1. y \in Places /\ y.of # w
      BY <2>2 DEF Places, Working, Place, AtWork
    <3>2. QED
      BY <3>1
  <2>3. CASE y \in Asked'
    <3>1. PICK m \in Messages : asked'[m] > 0 /\ y = Place("asked", m, 1, m)
      BY <2>3 DEF Asked
    <3>2. CASE asked[m] > 0
      <4>1. y \in Places /\ y.at # "work"
        BY <3>1, <3>2 DEF Places, Asked, Place
      <4>2. QED
        BY <4>1
    <3>3. ASSUME NEW i \in DOMAIN b, b[i] = m PROVE \E x \in Places : y = F[x] /\ y.msg = x.msg
      <4> DEFINE x == Place("work", w, i, b[i])
      <4>1. x \in Places /\ x.at = "work" /\ x.of = w /\ x.msg = m /\ y.msg = m
        BY <1>2, <3>1, <3>3 DEF Place
      <4> HIDE DEF x
      <4>2. QED
        BY <3>1, <4>1
    <3>4. QED
      BY <1>3, <3>1, <3>2, <3>3
  <2>4. QED
    BY <2>1, <2>2, <2>3 DEF Places
<1> HIDE DEF F
<1>6. QED
  BY <1>4, <1>5, PlacesMove

\* The messages of a worker follow those in the buffer of their phone.
LEMMA OnceBuffered == ASSUME TypeInv, Once, NEW w \in Workers, RouteBuffer(w) PROVE Once'
<1> DEFINE b == work[w].batch
           p == ChatOf(w)
           n == Len(buffer[p])
<1>1. /\ work[w].at = "route" /\ GoTo(w, "store") /\ buffer' = [buffer EXCEPT ![p] = @ \o b]
      /\ UNCHANGED <<mode, kind, plan, seen, queue, asked>>
  BY DEF RouteBuffer, settings, effects
<1>2. p \in Phones /\ b \in Seq(Messages) /\ buffer[p] \in Seq(Messages)
  BY <1>1, ChatKnown, FirstMessage DEF TypeInv, Buffers
<1>3. /\ work'[w].at = "store" /\ work'[w].via = work[w].via
      /\ \A v \in Workers \ {w} : work'[v] = work[v]
  BY <1>1 DEF GoTo, TypeInv, Work, Worker
<1>4. AtWork(w) /\ ~AtWork(w)'
  BY <1>1, <1>3 DEF AtWork
<1> HIDE DEF p
<1>5. buffer'[p] = buffer[p] \o b /\ \A q \in Phones \ {p} : buffer'[q] = buffer[q]
  BY <1>1, <1>2 DEF TypeInv, Buffers
<1> HIDE DEF b
<1>6. /\ \A i \in DOMAIN buffer[p] : buffer'[p][i] = buffer[p][i]
      /\ \A i \in DOMAIN b : buffer'[p][n + i] = b[i]
      /\ \A j \in DOMAIN buffer'[p] : j \in DOMAIN buffer[p] \/ \E i \in DOMAIN b : j = n + i
  <2>1. /\ Len(buffer[p] \o b) = n + Len(b) /\ n \in Nat /\ Len(b) \in Nat
        /\ DOMAIN buffer[p] = 1 .. n /\ DOMAIN b = 1 .. Len(b) /\ DOMAIN buffer'[p] = 1 .. (n + Len(b))
    BY <1>2, <1>5
  <2>2. \A j \in 1 .. (n + Len(b)) : j \in 1 .. n \/ (j - n \in 1 .. Len(b) /\ j = n + (j - n))
    BY <2>1
  <2>3. \A i \in 1 .. n : (buffer[p] \o b)[i] = buffer[p][i]
    BY <1>2, <2>1
  <2>4. \A i \in 1 .. Len(b) : (buffer[p] \o b)[n + i] = b[i]
    BY <1>2, <2>1
  <2>5. QED
    BY <1>5, <2>1, <2>2, <2>3, <2>4
<1>7. Bounds'
  BY <1>1, <1>3 DEF Once, Bounds
<1> DEFINE F == [x \in Places |->
                   IF x.at = "work" /\ x.of = w THEN Place("buffer", p, n + x.i, x.msg) ELSE x]
<1>8. ASSUME NEW y \in Places' PROVE \E x \in Places : y = F[x] /\ y.msg = x.msg
  <2>1. CASE y \in Queued' \/ y \in Asked'
    <3>1. y \in Places /\ y.at # "work"
      BY <1>1, <2>1 DEF Places, Queued, Asked, Place
    <3>2. QED
      BY <3>1
  <2>2. CASE y \in Working'
    <3>1. y \in Places /\ y.of # w
      BY <1>3, <1>4, <2>2 DEF Places, Working, Place, AtWork
    <3>2. QED
      BY <3>1
  <2>3. CASE y \in Buffered'
    <3>1. PICK q \in Phones : \E j \in DOMAIN buffer'[q] : y = Place("buffer", q, j, buffer'[q][j])
      BY <2>3 DEF Buffered
    <3>2. PICK j \in DOMAIN buffer'[q] : y = Place("buffer", q, j, buffer'[q][j])
      BY <3>1
    <3>3. CASE j \in DOMAIN buffer[q] /\ buffer'[q][j] = buffer[q][j]
      <4>1. y \in Places /\ y.at # "work"
        BY <3>2, <3>3 DEF Places, Buffered, Place
      <4>2. QED
        BY <4>1
    <3>4. ASSUME q = p, NEW i \in DOMAIN b, j = n + i PROVE \E x \in Places : y = F[x] /\ y.msg = x.msg
      <4> DEFINE x == Place("work", w, i, b[i])
      <4>1. x.at = "work" /\ x.of = w /\ x.i = i /\ x.msg = b[i]
        BY DEF Place
      <4>2. x \in Places
        BY <1>4 DEF Places, Working, b
      <4>3. y = Place("buffer", p, n + i, b[i]) /\ y.msg = b[i]
        BY <1>6, <3>2, <3>4 DEF Place
      <4> HIDE DEF x
      <4>4. QED
        BY <4>1, <4>2, <4>3
    <3>5. QED
      BY <1>5, <1>6, <3>3, <3>4
  <2>4. QED
    BY <2>1, <2>2, <2>3 DEF Places
<1> HIDE DEF F
<1>9. QED
  BY <1>1, <1>7, <1>8, PlacesMove

\* A worker keeps its batch as it goes on, or loses it as it ends.
LEMMA GoesKeeping ==
  ASSUME TypeInv, NEW w \in Workers, NEW stage, GoTo(w, stage),
         AtWork(w) \/ stage \notin {"lookup", "search", "create", "route", "ask"}
  PROVE  \A v \in Workers : Keeps(v)
BY DEF GoTo, Keeps, AtWork, TypeInv, Work, Worker

LEMMA EndsKeeping ==
  ASSUME TypeInv, NEW w \in Workers, work' = [work EXCEPT ![w] = Idle]
  PROVE  \A v \in Workers : Keeps(v)
BY DEF Keeps, AtWork, TypeInv, Work, Idle

\* Only a failed import makes Cloud Tasks repeat, and there is none.
LEMMA FinishKeeping ==
  ASSUME TypeInv, NEW w \in Workers, NEW good, Finish(w, good), good \/ work[w].via # "task"
  PROVE  (\A v \in Workers : Keeps(v)) /\ queue' = queue
BY EndsKeeping DEF Finish

LEMMA OnceStep == ASSUME TypeInv, Calm, Once, NEW w \in Workers, Step(w) PROVE Once'
<1>1. CASE \/ Lookup(w) \/ FindLead(w) \/ NoLead(w) \/ CreateLead(w)
           \/ RouteOwn(w) \/ RouteOff(w) \/ RouteAsk(w)
  <2>1. /\ UNCHANGED <<mode, kind, plan, seen, queue, buffer, asked>> /\ AtWork(w)
        /\ \E stage \in Stages : GoTo(w, stage)
    BY <1>1 DEF Lookup, FindLead, NoLead, CreateLead, RouteOwn, RouteOff, RouteAsk, settings, memory, effects,
                AtWork, Stages
  <2>2. QED
    BY <2>1, GoesKeeping, PlacesKept
<1>2. CASE Ignore(w) \/ SkipMessage(w)
  BY <1>2, EndsKeeping, PlacesKept DEF Ignore, SkipMessage, settings, memory
<1>3. CASE RouteBuffer(w)
  BY <1>3, OnceBuffered
<1>4. CASE Store(w) \/ Reply(w)
  BY <1>4, FinishKeeping, PlacesKept DEF Store, Reply, settings, memory
<1>5. CASE StoreFails(w)
  <2>1. work[w].via # "task"
    <3>1. "import" \in plan
      BY <1>5 DEF StoreFails, Fail
    <3>2. mode = "sync"
      BY <3>1 DEF Calm, Redelivers
    <3>3. QED
      BY <3>2 DEF Once, Bounds
  <2>2. QED
    BY <1>5, <2>1, FinishKeeping, PlacesKept DEF StoreFails, settings, memory
<1>6. CASE Ask(w)
  <2>1. /\ work'[w].at = "reply" /\ work'[w].via = work[w].via /\ work[w].at = "ask"
        /\ \A v \in Workers \ {w} : work'[v] = work[v]
    BY <1>6 DEF Ask, GoTo, TypeInv, Work, Worker
  <2>2. ~AtWork(w)'
    BY <2>1 DEF AtWork
  <2>3. QED
    BY <1>6, <2>1, <2>2, OnceAsked DEF Ask, settings, memory
<1>7. CASE AskFails(w)
  <2>1. /\ work'[w] = Idle /\ work[w].at = "ask" /\ \A v \in Workers \ {w} : work'[v] = work[v]
    BY <1>7 DEF AskFails, TypeInv, Work
  <2>2. ~AtWork(w)' /\ work'[w].via # "task"
    BY <2>1 DEF AtWork, Idle
  <2>3. QED
    BY <1>7, <2>1, <2>2, OnceAsked DEF AskFails, settings, memory
<1>8. CASE ReplyFails(w)
  <2>1. CASE work[w].tries < 2
    <3>1. \A v \in Workers : Keeps(v)
      BY <1>8, <2>1 DEF ReplyFails, Keeps, AtWork, TypeInv, Work, Worker
    <3>2. QED
      BY <1>8, <2>1, <3>1, PlacesKept DEF ReplyFails, settings, memory
  <2>2. CASE ~(work[w].tries < 2)
    BY <1>8, <2>2, FinishKeeping, PlacesKept DEF ReplyFails, settings, memory
  <2>3. QED
    BY <2>1, <2>2
<1>9. QED
  BY <1>1, <1>2, <1>3, <1>4, <1>5, <1>6, <1>7, <1>8 DEF Step

LEMMA OnceNext == ASSUME TypeInv, Calm, Once, [Next]_vars PROVE Once'
<1>1. ASSUME NEW w \in Workers, AttemptTimesOut(w) PROVE FALSE
  <2>1. "slow" \in plan /\ work[w].via = "task"
    BY <1>1 DEF AttemptTimesOut, Fail
  <2>2. mode = "sync"
    BY <2>1 DEF Calm, Redelivers
  <2>3. QED
    BY <2>1, <2>2 DEF Once, Bounds
<1>2. ASSUME NEW c \in Configs, Configure(c) PROVE Once'
  BY <1>2, PlacesKept DEF Configure, Keeps, AtWork, memory, effects
<1>3. ASSUME NEW k \in Messages \cup Phones, Expire(k) PROVE FALSE
  BY <1>3 DEF Expire, Fail, Calm, Redelivers
<1>4. ~Crash
  BY DEF Crash, Fail, Calm, Redelivers
<1>5. CASE UNCHANGED vars
  BY <1>5, PlacesKept DEF vars, settings, memory, effects, Keeps, AtWork
<1>6. CASE Deactivate \/ Register
  BY <1>6, PlacesKept DEF Deactivate, Register, Keeps, AtWork, memory, effects
<1>7. QED
  BY <1>1, <1>2, <1>3, <1>4, <1>5, <1>6, OnceGateway, OnceDispatch, OnceStep, OnceFire DEF Next

\* PlacesInv is inductive: what is marked is taken on by one worker, or by the
\* queue, and each step hands it to one place and leaves the one it was in.
THEOREM PlacesCorrect == Spec => []PlacesInv
<1>1. Init => PlacesInv
  <2> SUFFICES ASSUME Init PROVE PlacesInv
    OBVIOUS
  <2>1. Places = {}
    BY DEF Init, Places, Queued, Working, Buffered, Asked, AtWork, Idle
  <2>2. QED
    BY <2>1 DEF Init, PlacesInv, OnePerKey, Idle
<1>2. TypeInv /\ PlacesInv /\ [Next]_vars => PlacesInv'
  <2> SUFFICES ASSUME TypeInv, PlacesInv, [Next]_vars, Calm' PROVE Once'
    BY DEF PlacesInv, Calm, Once, Bounds
  <2>1. UNCHANGED <<mode, kind, plan>>
    BY SettingsStay
  <2>2. Calm /\ Once
    BY <2>1, StillCalm, PlacesInvIs
  <2>3. QED
    BY <2>2, OnceNext
<1>3. QED
  BY <1>1, <1>2, TypesCorrect, PTL DEF Spec

\* The answers.
Quiet == plan \cap Redelivers = {} /\ "send" \notin plan

Single ==
  /\ OnePerKey(Replies) /\ \A x \in Replies : asked[x.msg] > 0
  /\ \A m \in Messages : sent[m] <= 1

\* What was asked is not taken back, and no worker comes to answer.
Silent(v) == work'[v].at = "reply" => work[v].at = "reply" /\ work'[v].batch = work[v].batch
NotLess == \A m \in Messages : asked[m] > 0 => asked'[m] > 0

LEMMA ReplyOf ==
  ASSUME TypeInv, NEW x \in Replies
  PROVE  x.msg \in Messages
<1>1. CASE x \in Sent
  BY <1>1 DEF Sent, Place
<1>2. CASE x \in Replying
  BY <1>2, FirstMessage DEF Replying, Place, TypeInv
<1>3. QED
  BY <1>1, <1>2 DEF Replies

LEMMA SingleLeft ==
  ASSUME TypeInv, Single, kind' = kind, sent' = sent, NotLess, \A v \in Workers : Silent(v)
  PROVE  Single'
<1>1. Replies' \subseteq Replies
  BY DEF Replies, Replying, Sent, Silent
<1>2. \A x \in Replies' : asked'[x.msg] > 0
  BY <1>1, ReplyOf DEF Single, NotLess
<1>3. \A x, y \in Replies' : Key(x.msg)' = Key(y.msg)' => x = y
  BY <1>1 DEF Single, OnePerKey, Key
<1>4. QED
  BY <1>2, <1>3 DEF Single, OnePerKey, Key

LEMMA AskedMore ==
  ASSUME TypeInv, NEW w \in Workers, work[w].at = "ask", asked' = Count(asked, work[w].batch)
  PROVE  NotLess /\ asked'[work[w].batch[1]] > 0
<1> DEFINE b == work[w].batch
<1>1. b \in Seq(Messages) /\ 1 \in DOMAIN b
  BY FirstMessage DEF TypeInv
<1> HIDE DEF b
<1>2. \A m \in Messages : Count(asked, b)[m] >= asked[m] /\ asked[m] \in Nat /\ Count(asked, b)[m] \in Nat
  BY <1>1, Counted DEF TypeInv, History
<1>3. Count(asked, b)[b[1]] > 0
  BY <1>1, Counted DEF TypeInv, History
<1>4. \A m \in Messages : asked[m] > 0 => Count(asked, b)[m] > 0
  BY <1>2
<1>5. QED
  BY <1>3, <1>4 DEF NotLess, b

\* The agent's answer is the only one for its key.
LEMMA SingleAsked ==
  ASSUME TypeInv, Once, Single, NEW w \in Workers, Ask(w) PROVE Single'
<1> DEFINE m == work[w].batch[1]
           z == Place("reply", w, 1, m)
<1>1. /\ work[w].at = "ask" /\ asked' = Count(asked, work[w].batch) /\ sent' = sent /\ kind' = kind
      /\ GoTo(w, "reply")
  BY DEF Ask, settings
<1>2. /\ work'[w].batch = work[w].batch /\ \A v \in Workers \ {w} : work'[v] = work[v]
  BY <1>1 DEF GoTo, TypeInv, Work, Worker
<1>3. m \in Messages /\ Place("work", w, 1, m) \in Places
  <2>1. m \in Messages /\ 1 \in DOMAIN work[w].batch
    BY <1>1, FirstMessage DEF TypeInv
  <2>2. QED
    BY <1>1, <2>1 DEF Places, Working, AtWork
<1>4. NotLess /\ asked'[m] > 0
  BY <1>1, AskedMore
<1>5. Replies' \subseteq Replies \cup {z}
  BY <1>1, <1>2 DEF Replies, Replying, Sent
<1>6. z.msg = m /\ Place("work", w, 1, m).msg = m /\ Place("work", w, 1, m).at = "work"
  BY DEF Place
<1> HIDE DEF m, z
<1>7. ASSUME NEW x \in Replies PROVE Key(x.msg) # Key(m)
  <2> DEFINE y == Place("asked", x.msg, 1, x.msg)
  <2>1. y \in Places
    BY ReplyOf DEF Single, Places, Asked
  <2>2. y.msg = x.msg /\ y.at = "asked"
    BY DEF Place
  <2> HIDE DEF y
  <2>3. QED
    BY <1>3, <1>6, <2>1, <2>2 DEF Once, OnePerKey
<1>8. \A x \in Replies' : asked'[x.msg] > 0
  BY <1>4, <1>5, <1>6, ReplyOf DEF Single, NotLess
<1>9. \A x, y \in Replies' : Key(x.msg)' = Key(y.msg)' => x = y
  BY <1>1, <1>5, <1>6, <1>7 DEF Single, OnePerKey, Key
<1>10. QED
  BY <1>1, <1>8, <1>9 DEF Single, OnePerKey, Key

\* The answer arrives.
LEMMA SingleReplied ==
  ASSUME TypeInv, Single, NEW w \in Workers, Reply(w) PROVE Single'
<1> DEFINE m == work[w].batch[1]
           from == Place("reply", w, 1, m)
           to == Place("sent", m, 1, m)
<1>1. /\ work[w].at = "reply" /\ sent' = [sent EXCEPT ![m] = @ + 1] /\ asked' = asked /\ kind' = kind
      /\ work'[w] = Idle /\ \A v \in Workers \ {w} : work'[v] = work[v]
  BY DEF Reply, Finish, settings, TypeInv, Work
<1>2. m \in Messages /\ from \in Replies
  BY <1>1, FirstMessage DEF TypeInv, Replies, Replying
<1>3. from.msg = m /\ to.msg = m /\ from.at = "reply" /\ to.at = "sent"
  BY DEF Place
<1>4. sent[m] = 0
  <2>1. sent[m] > 0 => to \in Replies
    BY <1>2 DEF Replies, Sent
  <2>2. sent[m] \in Nat
    BY <1>2 DEF TypeInv, History
  <2> HIDE DEF from, to
  <2>3. QED
    BY <1>2, <1>3, <2>1, <2>2 DEF Single, OnePerKey
<1> HIDE DEF m
<1>5. ASSUME NEW y \in Replies' PROVE y = to \/ y \in Replies \ {from}
  <2>1. CASE y \in Sent'
    BY <1>1, <1>2, <2>1 DEF Sent, Replies, Place, TypeInv, History
  <2>2. CASE y \in Replying'
    <3>1. PICK v \in Workers : work'[v].at = "reply" /\ y = Place("reply", v, 1, work'[v].batch[1])
      BY <2>2 DEF Replying
    <3>2. v # w /\ work'[v] = work[v]
      BY <1>1, <3>1 DEF Idle
    <3>3. QED
      BY <3>1, <3>2 DEF Replies, Replying, Place
  <2>3. QED
    BY <2>1, <2>2 DEF Replies
<1> HIDE DEF from, to
<1>6. \A x \in Replies' : asked'[x.msg] > 0
  BY <1>1, <1>2, <1>3, <1>5 DEF Single
<1>7. \A x, y \in Replies' : Key(x.msg)' = Key(y.msg)' => x = y
  BY <1>1, <1>2, <1>3, <1>5 DEF Single, OnePerKey, Key
<1>8. \A n \in Messages : sent'[n] <= 1
  BY <1>1, <1>2, <1>4 DEF Single, TypeInv, History
<1>9. QED
  BY <1>6, <1>7, <1>8 DEF Single, OnePerKey, Key

\* One worker moves, and not to answer.
LEMMA SilentMove ==
  ASSUME TypeInv, NEW w \in Workers, NEW x, work' = [work EXCEPT ![w] = x],
         x.at = "reply" => work[w].at = "reply" /\ x.batch = work[w].batch
  PROVE  \A v \in Workers : Silent(v)
BY DEF Silent, TypeInv, Work

LEMMA SilentGo ==
  ASSUME TypeInv, NEW w \in Workers, NEW stage, stage # "reply", GoTo(w, stage)
  PROVE  \A v \in Workers : Silent(v)
<1> DEFINE x == [work[w] EXCEPT !.at = stage]
<1>1. work' = [work EXCEPT ![w] = x]
  BY DEF GoTo
<1>2. x.at = stage
  BY DEF TypeInv, Work, Worker
<1> HIDE DEF x
<1>3. QED
  BY <1>1, <1>2, SilentMove

LEMMA SilentEnd ==
  ASSUME TypeInv, NEW w \in Workers, work' = [work EXCEPT ![w] = Idle]
  PROVE  \A v \in Workers : Silent(v)
BY SilentMove DEF Idle

LEMMA SilentStart ==
  ASSUME TypeInv, NEW b \in Seq(Messages), NEW via, Start(b, via)
  PROVE  \A v \in Workers : Silent(v)
BY WorkingStarted DEF TypeInv, Silent

LEMMA SingleStep ==
  ASSUME TypeInv, Quiet, Once, Single, NEW w \in Workers, Step(w) PROVE Single'
<1>1. ASSUME asked' = asked PROVE NotLess
  BY <1>1 DEF NotLess
<1>2. CASE \/ Lookup(w) \/ FindLead(w) \/ NoLead(w) \/ CreateLead(w)
           \/ RouteOwn(w) \/ RouteOff(w) \/ RouteBuffer(w) \/ RouteAsk(w)
  <2>1. /\ kind' = kind /\ sent' = sent /\ asked' = asked
        /\ \E stage \in Stages \ {"reply"} : GoTo(w, stage)
    BY <1>2 DEF Lookup, FindLead, NoLead, CreateLead, RouteOwn, RouteOff, RouteBuffer, RouteAsk,
                settings, effects, Stages
  <2>2. QED
    BY <1>1, <2>1, SilentGo, SingleLeft
<1>3. CASE Ignore(w) \/ SkipMessage(w) \/ Store(w) \/ StoreFails(w)
  <2>1. kind' = kind /\ sent' = sent /\ asked' = asked /\ work' = [work EXCEPT ![w] = Idle]
    BY <1>3 DEF Ignore, SkipMessage, Store, StoreFails, Finish, settings
  <2>2. QED
    BY <1>1, <2>1, SilentEnd, SingleLeft
<1>4. CASE Ask(w)
  BY <1>4, SingleAsked
<1>5. CASE AskFails(w)
  <2>1. /\ kind' = kind /\ sent' = sent /\ work' = [work EXCEPT ![w] = Idle]
        /\ work[w].at = "ask" /\ asked' = Count(asked, work[w].batch)
    BY <1>5 DEF AskFails, settings
  <2>2. QED
    BY <2>1, AskedMore, SilentEnd, SingleLeft
<1>6. CASE Reply(w)
  BY <1>6, SingleReplied
<1>7. CASE ReplyFails(w)
  BY <1>7 DEF ReplyFails, Fail, Quiet
<1>8. QED
  BY <1>2, <1>3, <1>4, <1>5, <1>6, <1>7 DEF Step

LEMMA SingleNext == ASSUME TypeInv, Quiet, Once, Single, [Next]_vars PROVE Single'
<1>1. ASSUME kind' = kind, sent' = sent, asked' = asked, \A v \in Workers : Silent(v) PROVE Single'
  BY <1>1, SingleLeft DEF NotLess
<1>2. ASSUME NEW m \in Messages, Gateway(m) \/ Dispatch(m) PROVE Single'
  <2>1. kind' = kind /\ sent' = sent /\ asked' = asked
    BY <1>2 DEF Gateway, Duplicate, Receive, Enqueue, EnqueueFails, Dispatch, settings, effects
  <2>2. UNCHANGED work \/ \E via \in Callers : Start(<<m>>, via)
    BY <1>2 DEF Gateway, Duplicate, Receive, Enqueue, EnqueueFails, Dispatch, Callers
  <2>3. <<m>> \in Seq(Messages)
    OBVIOUS
  <2>4. \A v \in Workers : Silent(v)
    <3> DEFINE b == <<m>>
    <3>1. b \in Seq(Messages) /\ (UNCHANGED work \/ \E via \in Callers : Start(b, via))
      BY <2>2, <2>3
    <3> HIDE DEF b
    <3>2. QED
      BY <3>1, SilentStart DEF Silent
  <2>5. QED
    BY <1>1, <2>1, <2>4
<1>3. ASSUME NEW w \in Workers, AttemptTimesOut(w) PROVE Single'
  <2> DEFINE x == [work[w] EXCEPT !.via = "nobody"]
  <2>1. work' = [work EXCEPT ![w] = x] /\ kind' = kind /\ sent' = sent /\ asked' = asked
    BY <1>3 DEF AttemptTimesOut, settings, effects
  <2>2. x.at = work[w].at /\ x.batch = work[w].batch
    BY DEF TypeInv, Work, Worker
  <2> HIDE DEF x
  <2>3. QED
    BY <1>1, <2>1, <2>2, SilentMove
<1>4. ASSUME NEW p \in Phones, Fire(p) PROVE Single'
  <2>1. /\ kind' = kind /\ sent' = sent /\ asked' = asked /\ buffer[p] \in Seq(Messages)
        /\ UNCHANGED work \/ Start(buffer[p], "timer")
    BY <1>4 DEF Fire, settings, effects, TypeInv, Buffers
  <2>2. \A v \in Workers : Silent(v)
    BY <2>1, SilentStart DEF Silent
  <2>3. QED
    BY <1>1, <2>1, <2>2
<1>5. ASSUME NEW c \in Configs, Configure(c) PROVE Single'
  BY <1>1, <1>5 DEF Configure, effects, Silent
<1>6. ASSUME NEW k \in Messages \cup Phones, Expire(k) PROVE Single'
  BY <1>1, <1>6 DEF Expire, settings, effects, Silent
<1>7. ~Crash
  BY DEF Crash, Fail, Quiet, Redelivers
<1>8. CASE UNCHANGED vars
  BY <1>1, <1>8 DEF vars, settings, effects, Silent
<1>9. CASE Deactivate \/ Register
  BY <1>1, <1>9 DEF Deactivate, Register, effects, Silent
<1>10. QED
  BY <1>9, <1>2, <1>3, <1>4, <1>5, <1>6, <1>7, <1>8, SingleStep DEF Next

\* RepliesInv is inductive: the agent answers whoever asks, and PlacesInv lets
\* nobody ask about a key that was asked about.
THEOREM RepliesCorrect == Spec => []RepliesInv
<1>1. Init => RepliesInv
  <2> SUFFICES ASSUME Init PROVE RepliesInv
    OBVIOUS
  <2>1. Replies = {}
    BY DEF Init, Replies, Replying, Sent, Idle
  <2>2. QED
    BY <2>1 DEF Init, RepliesInv, OnePerKey
<1>2. TypeInv /\ PlacesInv /\ RepliesInv /\ [Next]_vars => RepliesInv'
  <2> SUFFICES ASSUME TypeInv, PlacesInv, RepliesInv, [Next]_vars, Quiet' PROVE Single'
    BY DEF RepliesInv, Quiet, Single
  <2>1. Quiet
    BY SettingsStay DEF Quiet, Redelivers
  <2>2. Once /\ Single
    BY <2>1, PlacesInvIs DEF Quiet, Calm, RepliesInv, Single
  <2>3. QED
    BY <2>1, <2>2, SingleNext
<1>3. QED
  BY <1>1, <1>2, TypesCorrect, PlacesCorrect, PTL DEF Spec

\* However often the gateway posts a message, however the tenant's configuration
\* changes and whatever fails but what Redelivers names, the agent is asked once
\* about the messages of one dedup key, and its answer is sent once.
THEOREM AnsweredCorrect == Spec => []AnsweredOnce
<1>1. TypeInv /\ PlacesInv => (Calm => OncePerKey(asked))
  <2> SUFFICES ASSUME TypeInv, Once, NEW m \in Messages, NEW n \in Messages,
                      asked[m] > 0, asked[n] > 0, Key(m) = Key(n)
               PROVE  m = n /\ asked[m] = 1
    BY PlacesInvIs DEF OncePerKey
  <2>1. Place("asked", m, 1, m) \in Places /\ Place("asked", n, 1, n) \in Places
    BY DEF Places, Asked
  <2>2. Place("asked", m, 1, m).msg = m /\ Place("asked", n, 1, n).msg = n
    BY DEF Place
  <2>3. m = n
    BY <2>1, <2>2 DEF Once, OnePerKey
  <2>4. asked[m] \in Nat /\ asked[m] <= 1
    BY DEF Once, Bounds, TypeInv, History
  <2>5. QED
    BY <2>3, <2>4
<1>2. TypeInv /\ RepliesInv => (Quiet => OncePerKey(sent))
  <2> SUFFICES ASSUME TypeInv, Single, NEW m \in Messages, NEW n \in Messages,
                      sent[m] > 0, sent[n] > 0, Key(m) = Key(n)
               PROVE  m = n /\ sent[m] = 1
    BY DEF RepliesInv, Quiet, Single, OncePerKey
  <2>1. Place("sent", m, 1, m) \in Replies /\ Place("sent", n, 1, n) \in Replies
    BY DEF Replies, Sent
  <2>2. Place("sent", m, 1, m).msg = m /\ Place("sent", n, 1, n).msg = n
    BY DEF Place
  <2>3. m = n
    BY <2>1, <2>2 DEF Single, OnePerKey
  <2>4. sent[m] \in Nat /\ sent[m] <= 1
    BY DEF Single, TypeInv, History
  <2>5. QED
    BY <2>3, <2>4
<1>3. TypeInv /\ PlacesInv /\ RepliesInv => AnsweredOnce
  BY <1>1, <1>2 DEF AnsweredOnce, Calm, Quiet
<1>4. QED
  BY <1>3, TypesCorrect, PlacesCorrect, RepliesCorrect, PTL
=============================================================================
