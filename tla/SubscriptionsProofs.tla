------------------------- MODULE SubscriptionsProofs -------------------------
(***************************************************************************)
(* Theorems about Subscriptions, for every set of subscriptions and        *)
(* requests, every table of limits and every bound.                        *)
(***************************************************************************)
EXTENDS Subscriptions, TLAPS

-----------------------------------------------------------------------------
(* What is computed on a row.                                              *)

\* A row with the limit of its plan.
Consistent(row) == row.limit = Limit[row.plan]

\* What is computed on a row is a row; it has the limit of its plan if that one
\* had it, and a plan that is sold if that one had one.
Keeps(row, new) ==
  /\ new \in Row
  /\ Consistent(row) => Consistent(new)
  /\ row.plan \in Current => new.plan \in Current

LEMMA PlanChanged ==
  ASSUME NEW row \in Row, NEW p \in Current PROVE Keeps(row, WithPlan(row, p))
BY SubscriptionAssumption DEF Keeps, Consistent, Row, WithPlan, Current

LEMMA SubChanged ==
  ASSUME NEW row \in Row, NEW s \in Subs \cup {Nobody} PROVE Keeps(row, [row EXCEPT !.sub = s])
BY DEF Keeps, Consistent, Row

LEMMA GraceChanged ==
  ASSUME NEW row \in Row, NEW c \in 0 .. MaxClock + 1 PROVE Keeps(row, [row EXCEPT !.config = c])
BY DEF Keeps, Consistent, Row

LEMMA GraceEnded == ASSUME NEW row \in Row PROVE Keeps(row, NoGrace(row))
BY GraceChanged, SubscriptionAssumption DEF NoGrace, None

LEMMA KeptOn ==
  ASSUME NEW row, NEW new, NEW next, Keeps(row, new), Keeps(new, next) PROVE Keeps(row, next)
BY DEF Keeps

LEMMA DowngradedRow == ASSUME NEW row \in Row PROVE Keeps(row, Downgraded(row))
<1> DEFINE new == WithPlan(row, "ESTANDAR")
           next == [new EXCEPT !.sub = Nobody]
<1>1. Keeps(row, new)
  BY PlanChanged DEF Current, Plans
<1>2. Keeps(new, next)
  BY <1>1, SubChanged DEF Keeps
<1>3. Keeps(next, NoGrace(next))
  BY <1>2, GraceEnded DEF Keeps
<1>4. Downgraded(row) = NoGrace(next)
  BY DEF Downgraded
<1> HIDE DEF new, next
<1>5. QED
  BY <1>1, <1>2, <1>3, <1>4, KeptOn

LEMMA LazyRow == ASSUME NEW row \in Row PROVE Keeps(row, Lazily(row))
BY DowngradedRow DEF Lazily, Keeps

LEMMA GraceStarted ==
  ASSUME NEW row \in Row, clock \in 0 .. MaxClock PROVE Keeps(row, WithGrace(row))
<1>1. clock + 1 \in 0 .. MaxClock + 1
  BY SubscriptionAssumption
<1>2. QED
  BY <1>1, GraceChanged DEF WithGrace, Keeps

\* A row with a plan for a subscription.
LEMMA SubscribedRow ==
  ASSUME NEW row \in Row, NEW p \in Current, NEW s \in Subs \cup {Nobody}
  PROVE  LET new == [WithPlan(row, p) EXCEPT !.sub = s] IN Keeps(row, new) /\ Keeps(row, NoGrace(new))
<1> DEFINE plan == WithPlan(row, p)
           new == [plan EXCEPT !.sub = s]
<1>1. Keeps(row, plan)
  BY PlanChanged
<1>2. Keeps(plan, new)
  BY <1>1, SubChanged DEF Keeps
<1>3. Keeps(row, new)
  <2> HIDE DEF plan, new
  <2>1. QED
    BY <1>1, <1>2, KeptOn
<1>4. Keeps(new, NoGrace(new))
  BY <1>3, GraceEnded DEF Keeps
<1> HIDE DEF new
<1>5. Keeps(row, NoGrace(new))
  BY <1>3, <1>4, KeptOn
<1>6. QED
  BY <1>3, <1>5 DEF new

\* Whatever a notification says, the row it leaves keeps the limit of its plan.
LEMMA NotifiedRow ==
  ASSUME NEW row \in Row, NEW s \in Subs, NEW seen, clock \in 0 .. MaxClock
  PROVE  Keeps(row, ByMercadoPago(row, s, seen)) /\ Keeps(row, ByStripe(row, s, seen))
<1>1. PlanOf[s] \in Current /\ "ESTANDAR" \in Current
  BY SubscriptionAssumption DEF Current, Plans
<1>2. Keeps(row, Subscribed(row, s)) /\ Keeps(row, Downgraded(row)) /\ Keeps(row, WithGrace(row))
  BY <1>1, SubscribedRow, DowngradedRow, GraceStarted DEF Subscribed
<1>3. /\ Keeps(row, [WithPlan(row, PlanOf[s]) EXCEPT !.sub = s])
      /\ Keeps(row, [WithPlan(row, "ESTANDAR") EXCEPT !.sub = Nobody])
  BY <1>1, SubscribedRow
<1>4. Keeps(row, row)
  BY DEF Keeps
<1>5. Keeps(row, ByMercadoPago(row, s, seen))
  BY <1>2, <1>4 DEF ByMercadoPago
<1>6. Keeps(row, ByStripe(row, s, seen))
  BY <1>3 DEF ByStripe
<1>7. QED
  BY <1>5, <1>6

-----------------------------------------------------------------------------
(* What a request will write.                                              *)

\* Columns of the row.
Writes(f) == DOMAIN f \subseteq DOMAIN Columns /\ \A c \in DOMAIN f : f[c] \in Columns[c]

LEMMA NothingWritten == Writes(<<>>)
BY DEF Writes

LEMMA RowColumns ==
  ASSUME NEW row \in Row
  PROVE  /\ DOMAIN row = {"plan", "limit", "sub", "config"} /\ DOMAIN Columns = DOMAIN row
         /\ row = [c \in DOMAIN row |-> row[c]]
         /\ row["plan"] \in Columns["plan"] /\ row["limit"] \in Columns["limit"]
         /\ row["sub"] \in Columns["sub"] /\ row["config"] \in Columns["config"]
         /\ \A c \in DOMAIN row : row[c] \in Columns[c]
<1>1. /\ DOMAIN row = {"plan", "limit", "sub", "config"} /\ DOMAIN Columns = DOMAIN row
      /\ row = [c \in DOMAIN row |-> row[c]]
      /\ row["plan"] \in Columns["plan"] /\ row["limit"] \in Columns["limit"]
      /\ row["sub"] \in Columns["sub"] /\ row["config"] \in Columns["config"]
  BY DEF Row, Columns
<1>2. QED
  BY <1>1

LEMMA ChangedColumns ==
  ASSUME NEW new
  PROVE  /\ DOMAIN Changed(new) = { c \in DOMAIN new : new[c] # tenant[c] }
         /\ \A c \in DOMAIN Changed(new) : Changed(new)[c] = new[c]
BY DEF Changed

LEMMA ChangedWrites == ASSUME NEW new \in Row PROVE Writes(Changed(new))
<1> DEFINE f == Changed(new)
<1>1. DOMAIN f \subseteq DOMAIN new /\ \A c \in DOMAIN f : f[c] = new[c]
  BY ChangedColumns
<1> HIDE DEF f
<1>2. Writes(f)
  BY <1>1, RowColumns DEF Writes
<1>3. QED
  BY <1>2 DEF f

LEMMA ConfigWritten == ASSUME tenant \in Row PROVE Writes([config |-> tenant.config])
<1> DEFINE f == [config |-> tenant.config]
<1>1. DOMAIN f = {"config"} /\ f["config"] = tenant.config
  OBVIOUS
<1> HIDE DEF f
<1>2. Writes(f)
  BY <1>1, RowColumns DEF Writes
<1>3. QED
  BY <1>2 DEF f

\* A row stays one, whatever was written since the request has read it.
LEMMA WrittenRow ==
  ASSUME tenant \in Row, NEW r, Writes(work[r].writes) PROVE Written(r) \in Row
<1> DEFINE f == work[r].writes
<1>1. DOMAIN tenant = {"plan", "limit", "sub", "config"} /\ DOMAIN f \subseteq DOMAIN tenant
  BY RowColumns DEF Writes
<1>2. Written(r) = [c \in DOMAIN tenant |-> IF c \in DOMAIN f THEN f[c] ELSE tenant[c]]
  BY <1>1 DEF Written
<1>3. \A c \in DOMAIN f : f[c] \in Columns[c]
  BY DEF Writes
<1>4. QED
  BY <1>1, <1>2, <1>3 DEF Row, Columns

-----------------------------------------------------------------------------
(* The requests.                                                           *)

Shaped(w) == DOMAIN w = DOMAIN Idle /\ Request(w)

\* A request has a notification in hand.
InHand(w) == w.at # "idle" /\ w.op = "event"

Sound(w) ==
  /\ Shaped(w) /\ (w.at \in {"fetch", "load"} => w.op = "event") /\ (w.at = "count" => w.op # "event")
  /\ InHand(w) => w.event \in DOMAIN events

WorkInv == work = [r \in Requests |-> work[r]] /\ \A r \in Requests : Sound(work[r])

\* The inductive invariant behind TypeOK.
PlanInv == TypeOK /\ Len(events) <= MaxEvents /\ WorkInv

Event == [sub : Subs, status : Statuses, key : 1 .. MaxEvents]
Effect == [event : 1 .. MaxEvents, asOf : 0 .. MaxEvents]

LEMMA IdleShaped == Shaped(Idle)
<1>1. DOMAIN <<>> = {}
  OBVIOUS
<1>2. QED
  BY <1>1, SubscriptionAssumption DEF Shaped, Idle, Request, Ops, Statuses

\* The stage of a request changes.
LEMMA StageShaped ==
  ASSUME NEW w, Shaped(w), NEW a \in {"idle", "fetch", "load", "count", "commit"}
  PROVE  Shaped([w EXCEPT !.at = a, !.limit = 0])
BY DEF Shaped, Request, Idle

\* A request has seen a status.
LEMMA SeenShaped ==
  ASSUME NEW w, Shaped(w), NEW seen \in Statuses, NEW asOf \in 0 .. MaxEvents
  PROVE  Shaped([w EXCEPT !.at = "load", !.seen = seen, !.asOf = asOf])
BY DEF Shaped, Request, Idle

\* A request has loaded the row.
LEMMA LoadedShaped ==
  ASSUME NEW w, Shaped(w), NEW op \in Ops, NEW a \in {"count", "commit"}, NEW l \in Nat,
         NEW f, Writes(f)
  PROVE  Shaped([w EXCEPT !.at = a, !.op = op, !.seen = "pending", !.limit = l, !.writes = f])
<1> DEFINE n == [w EXCEPT !.at = a, !.op = op, !.seen = "pending", !.limit = l, !.writes = f]
<1>1. /\ DOMAIN n = DOMAIN Idle /\ n.at = a /\ n.op = op /\ n.event = w.event
      /\ n.seen = "pending" /\ n.asOf = w.asOf /\ n.limit = l /\ n.writes = f
  BY DEF Shaped, Idle
<1> HIDE DEF n
<1>2. Shaped(n)
  BY <1>1 DEF Shaped, Request, Statuses, Writes
<1>3. QED
  BY <1>2 DEF n

\* One request moves on.
LEMMA OneRequest ==
  ASSUME PlanInv, NEW r \in Requests, NEW n, Sound(n), UNCHANGED events,
         work' = [work EXCEPT ![r] = n]
  PROVE  WorkInv' /\ DOMAIN work' = Requests /\ \A q \in Requests : Request(work'[q])
BY DEF PlanInv, WorkInv, Sound, InHand, Shaped

LEMMA IdleAgain ==
  ASSUME PlanInv, NEW r \in Requests, UNCHANGED events, work' = [work EXCEPT ![r] = Idle]
  PROVE  WorkInv' /\ DOMAIN work' = Requests /\ \A q \in Requests : Request(work'[q])
<1>1. Sound(Idle)
  BY IdleShaped DEF Sound, Idle, InHand
<1>2. QED
  BY <1>1, OneRequest

\* A request loads the row as it was committed last, and will write what it changes.
LEMMA RowLoaded ==
  ASSUME PlanInv, NEW r \in Requests, UNCHANGED events, NEW op \in Ops, NEW at \in {"count", "commit"},
         NEW l \in Nat, NEW f, Writes(f), Loaded(r, op, at, l, f),
         op = "event" => at = "commit" /\ InHand(work[r])
  PROVE  /\ WorkInv' /\ DOMAIN work' = Requests /\ \A q \in Requests : Request(work'[q])
         /\ raced' \in BOOLEAN
<1> DEFINE n == [work[r] EXCEPT !.at = at, !.op = op, !.seen = "pending", !.limit = l, !.writes = f]
<1>1. Shaped(n)
  BY LoadedShaped DEF PlanInv, WorkInv, Sound
<1>2. n.at = at /\ n.op = op /\ n.event = work[r].event
  BY DEF PlanInv, WorkInv, Sound, Shaped, Idle
<1>3. work' = [work EXCEPT ![r] = n]
  BY DEF Loaded, PlanInv, WorkInv
<1> HIDE DEF n
<1>4. Sound(n)
  BY <1>1, <1>2 DEF Sound, InHand, PlanInv, WorkInv
<1>5. raced' \in BOOLEAN
  BY DEF Loaded, PlanInv, TypeOK
<1>6. QED
  BY <1>3, <1>4, <1>5, OneRequest

\* The stage of a request changes.
LEMMA OtherStage ==
  ASSUME PlanInv, NEW r \in Requests, UNCHANGED events, NEW n, Shaped(n),
         n.op = work[r].op, n.event = work[r].event, work[r].at # "idle",
         n.at \in {"fetch", "load"} => n.op = "event", n.at # "count",
         work' = [work EXCEPT ![r] = n]
  PROVE  WorkInv' /\ DOMAIN work' = Requests /\ \A q \in Requests : Request(work'[q])
<1>1. Sound(n)
  BY DEF Sound, InHand, PlanInv, WorkInv
<1>2. QED
  BY <1>1, OneRequest

LEMMA EventTyped ==
  ASSUME PlanInv, NEW e \in DOMAIN events
  PROVE  /\ events[e].sub \in Subs /\ events[e].status \in Statuses /\ events[e].key \in 1 .. MaxEvents
         /\ e \in 1 .. MaxEvents /\ Len(events) \in 1 .. MaxEvents
<1>1. events \in Seq(Event) /\ Len(events) <= MaxEvents
  BY DEF PlanInv, TypeOK, Event
<1>2. events[e] \in Event /\ e \in 1 .. MaxEvents /\ Len(events) \in 1 .. MaxEvents
  BY <1>1, SubscriptionAssumption
<1>3. QED
  BY <1>2 DEF Event

LEMMA StandsStill == ASSUME PlanInv, UNCHANGED <<work, events>> PROVE WorkInv'
BY DEF PlanInv, WorkInv, Sound

\* The keys of earlier notifications are numbers of notifications.
LEMMA SharedTyped == ASSUME PlanInv, NEW s PROVE SharedKeys(s) \subseteq 1 .. MaxEvents
<1>1. SharedKeys(s) \subseteq { events[e].key : e \in { e \in DOMAIN events : events[e].sub = s } }
  BY DEF SharedKeys
<1>2. QED
  BY <1>1, EventTyped

\* The last of a sequence that grows, and the others.
LEMMA Appended ==
  ASSUME NEW S, NEW s \in Seq(S), NEW e \in S
  PROVE  /\ Append(s, e) \in Seq(S)
         /\ Len(Append(s, e)) = Len(s) + 1 /\ Append(s, e)[Len(s) + 1] = e
         /\ Len(s) \in Nat /\ DOMAIN s = 1 .. Len(s)
         /\ DOMAIN Append(s, e) = DOMAIN s \cup {Len(s) + 1}
         /\ \A i \in DOMAIN s : Append(s, e)[i] = s[i]
OBVIOUS

\* A change at the provider.
LEMMA Changes ==
  ASSUME PlanInv, NEW s \in Subs, NEW to \in {"authorized", "paused", "cancelled"}, Change(s, to)
  PROVE  /\ Bought' = Bought \cup {s} /\ status'[s] = to /\ status' \in [Subs -> Statuses]
         /\ Latest' = Latest + 1 /\ Latest \in Nat /\ Latest + 1 <= MaxEvents
         /\ events' \in Seq(Event)
         /\ DOMAIN events = 1 .. Latest /\ DOMAIN events' = 1 .. Latest + 1
         /\ events'[Latest + 1].sub = s /\ events'[Latest + 1].status = to
         /\ \A e \in DOMAIN events : events'[e] = events[e]
         /\ UNCHANGED <<provider, mix, recorded, tenant, leads, work, clock, edits, faults,
                        applied, patched, raced>>
<1>1. Len(events) < MaxEvents /\ Len(events) \in Nat /\ events \in Seq(Event)
  BY DEF PlanInv, TypeOK, Change, Event
<1>2. PICK k \in SharedKeys(s) \cup {Len(events) + 1} :
             events' = Append(events, [sub |-> s, status |-> to, key |-> k])
  BY DEF Change
<1>3. k \in 1 .. MaxEvents
  BY <1>1, <1>2, SharedTyped, SubscriptionAssumption
<1> DEFINE e == [sub |-> s, status |-> to, key |-> k]
<1>4. e \in Event /\ e.sub = s /\ e.status = to
  BY <1>3 DEF Event, Statuses
<1> HIDE DEF e
<1>5. events' = Append(events, e)
  BY <1>2 DEF e
<1>6. /\ events' \in Seq(Event)
      /\ Len(events') = Len(events) + 1 /\ events'[Len(events) + 1] = e
      /\ Len(events) \in Nat /\ DOMAIN events = 1 .. Len(events)
      /\ DOMAIN events' = DOMAIN events \cup {Len(events) + 1}
      /\ \A i \in DOMAIN events : events'[i] = events[i]
  BY <1>1, <1>4, <1>5, Appended
<1>7. DOMAIN events' = 1 .. Len(events) + 1
  BY <1>6
<1>8. status' = [status EXCEPT ![s] = to] /\ status \in [Subs -> Statuses] /\ to # "pending"
  BY DEF PlanInv, TypeOK, Change
<1>9. Bought' = Bought \cup {s} /\ status'[s] = to /\ status' \in [Subs -> Statuses]
  BY <1>8 DEF Bought, Statuses
<1>10. Latest + 1 <= MaxEvents
  BY <1>1, SubscriptionAssumption DEF Latest
<1>11. QED
  BY <1>4, <1>6, <1>7, <1>9, <1>10 DEF Latest, Change

\* A notification takes effect.
LEMMA EffectTyped ==
  ASSUME PlanInv, NEW e \in 1 .. MaxEvents, NEW a \in 0 .. MaxEvents,
         applied' = Append(applied, [event |-> e, asOf |-> a])
  PROVE  /\ applied' \in Seq(Effect) /\ Len(applied') = Len(applied) + 1 /\ Len(applied) \in Nat
         /\ applied'[Len(applied) + 1].event = e /\ applied'[Len(applied) + 1].asOf = a
         /\ DOMAIN applied = 1 .. Len(applied) /\ DOMAIN applied' = DOMAIN applied \cup {Len(applied) + 1}
         /\ \A i \in DOMAIN applied : applied'[i] = applied[i]
<1> DEFINE x == [event |-> e, asOf |-> a]
<1>1. x \in Effect /\ x.event = e /\ x.asOf = a
  BY DEF Effect
<1>2. applied \in Seq(Effect)
  BY DEF PlanInv, TypeOK, Effect
<1> HIDE DEF x
<1>3. applied' = Append(applied, x)
  BY DEF x
<1>4. QED
  BY <1>1, <1>2, <1>3, Appended

\* PlanInv is inductive: what a request computed from a row can be written over
\* any other.
THEOREM PlanCorrect == Spec => []PlanInv
<1>1. Init => PlanInv
  <2> SUFFICES ASSUME Init PROVE PlanInv
    OBVIOUS
  <2>1. mix.from \in Plans
    BY SubscriptionAssumption DEF Init, Plans
  <2>2. Fresh(mix.from) \in Row
    BY <2>1, SubscriptionAssumption DEF Fresh, Row, None
  <2>3. Sound(Idle)
    BY IdleShaped DEF Sound, Idle, InHand
  <2>4. WorkInv /\ DOMAIN work = Requests /\ \A r \in Requests : Request(work[r])
    BY <2>3 DEF Init, WorkInv, Sound, Shaped
  <2>5. TypeOK
    <3>1. tenant \in Row
      BY <2>2 DEF Init
    <3>2. status \in [Subs -> Statuses]
      BY DEF Init, Statuses
    <3>3. /\ clock \in 0 .. MaxClock /\ edits \in 0 .. MaxEdits /\ faults \in 0 .. MaxFaults
          /\ leads \in Nat
      <4>1. clock = 0 /\ edits = 0 /\ faults = 0 /\ leads = 0
        BY DEF Init
      <4>2. MaxClock \in Nat /\ MaxEdits \in Nat /\ MaxFaults \in Nat
        BY SubscriptionAssumption
      <4>3. QED
        BY <4>1, <4>2
    <3> provider \in Providers /\ mix \in Mixes /\ raced \in BOOLEAN /\ patched \in BOOLEAN
      BY Zenon DEF Init
    <3>4. events = <<>> /\ recorded = {} /\ applied = <<>>
      BY DEF Init
    <3>5. events \in Seq(Event) /\ recorded \subseteq 1 .. MaxEvents /\ applied \in Seq(Effect)
      BY <3>4
    <3>6. QED
      BY <2>4, <3>1, <3>2, <3>3, <3>5 DEF TypeOK, Event, Effect
  <2>6. Len(events) <= MaxEvents
    BY SubscriptionAssumption DEF Init
  <2>7. QED
    BY <2>4, <2>5, <2>6 DEF PlanInv
<1>2. PlanInv /\ [Next]_vars => PlanInv'
  <2> SUFFICES ASSUME PlanInv, [Next]_vars PROVE PlanInv'
    OBVIOUS
  <2> DEFINE Moved == /\ WorkInv' /\ DOMAIN work' = Requests
                      /\ \A q \in Requests : Request(work'[q])
  <2>0. tenant \in Row
    BY DEF PlanInv, TypeOK
  <2>1. ASSUME NEW s \in Subs, NEW to \in {"authorized", "paused", "cancelled"}, Change(s, to)
        PROVE  PlanInv'
    <3>1. /\ status' \in [Subs -> Statuses] /\ events' \in Seq(Event)
          /\ Latest' = Latest + 1 /\ Latest + 1 <= MaxEvents
          /\ DOMAIN events = 1 .. Latest /\ DOMAIN events' = 1 .. Latest + 1 /\ Latest \in Nat
          /\ UNCHANGED <<provider, mix, recorded, tenant, leads, work, clock, edits, faults,
                         applied, patched, raced>>
      BY <2>1, Changes
    <3>2. DOMAIN events \subseteq DOMAIN events' /\ Len(events') <= MaxEvents
      BY <3>1 DEF Latest
    <3>3. WorkInv'
      BY <3>1, <3>2 DEF PlanInv, WorkInv, Sound
    <3>4. QED
      BY <3>1, <3>2, <3>3 DEF PlanInv, TypeOK, Event
  <2>2. CASE Tick
    <3>1. clock' \in 0 .. MaxClock
      BY <2>2, SubscriptionAssumption DEF Tick, PlanInv, TypeOK
    <3>2. QED
      BY <2>2, <3>1, StandsStill DEF Tick, remote, PlanInv, TypeOK
  <2>3. ASSUME NEW r \in Requests, NEW e \in DOMAIN events, Receive(r, e) PROVE PlanInv'
    <3> DEFINE n == [Idle EXCEPT !.at = "fetch", !.op = "event", !.event = e]
    <3>1. Shaped(n) /\ n.op = "event" /\ n.event = e /\ n.at = "fetch"
      <4>1. e \in 0 .. MaxEvents
        BY EventTyped, SubscriptionAssumption
      <4>2. QED
        BY <4>1, IdleShaped DEF Shaped, Request, Idle, Ops
    <3>2. Sound(n)
      BY <3>1 DEF Sound, InHand
    <3> HIDE DEF n
    <3>3. /\ work' = [work EXCEPT ![r] = n]
          /\ UNCHANGED <<remote, recorded, tenant, leads, clock, edits, faults, applied, patched, raced>>
      BY <2>3 DEF Receive, n
    <3>4. Moved
      BY <3>2, <3>3, OneRequest DEF remote
    <3>5. QED
      BY <3>3, <3>4 DEF remote, PlanInv, TypeOK
  <2>4. ASSUME NEW r \in Requests, Fetch(r) PROVE PlanInv'
    <3> DEFINE event == events[work[r].event]
               seen == IF provider = "stripe" THEN event.status ELSE status[event.sub]
               asOf == IF provider = "stripe" THEN work[r].event ELSE Len(events)
               n == [work[r] EXCEPT !.at = "load", !.seen = seen, !.asOf = asOf]
    <3>1. work[r].event \in DOMAIN events /\ work[r].op = "event" /\ Shaped(work[r])
      BY <2>4 DEF Fetch, PlanInv, WorkInv, Sound, InHand
    <3>2. seen \in Statuses /\ asOf \in 0 .. MaxEvents
      <4>1. status \in [Subs -> Statuses]
        BY DEF PlanInv, TypeOK
      <4>2. QED
        BY <3>1, <4>1, EventTyped
    <3>3. /\ work' = [work EXCEPT ![r] = n] /\ work[r].at = "fetch"
          /\ UNCHANGED <<remote, recorded, tenant, leads, clock, edits, faults, applied, patched, raced>>
      BY <2>4 DEF Fetch, PlanInv, WorkInv
    <3>4. n.op = work[r].op /\ n.event = work[r].event /\ n.at = "load"
      BY <3>1 DEF Shaped, Idle
    <3> HIDE DEF seen, asOf
    <3>5. Shaped(n)
      BY <3>1, <3>2, SeenShaped
    <3> HIDE DEF n
    <3>6. Moved
      BY <3>1, <3>3, <3>4, <3>5, OtherStage DEF remote
    <3>7. QED
      BY <3>3, <3>6 DEF remote, PlanInv, TypeOK
  <2>5. ASSUME NEW r \in Requests, Apply(r) PROVE PlanInv'
    <3> DEFINE s == events[work[r].event].sub
               new == IF provider = "stripe" THEN ByStripe(tenant, s, work[r].seen)
                      ELSE ByMercadoPago(tenant, s, work[r].seen)
    <3>1. InHand(work[r]) /\ s \in Subs
      BY <2>5, EventTyped DEF Apply, PlanInv, WorkInv, Sound, InHand
    <3>2. new \in Row
      BY <2>0, <3>1, NotifiedRow DEF PlanInv, TypeOK, Keeps
    <3>3. /\ Loaded(r, "event", "commit", 0, Changed(new))
          /\ UNCHANGED <<remote, recorded, tenant, leads, clock, edits, faults, applied, patched>>
      BY <2>5 DEF Apply
    <3> HIDE DEF new
    <3>4. Writes(Changed(new))
      BY <3>2, ChangedWrites
    <3>5. Moved /\ raced' \in BOOLEAN
      BY <3>1, <3>3, <3>4, RowLoaded DEF remote, Ops
    <3>6. QED
      BY <3>3, <3>5 DEF remote, PlanInv, TypeOK
  <2>6. ASSUME NEW r \in Requests, CommitEvent(r) PROVE PlanInv'
    <3>1. tenant' \in Row
      BY <2>0, <2>6, WrittenRow DEF CommitEvent, PlanInv, WorkInv, Sound, Shaped, Request, Writes
    <3>2. Moved
      BY <2>6, IdleAgain DEF CommitEvent, remote
    <3>3. work[r].event \in DOMAIN events /\ work[r].asOf \in 0 .. MaxEvents
      BY <2>6 DEF CommitEvent, PlanInv, WorkInv, Sound, InHand, Shaped, Request
    <3>4. events[work[r].event].key \in 1 .. MaxEvents /\ work[r].event \in 1 .. MaxEvents
      BY <3>3, EventTyped
    <3>5. recorded' \subseteq 1 .. MaxEvents
      BY <2>6, <3>4 DEF CommitEvent, PlanInv, TypeOK
    <3>6. applied' \in Seq(Effect)
      BY <2>6, <3>3, <3>4, EffectTyped DEF CommitEvent
    <3>7. QED
      BY <2>6, <3>1, <3>2, <3>5, <3>6 DEF CommitEvent, remote, PlanInv, TypeOK, Effect
  <2>7. ASSUME NEW r \in Requests, ReadUsage(r) PROVE PlanInv'
    <3>1. Writes(Changed(Lazily(tenant)))
      BY <2>0, LazyRow, ChangedWrites DEF Keeps
    <3>2. Moved /\ raced' \in BOOLEAN
      BY <2>7, <3>1, RowLoaded DEF ReadUsage, remote, Ops
    <3>3. QED
      BY <2>7, <3>2 DEF ReadUsage, remote, PlanInv, TypeOK
  <2>8. ASSUME NEW r \in Requests, NEW op \in Ops \ {"event"}, NEW f, Writes(f),
               edits < MaxEdits, edits' = edits + 1, Loaded(r, op, "commit", 0, f),
               UNCHANGED <<remote, recorded, tenant, leads, clock, faults, applied, patched>>
        PROVE  PlanInv'
    <3>1. Moved /\ raced' \in BOOLEAN
      BY <2>8, RowLoaded DEF remote
    <3>2. edits' \in 0 .. MaxEdits
      BY <2>8, SubscriptionAssumption DEF PlanInv, TypeOK
    <3>3. QED
      BY <2>8, <3>1, <3>2 DEF remote, PlanInv, TypeOK
  <2>9. ASSUME NEW r \in Requests, EditConfig(r) PROVE PlanInv'
    BY <2>0, <2>8, <2>9, ConfigWritten DEF EditConfig, Ops
  <2>10. ASSUME NEW r \in Requests, NEW p \in Current, EditPlan(r, p) PROVE PlanInv'
    <3>1. Writes(Changed(WithPlan(tenant, p)))
      BY <2>0, PlanChanged, ChangedWrites DEF Keeps
    <3>2. QED
      BY <2>8, <2>10, <3>1 DEF EditPlan, Ops
  <2>11. ASSUME NEW r \in Requests, NEW p \in Plans, NEW limit \in Quotas \cup {tenant.limit},
                PatchTenant(r, p, limit)
         PROVE  PlanInv'
    <3>1. [tenant EXCEPT !.plan = p, !.limit = limit] \in Row
      BY <2>0, SubscriptionAssumption DEF Row
    <3>2. Writes(Changed([tenant EXCEPT !.plan = p, !.limit = limit]))
      BY <3>1, ChangedWrites
    <3>3. QED
      BY <2>8, <2>11, <3>2 DEF PatchTenant, Ops
  <2>12. ASSUME NEW r \in Requests, BeginLead(r) PROVE PlanInv'
    <3>1. Writes(Changed(Lazily(tenant))) /\ Lazily(tenant).limit \in Nat
      BY <2>0, LazyRow, ChangedWrites DEF Keeps, Row
    <3>2. Moved /\ raced' \in BOOLEAN
      BY <2>12, <3>1, RowLoaded DEF BeginLead, remote, Ops
    <3>3. QED
      BY <2>12, <3>2 DEF BeginLead, remote, PlanInv, TypeOK
  <2>13. ASSUME NEW r \in Requests, CountLeads(r) PROVE PlanInv'
    <3> DEFINE n == [work[r] EXCEPT !.at = "commit", !.limit = 0]
    <3>1. Shaped(n) /\ n.op = work[r].op /\ n.event = work[r].event /\ n.at = "commit"
      BY StageShaped DEF PlanInv, WorkInv, Sound, Shaped, Idle
    <3>2. work' = [work EXCEPT ![r] = n] /\ work[r].at = "count"
      BY <2>13 DEF CountLeads, PlanInv, WorkInv
    <3> HIDE DEF n
    <3>3. Moved
      BY <2>13, <3>1, <3>2, OtherStage DEF CountLeads, remote
    <3>4. QED
      BY <2>13, <3>3 DEF CountLeads, remote, PlanInv, TypeOK
  <2>14. ASSUME NEW r \in Requests, TooManyLeads(r) PROVE PlanInv'
    BY <2>14, IdleAgain DEF TooManyLeads, remote, PlanInv, TypeOK
  <2>15. ASSUME NEW r \in Requests, Commit(r) \/ InsertLead(r) PROVE PlanInv'
    <3>1. tenant' \in Row
      BY <2>0, <2>15, WrittenRow DEF Commit, InsertLead, PlanInv, WorkInv, Sound, Shaped, Request, Writes
    <3>2. Moved
      BY <2>15, IdleAgain DEF Commit, InsertLead, remote
    <3>3. leads' \in Nat
      BY <2>15 DEF Commit, InsertLead, PlanInv, TypeOK
    <3>4. patched' \in BOOLEAN
      <4>1. patched' = (patched \/ work[r].op = "admin") \/ patched' = patched
        BY <2>15 DEF Commit, InsertLead
      <4>2. patched \in BOOLEAN
        BY DEF PlanInv, TypeOK
      <4>3. QED
        BY <4>1, <4>2
    <3>5. QED
      BY <2>15, <3>1, <3>2, <3>3, <3>4 DEF Commit, InsertLead, remote, PlanInv, TypeOK
  <2>16. ASSUME NEW r \in Requests, Abort(r) PROVE PlanInv'
    <3>1. faults' \in 0 .. MaxFaults
      BY <2>16, SubscriptionAssumption DEF Abort, PlanInv, TypeOK
    <3>2. QED
      BY <2>16, <3>1, IdleAgain DEF Abort, remote, PlanInv, TypeOK
  <2>17. CASE UNCHANGED vars
    BY <2>17, StandsStill DEF vars, remote, PlanInv, TypeOK
  <2>18. QED
    BY <2>1, <2>2, <2>3, <2>4, <2>5, <2>6, <2>7, <2>9, <2>10, <2>11, <2>12, <2>13,
       <2>14, <2>15, <2>16, <2>17 DEF Next, Webhook, Panel
<1>3. QED
  BY <1>1, <1>2, PTL DEF Spec

\* Every variable keeps its type: the row, the notifications, the requests and
\* what they will write.
THEOREM TypeCorrect == Spec => []TypeOK
<1>1. PlanInv => TypeOK
  BY DEF PlanInv
<1>2. QED
  BY <1>1, PlanCorrect, PTL

-----------------------------------------------------------------------------
(* What happens to the requests.                                           *)

\* What a request writes into the row it has read is the row it has computed.
LEMMA WrittenChanged ==
  ASSUME tenant \in Row, NEW r, NEW new \in Row, tenant' = tenant,
         work'[r].writes = Changed(new)
  PROVE  Written(r)' = new
<1>1. DOMAIN new = DOMAIN tenant /\ new = [c \in DOMAIN tenant |-> new[c]]
  BY DEF Row
<1>2. /\ DOMAIN Changed(new) = { c \in DOMAIN tenant : new[c] # tenant[c] }
      /\ \A c \in DOMAIN Changed(new) : Changed(new)[c] = new[c]
  BY <1>1, ChangedColumns
<1>3. Written(r)' = [c \in DOMAIN tenant |->
                       IF c \in DOMAIN Changed(new) THEN Changed(new)[c] ELSE tenant[c]]
  BY DEF Written
<1>4. \A c \in DOMAIN tenant :
        (IF c \in DOMAIN Changed(new) THEN Changed(new)[c] ELSE tenant[c]) = new[c]
  BY <1>2
<1>5. QED
  BY <1>1, <1>3, <1>4

LEMMA WrittenConfig ==
  ASSUME tenant \in Row, NEW r, tenant' = tenant,
         work'[r].writes = [config |-> tenant.config]
  PROVE  Written(r)' = tenant
<1>1. tenant = [c \in DOMAIN tenant |-> tenant[c]]
  BY DEF Row
<1>2. Written(r)' = [c \in DOMAIN tenant |-> IF c \in {"config"} THEN tenant.config ELSE tenant[c]]
  BY DEF Written
<1>3. \A c \in DOMAIN tenant : (IF c \in {"config"} THEN tenant.config ELSE tenant[c]) = tenant[c]
  OBVIOUS
<1>4. QED
  BY <1>1, <1>2, <1>3

LEMMA WrittenKept ==
  ASSUME NEW r, tenant' = tenant, work'[r].writes = work[r].writes PROVE Written(r)' = Written(r)
BY DEF Written

LEMMA HolderLoaded ==
  ASSUME PlanInv, NEW r \in Requests, NEW op, NEW at, NEW l, NEW f, Loaded(r, op, at, l, f)
  PROVE  /\ work'[r].at = at /\ work'[r].op = op /\ work'[r].event = work[r].event
         /\ work'[r].asOf = work[r].asOf /\ work'[r].writes = f
         /\ \A q \in Requests \ {r} : work'[q] = work[q]
         /\ ~raced' => ~raced /\ \A q \in Requests \ {r} : ~Holds(q)
<1>1. work = [q \in Requests |-> work[q]] /\ DOMAIN work[r] = DOMAIN Idle
  BY DEF PlanInv, WorkInv, Sound, Shaped
<1>2. QED
  BY <1>1 DEF Loaded, Idle

LEMMA HolderIdle ==
  ASSUME PlanInv, NEW r \in Requests, work' = [work EXCEPT ![r] = Idle]
  PROVE  work'[r] = Idle /\ \A q \in Requests \ {r} : work'[q] = work[q]
BY DEF PlanInv, WorkInv

LEMMA HolderCounted ==
  ASSUME PlanInv, NEW r \in Requests, CountLeads(r)
  PROVE  /\ work[r].at = "count" /\ work'[r].at = "commit" /\ work'[r].op = work[r].op
         /\ work'[r].event = work[r].event /\ work'[r].asOf = work[r].asOf
         /\ work'[r].writes = work[r].writes
         /\ \A q \in Requests \ {r} : work'[q] = work[q]
<1>1. work = [q \in Requests |-> work[q]] /\ DOMAIN work[r] = DOMAIN Idle
  BY DEF PlanInv, WorkInv, Sound, Shaped
<1>2. QED
  BY <1>1 DEF CountLeads, Idle

LEMMA HolderFetched ==
  ASSUME PlanInv, NEW r \in Requests, Fetch(r)
  PROVE  /\ work[r].op = "event" /\ work[r].event \in DOMAIN events
         /\ work'[r].at = "load" /\ work'[r].op = work[r].op /\ work'[r].event = work[r].event
         /\ work'[r].seen = IF provider = "stripe" THEN events[work[r].event].status
                            ELSE status[events[work[r].event].sub]
         /\ work'[r].asOf = IF provider = "stripe" THEN work[r].event ELSE Len(events)
         /\ work'[r].writes = work[r].writes
         /\ \A q \in Requests \ {r} : work'[q] = work[q]
<1>1. work = [q \in Requests |-> work[q]] /\ DOMAIN work[r] = DOMAIN Idle
  BY DEF PlanInv, WorkInv, Sound, Shaped
<1>2. work[r].op = "event" /\ work[r].event \in DOMAIN events
  BY DEF Fetch, PlanInv, WorkInv, Sound, InHand
<1>3. QED
  BY <1>1, <1>2 DEF Fetch, Idle

LEMMA HolderReceived ==
  ASSUME PlanInv, NEW r \in Requests, NEW e, Receive(r, e)
  PROVE  /\ work'[r].at = "fetch" /\ work'[r].op = "event" /\ work'[r].event = e
         /\ work'[r].writes = <<>>
         /\ \A q \in Requests \ {r} : work'[q] = work[q]
<1>1. work = [q \in Requests |-> work[q]]
  BY DEF PlanInv, WorkInv
<1>2. QED
  BY <1>1 DEF Receive, Idle

\* The steps of a request that leave the row it has loaded, or never had it.
Steps(r) == Fetch(r) \/ CountLeads(r) \/ \E e \in DOMAIN events : Receive(r, e)
Commits(r) == CommitEvent(r) \/ Commit(r) \/ InsertLead(r)
Gives(r) == TooManyLeads(r) \/ Abort(r)
Loads(r) ==
  \/ Apply(r) \/ ReadUsage(r) \/ EditConfig(r) \/ BeginLead(r)
  \/ \E p \in Current : EditPlan(r, p)
  \/ \E p \in Plans, limit \in Quotas \cup {tenant.limit} : PatchTenant(r, p, limit)

LEMMA NextCases ==
  ASSUME [Next]_vars
  PROVE  \/ \E s \in Subs, to \in {"authorized", "paused", "cancelled"} : Change(s, to)
         \/ Tick \/ UNCHANGED vars
         \/ \E r \in Requests : Steps(r) \/ Commits(r) \/ Gives(r) \/ Loads(r)
BY DEF Next, Webhook, Panel, Steps, Commits, Gives, Loads

LEMMA StepsMove ==
  ASSUME PlanInv, NEW r \in Requests, Steps(r)
  PROVE  /\ UNCHANGED <<remote, recorded, tenant, applied, patched, raced>>
         /\ \A q \in Requests \ {r} : work'[q] = work[q]
         /\ Holds(r)' => Holds(r) /\ work'[r].op = work[r].op /\ work'[r].event = work[r].event
                                  /\ work'[r].asOf = work[r].asOf /\ work'[r].writes = work[r].writes
         /\ work'[r].at = "load" => Fetch(r)
         /\ \/ work'[r].writes = work[r].writes /\ work'[r].op = work[r].op
            \/ work'[r].writes = <<>>
         /\ \/ InHand(work[r]) /\ InHand(work'[r]) /\ work'[r].event = work[r].event
            \/ ~InHand(work[r]) /\ ~InHand(work'[r])
            \/ \E e \in DOMAIN events : NewKey(e) /\ work'[r].event = e
<1>1. CASE Fetch(r)
  BY <1>1, HolderFetched DEF Fetch, Holds, InHand
<1>2. CASE CountLeads(r)
  BY <1>2, HolderCounted DEF CountLeads, Holds, InHand
<1>3. ASSUME NEW e \in DOMAIN events, Receive(r, e)
      PROVE  /\ UNCHANGED <<remote, recorded, tenant, applied, patched, raced>>
             /\ \A q \in Requests \ {r} : work'[q] = work[q]
             /\ work'[r].at = "fetch" /\ work'[r].writes = <<>>
             /\ NewKey(e) /\ work'[r].event = e
  BY <1>3, HolderReceived DEF Receive
<1>4. QED
  BY <1>1, <1>2, <1>3 DEF Steps, Holds

LEMMA CommitsMove ==
  ASSUME PlanInv, NEW r \in Requests, Commits(r)
  PROVE  /\ Holds(r) /\ work[r].at = "commit" /\ tenant' = Written(r) /\ UNCHANGED <<remote, raced>>
         /\ work'[r] = Idle /\ \A q \in Requests \ {r} : work'[q] = work[q]
         /\ ~patched' => ~patched /\ work[r].op # "admin"
         /\ \/ /\ work[r].op = "event" /\ work[r].event \in DOMAIN events
               /\ recorded' = recorded \cup {events[work[r].event].key}
               /\ applied' = Append(applied, [event |-> work[r].event, asOf |-> work[r].asOf])
            \/ work[r].op # "event" /\ UNCHANGED <<recorded, applied>>
<1>1. work'[r] = Idle /\ \A q \in Requests \ {r} : work'[q] = work[q]
  BY HolderIdle DEF Commits, CommitEvent, Commit, InsertLead
<1>2. work[r].op = "event" /\ work[r].at # "idle" => work[r].event \in DOMAIN events
  BY DEF PlanInv, WorkInv, Sound, InHand
<1>3. ~patched' => ~patched /\ work[r].op # "admin"
  BY DEF Commits, CommitEvent, Commit, InsertLead
<1>4. QED
  BY <1>1, <1>2, <1>3 DEF Commits, CommitEvent, Commit, InsertLead, Holds

LEMMA GivesMove ==
  ASSUME PlanInv, NEW r \in Requests, Gives(r)
  PROVE  /\ UNCHANGED <<remote, recorded, tenant, applied, patched, raced>>
         /\ work'[r] = Idle /\ \A q \in Requests \ {r} : work'[q] = work[q]
BY HolderIdle DEF Gives, TooManyLeads, Abort

LEMMA LoadsMove ==
  ASSUME PlanInv, NEW r \in Requests, Loads(r)
  PROVE  /\ UNCHANGED <<remote, recorded, tenant, applied, patched>>
         /\ Holds(r)' /\ \A q \in Requests \ {r} : work'[q] = work[q]
         /\ ~raced' => ~raced /\ \A q \in Requests \ {r} : ~Holds(q)
         /\ work'[r].event = work[r].event /\ work'[r].asOf = work[r].asOf
         /\ \/ Apply(r) /\ work'[r].op = "event" /\ work'[r].at = "commit"
            \/ /\ work'[r].op # "event" /\ work[r].at = "idle"
               /\ \/ work'[r].writes = Changed(Lazily(tenant))
                  \/ work'[r].writes = [config |-> tenant.config]
                  \/ /\ "plan" \in mix.does
                     /\ \E p \in Current : work'[r].writes = Changed(WithPlan(tenant, p))
                  \/ /\ "admin" \in mix.does /\ work'[r].op = "admin"
                     /\ \E p \in Plans, limit \in Quotas \cup {tenant.limit} :
                          work'[r].writes = Changed([tenant EXCEPT !.plan = p, !.limit = limit])
<1> DEFINE Had == /\ UNCHANGED <<remote, recorded, tenant, applied, patched>>
                  /\ Holds(r)' /\ \A q \in Requests \ {r} : work'[q] = work[q]
                  /\ ~raced' => ~raced /\ \A q \in Requests \ {r} : ~Holds(q)
                  /\ work'[r].event = work[r].event /\ work'[r].asOf = work[r].asOf
<1>1. CASE Apply(r)
  <2>1. Had /\ work'[r].op = "event" /\ work'[r].at = "commit"
    BY <1>1, HolderLoaded DEF Apply, Holds
  <2>2. QED
    BY <1>1, <2>1
<1>2. CASE ReadUsage(r) \/ BeginLead(r)
  <2>1. /\ Had /\ work'[r].op # "event" /\ work[r].at = "idle"
        /\ work'[r].writes = Changed(Lazily(tenant))
    BY <1>2, HolderLoaded DEF ReadUsage, BeginLead, Holds
  <2>2. QED
    BY <2>1
<1>3. CASE EditConfig(r)
  <2>1. /\ Had /\ work'[r].op # "event" /\ work[r].at = "idle"
        /\ work'[r].writes = [config |-> tenant.config]
    BY <1>3, HolderLoaded DEF EditConfig, Holds
  <2>2. QED
    BY <2>1
<1>4. ASSUME NEW p \in Current, EditPlan(r, p)
      PROVE  /\ Had /\ work'[r].op # "event" /\ work[r].at = "idle"
             /\ "plan" \in mix.does /\ work'[r].writes = Changed(WithPlan(tenant, p))
  BY <1>4, HolderLoaded DEF EditPlan, Holds
<1>5. ASSUME NEW p \in Plans, NEW limit \in Quotas \cup {tenant.limit}, PatchTenant(r, p, limit)
      PROVE  /\ Had /\ "admin" \in mix.does /\ work'[r].op = "admin" /\ work[r].at = "idle"
             /\ work'[r].writes = Changed([tenant EXCEPT !.plan = p, !.limit = limit])
  BY <1>5, HolderLoaded DEF PatchTenant, Holds
<1> HIDE DEF Had
<1>6. CASE \E p \in Current : EditPlan(r, p)
  BY <1>4, <1>6 DEF Had
<1>7. CASE \E p \in Plans, limit \in Quotas \cup {tenant.limit} : PatchTenant(r, p, limit)
  BY <1>5, <1>7 DEF Had
<1>8. QED
  BY <1>1, <1>2, <1>3, <1>6, <1>7 DEF Loads

LEMMA StillRow ==
  ASSUME UNCHANGED vars \/ Tick
  PROVE  UNCHANGED <<remote, recorded, tenant, applied, patched, raced, work>>
BY DEF vars, Tick, remote

\* A request that does not hold the row writes nothing that was computed on it.
LEMMA HoldersStay ==
  ASSUME OneHolder, raced' = raced, \A r \in Requests : Holds(r)' => Holds(r)
  PROVE  OneHolder'
BY DEF OneHolder

LEMMA HolderAlone ==
  ASSUME OneHolder, NEW r \in Requests, ~raced' => ~raced /\ \A q \in Requests \ {r} : ~Holds(q),
         \A q \in Requests \ {r} : work'[q] = work[q]
  PROVE  OneHolder'
BY DEF OneHolder, Holds

\* OneHolder is inductive by the definition of raced.
THEOREM HolderCorrect == Spec => []OneHolder
<1>1. Init => OneHolder
  BY DEF Init, OneHolder, Holds, Idle
<1>2. PlanInv /\ OneHolder /\ [Next]_vars => OneHolder'
  <2> SUFFICES ASSUME PlanInv, OneHolder, [Next]_vars PROVE OneHolder'
    OBVIOUS
  <2>1. ASSUME NEW s \in Subs, NEW to \in {"authorized", "paused", "cancelled"}, Change(s, to)
        PROVE  OneHolder'
    BY <2>1 DEF Change, OneHolder, Holds
  <2>2. CASE Tick \/ UNCHANGED vars
    BY <2>2, StillRow DEF OneHolder, Holds
  <2>3. ASSUME NEW r \in Requests, Steps(r) PROVE OneHolder'
    BY <2>3, StepsMove, HoldersStay DEF Holds
  <2>4. ASSUME NEW r \in Requests, Commits(r) PROVE OneHolder'
    BY <2>4, CommitsMove, HoldersStay DEF Holds, Idle
  <2>5. ASSUME NEW r \in Requests, Gives(r) PROVE OneHolder'
    BY <2>5, GivesMove, HoldersStay DEF Holds, Idle
  <2>6. ASSUME NEW r \in Requests, Loads(r) PROVE OneHolder'
    BY <2>6, LoadsMove, HolderAlone
  <2>7. QED
    BY <2>1, <2>2, <2>3, <2>4, <2>5, <2>6, NextCases
<1>3. QED
  BY <1>1, <1>2, PlanCorrect, PTL DEF Spec

-----------------------------------------------------------------------------
(* The limits.                                                             *)

\* The plan and its limit are written together, or neither is.
Together(f) ==
  /\ "plan" \in DOMAIN f <=> "limit" \in DOMAIN f
  /\ "plan" \in DOMAIN f => f["plan"] \in Current /\ f["limit"] = Limit[f["plan"]]

\* Until an administrator of the platform interferes: a tenant that never had
\* the old plan has one that is sold, and requests write plan and limit together;
\* one that had it has a consistent row while no two requests write it.
LimitInv ==
  ~patched =>
    /\ mix.from # "FREE" =>
         /\ tenant.plan \in Current /\ Consistent(tenant)
         /\ \A r \in Requests : work[r].op # "admin" => Together(work[r].writes)
    /\ mix.from = "FREE" /\ ~raced =>
         /\ Consistent(tenant)
         /\ \A r \in Requests : Holds(r) /\ work[r].op # "admin" => Consistent(Written(r))

\* Two plans that are sold never have one limit, so a changed plan is a changed limit.
LEMMA ChangedTogether ==
  ASSUME tenant \in Row, tenant.plan \in Current, Consistent(tenant), NEW new, Keeps(tenant, new)
  PROVE  Together(Changed(new))
<1>1. new \in Row /\ new.plan \in Current /\ Consistent(new)
  BY DEF Keeps
<1>2. new.plan # tenant.plan <=> new.limit # tenant.limit
  BY <1>1, SubscriptionAssumption DEF Consistent
<1> DEFINE f == Changed(new)
<1>3. /\ DOMAIN f = { c \in DOMAIN new : new[c] # tenant[c] } /\ \A c \in DOMAIN f : f[c] = new[c]
      /\ DOMAIN new = {"plan", "limit", "sub", "config"}
  BY <1>1, ChangedColumns, RowColumns
<1> HIDE DEF f
<1>4. "plan" \in DOMAIN f <=> "limit" \in DOMAIN f
  BY <1>2, <1>3
<1>5. Together(f)
  BY <1>1, <1>3, <1>4 DEF Together, Consistent
<1>6. QED
  BY <1>5 DEF f

\* What a request that is not an administrator's has computed on the row.
LEMMA LoadsKeep ==
  ASSUME PlanInv, NEW r \in Requests, Loads(r), work'[r].op # "admin"
  PROVE  \/ work'[r].writes = [config |-> tenant.config]
         \/ \E new : Keeps(tenant, new) /\ work'[r].writes = Changed(new)
<1>1. tenant \in Row
  BY DEF PlanInv, TypeOK
<1>2. CASE Apply(r)
  <2> DEFINE s == events[work[r].event].sub
             new == IF provider = "stripe" THEN ByStripe(tenant, s, work[r].seen)
                    ELSE ByMercadoPago(tenant, s, work[r].seen)
  <2>1. s \in Subs /\ clock \in 0 .. MaxClock
    BY <1>2, EventTyped DEF Apply, PlanInv, TypeOK, WorkInv, Sound, InHand
  <2>2. Keeps(tenant, new)
    BY <1>1, <2>1, NotifiedRow
  <2>3. Loaded(r, "event", "commit", 0, Changed(new))
    BY <1>2 DEF Apply
  <2> HIDE DEF new
  <2>4. QED
    BY <2>2, <2>3, HolderLoaded
<1>3. Keeps(tenant, Lazily(tenant)) /\ \A p \in Current : Keeps(tenant, WithPlan(tenant, p))
  BY <1>1, LazyRow, PlanChanged
<1>4. QED
  BY <1>2, <1>3, LoadsMove

LEMMA LimitWritten ==
  ASSUME tenant \in Row, tenant.plan \in Current, Consistent(tenant), NEW r,
         Writes(work[r].writes), Together(work[r].writes)
  PROVE  Written(r).plan \in Current /\ Consistent(Written(r))
<1> DEFINE f == work[r].writes
<1>1. DOMAIN tenant = {"plan", "limit", "sub", "config"}
  BY RowColumns
<1>2. Written(r) = [c \in DOMAIN tenant |-> IF c \in DOMAIN f THEN f[c] ELSE tenant[c]]
  BY DEF Written
<1>3. /\ Written(r).plan = IF "plan" \in DOMAIN f THEN f["plan"] ELSE tenant.plan
      /\ Written(r).limit = IF "limit" \in DOMAIN f THEN f["limit"] ELSE tenant.limit
  BY <1>1, <1>2
<1>4. QED
  BY <1>3 DEF Together, Consistent

\* LimitInv is inductive.
THEOREM LimitInvCorrect == Spec => []LimitInv
<1>1. Init => LimitInv
  <2> SUFFICES ASSUME Init PROVE LimitInv
    OBVIOUS
  <2>1. tenant = Fresh(mix.from) /\ mix.from \in {"FREE", "ESTANDAR"} /\ ~raced
    BY SubscriptionAssumption DEF Init
  <2>2. Consistent(tenant) /\ (mix.from # "FREE" => tenant.plan \in Current)
    BY <2>1 DEF Consistent, Fresh, Current, Plans
  <2>3. \A r \in Requests : work[r].writes = <<>> /\ ~Holds(r)
    BY DEF Init, Holds, Idle
  <2>4. Together(<<>>)
    BY DEF Together
  <2>5. QED
    BY <2>2, <2>3, <2>4 DEF LimitInv
<1>2. PlanInv /\ OneHolder /\ LimitInv /\ [Next]_vars => LimitInv'
  <2> SUFFICES ASSUME PlanInv, OneHolder, LimitInv, [Next]_vars PROVE LimitInv'
    OBVIOUS
  <2>0. tenant \in Row /\ Together(<<>>) /\ \A r \in Requests : Writes(work[r].writes)
    BY DEF PlanInv, TypeOK, Together, WorkInv, Sound, Shaped, Request, Writes
  <2>1. ASSUME UNCHANGED <<mix, tenant, work, patched, raced>> PROVE LimitInv'
    BY <2>1 DEF LimitInv, Holds, Written, Consistent
  <2>2. ASSUME NEW r \in Requests, UNCHANGED <<mix, tenant, patched, raced>>,
               \A q \in Requests \ {r} : work'[q] = work[q],
               \/ work'[r].writes = work[r].writes /\ work'[r].op = work[r].op
               \/ work'[r].writes = <<>>,
               Holds(r)' => Holds(r) /\ work'[r].op = work[r].op /\ work'[r].writes = work[r].writes
        PROVE  LimitInv'
    <3>1. \A q \in Requests : work'[q].op # "admin" =>
            \/ work[q].op # "admin" /\ work'[q].writes = work[q].writes
            \/ Together(work'[q].writes)
      BY <2>0, <2>2
    <3>2. \A q \in Requests : Holds(q)' =>
            Holds(q) /\ work'[q].op = work[q].op /\ Written(q)' = Written(q)
      BY <2>2, WrittenKept DEF Holds
    <3>3. QED
      BY <2>2, <3>1, <3>2 DEF LimitInv, Consistent
  <2>3. ASSUME NEW r \in Requests, Commits(r) PROVE LimitInv'
    <3>1. /\ Holds(r) /\ tenant' = Written(r) /\ UNCHANGED <<remote, raced>>
          /\ work'[r] = Idle /\ \A q \in Requests \ {r} : work'[q] = work[q]
          /\ ~patched' => ~patched /\ work[r].op # "admin"
      BY <2>3, CommitsMove
    <3>2. work'[r].writes = <<>> /\ ~Holds(r)'
      BY <3>1 DEF Idle, Holds
    <3>3. ASSUME ~patched', mix'.from # "FREE"
          PROVE  /\ tenant'.plan \in Current /\ Consistent(tenant')
                 /\ \A q \in Requests : work'[q].op # "admin" => Together(work'[q].writes)
      <4>1. ~patched /\ mix.from # "FREE" /\ work[r].op # "admin"
        BY <3>1, <3>3 DEF remote
      <4>2. QED
        BY <2>0, <3>1, <3>2, <4>1, LimitWritten DEF LimitInv
    <3>4. ASSUME ~patched', mix'.from = "FREE", ~raced'
          PROVE  Consistent(tenant') /\ \A q \in Requests : ~Holds(q)'
      <4>1. ~patched /\ mix.from = "FREE" /\ ~raced /\ work[r].op # "admin"
        BY <3>1, <3>4 DEF remote
      <4>2. Consistent(Written(r))
        BY <3>1, <4>1 DEF LimitInv
      <4>3. \A q \in Requests : ~Holds(q)'
        BY <3>1, <3>2, <4>1 DEF OneHolder, Holds
      <4>4. QED
        BY <3>1, <4>2, <4>3
    <3>5. QED
      BY <3>3, <3>4 DEF LimitInv, Consistent
  <2>4. ASSUME NEW r \in Requests, Loads(r) PROVE LimitInv'
    <3>1. /\ UNCHANGED <<mix, tenant, patched>> /\ \A q \in Requests \ {r} : work'[q] = work[q]
          /\ ~raced' => ~raced /\ \A q \in Requests \ {r} : ~Holds(q)
      BY <2>4, LoadsMove DEF remote
    <3>2. ASSUME ~patched, mix.from # "FREE", work'[r].op # "admin" PROVE Together(work'[r].writes)
      <4>1. tenant.plan \in Current /\ Consistent(tenant)
        BY <3>2 DEF LimitInv
      <4>2. CASE work'[r].writes = [config |-> tenant.config]
        BY <4>2 DEF Together
      <4>3. ASSUME NEW new, Keeps(tenant, new), work'[r].writes = Changed(new)
            PROVE  Together(work'[r].writes)
        BY <2>0, <4>1, <4>3, ChangedTogether
      <4>4. QED
        BY <2>4, <3>2, <4>2, <4>3, LoadsKeep
    <3>3. ASSUME ~patched, mix.from = "FREE", ~raced', work'[r].op # "admin" PROVE Consistent(Written(r)')
      <4>1. Consistent(tenant)
        BY <3>1, <3>3 DEF LimitInv
      <4>2. CASE work'[r].writes = [config |-> tenant.config]
        BY <2>0, <3>1, <4>1, <4>2, WrittenConfig
      <4>3. ASSUME NEW new, Keeps(tenant, new), work'[r].writes = Changed(new)
            PROVE  Consistent(Written(r)')
        BY <2>0, <3>1, <4>1, <4>3, WrittenChanged DEF Keeps
      <4>4. QED
        BY <2>4, <3>3, <4>2, <4>3, LoadsKeep
    <3>4. ASSUME NEW q \in Requests \ {r}, ~raced' PROVE ~Holds(q)'
      BY <3>1, <3>4 DEF Holds
    <3>5. ASSUME ~patched', mix'.from # "FREE"
          PROVE  /\ tenant'.plan \in Current /\ Consistent(tenant')
                 /\ \A q \in Requests : work'[q].op # "admin" => Together(work'[q].writes)
      BY <3>1, <3>2, <3>5 DEF LimitInv
    <3>6. ASSUME ~patched', mix'.from = "FREE", ~raced'
          PROVE  /\ Consistent(tenant')
                 /\ \A q \in Requests : Holds(q)' /\ work'[q].op # "admin" => Consistent(Written(q)')
      BY <3>1, <3>3, <3>4, <3>6 DEF LimitInv
    <3>7. QED
      BY <3>5, <3>6 DEF LimitInv, Consistent
  <2>5. ASSUME NEW s \in Subs, NEW to \in {"authorized", "paused", "cancelled"}, Change(s, to)
        PROVE  LimitInv'
    BY <2>1, <2>5 DEF Change
  <2>6. CASE Tick \/ UNCHANGED vars
    BY <2>1, <2>6, StillRow DEF remote
  <2>7. ASSUME NEW r \in Requests, Steps(r) PROVE LimitInv'
    BY <2>2, <2>7, StepsMove DEF remote
  <2>8. ASSUME NEW r \in Requests, Gives(r) PROVE LimitInv'
    BY <2>2, <2>8, GivesMove DEF remote, Idle, Holds
  <2>9. QED
    BY <2>3, <2>4, <2>5, <2>6, <2>7, <2>8, NextCases
<1>3. QED
  BY <1>1, <1>2, PlanCorrect, HolderCorrect, PTL DEF Spec

\* The limits of the tenant are those of its plan, however many webhooks, edits
\* and requests that downgrade it write the row at once, until an administrator
\* of the platform sets plan or limits apart; the old plan, whose limit is that of
\* another, needs that no two requests have the row at once.
THEOREM LimitsCorrect == Spec => []LimitsMatchPlan
<1>1. PlanInv /\ LimitInv => LimitsMatchPlan
  BY DEF LimitInv, Consistent, LimitsMatchPlan
<1>2. QED
  BY <1>1, PlanCorrect, LimitInvCorrect, PTL

-----------------------------------------------------------------------------
(* The notifications.                                                      *)

\* A notification in hand has a key that is not recorded, and is in no other hand.
RecordInv ==
  /\ RecordedIsApplied
  /\ \A i \in DOMAIN applied : applied[i].event \in DOMAIN events
  /\ \A r \in Requests : InHand(work[r]) => events[work[r].event].key \notin recorded
  /\ \A r, q \in Requests :
       InHand(work[r]) /\ InHand(work[q]) /\ events[work[r].event].key = events[work[q].event].key
         => r = q

Keys == [i \in DOMAIN applied |-> events[applied[i].event].key]

LEMMA RecordedKeys == RecordedIsApplied <=> IsInjective(Keys) /\ recorded = ToSet(Keys)
BY DEF RecordedIsApplied, Keys

\* No request takes a notification in hand that it had not, and none is recorded.
LEMMA NothingReceived ==
  ASSUME RecordInv, UNCHANGED <<events, recorded, applied>>,
         \A r \in Requests : InHand(work'[r]) => InHand(work[r]) /\ work'[r].event = work[r].event
  PROVE  RecordInv'
<1>1. RecordedIsApplied'
  BY RecordedKeys DEF RecordInv, RecordedIsApplied
<1>2. QED
  BY <1>1 DEF RecordInv, InHand

\* One more key is recorded.
LEMMA OneMore ==
  ASSUME NEW n \in Nat, NEW s, DOMAIN s = 1 .. n, NEW t, DOMAIN t = 1 .. n + 1,
         \A i \in 1 .. n : t[i] = s[i], IsInjective(s), t[n + 1] \notin ToSet(s)
  PROVE  IsInjective(t) /\ ToSet(t) = ToSet(s) \cup {t[n + 1]}
BY DEF IsInjective, ToSet

\* RecordInv is inductive: the key under the unique constraint is held from the
\* moment a request takes a notification until the commit that records it.
THEOREM RecordCorrect == Spec => []RecordInv
<1>1. Init => RecordInv
  BY DEF Init, RecordInv, RecordedIsApplied, InHand, Idle, IsInjective, ToSet
<1>2. PlanInv /\ RecordInv /\ [Next]_vars => RecordInv'
  <2> SUFFICES ASSUME PlanInv, RecordInv, [Next]_vars PROVE RecordInv'
    OBVIOUS
  <2>1. ASSUME NEW s \in Subs, NEW to \in {"authorized", "paused", "cancelled"}, Change(s, to)
        PROVE  RecordInv'
    <3>1. /\ DOMAIN events = 1 .. Latest /\ DOMAIN events' = 1 .. Latest + 1 /\ Latest \in Nat
          /\ \A e \in DOMAIN events : events'[e] = events[e]
          /\ UNCHANGED <<recorded, applied, work>>
      BY <2>1, Changes
    <3>2. DOMAIN events \subseteq DOMAIN events'
      BY <3>1
    <3>3. Keys' = Keys
      BY <3>1 DEF Keys, RecordInv
    <3>4. RecordedIsApplied'
      BY <3>1, <3>3, RecordedKeys DEF RecordInv, RecordedIsApplied, Keys
    <3>5. \A r \in Requests : InHand(work[r]) =>
            work[r].event \in DOMAIN events /\ events'[work[r].event] = events[work[r].event]
      BY <3>1 DEF PlanInv, WorkInv, Sound
    <3>6. QED
      BY <3>1, <3>2, <3>4, <3>5 DEF RecordInv
  <2>2. ASSUME NEW r \in Requests, Steps(r) PROVE RecordInv'
    <3>1. UNCHANGED <<events, recorded, applied>> /\ \A q \in Requests \ {r} : work'[q] = work[q]
      BY <2>2, StepsMove DEF remote
    <3>2. CASE InHand(work[r]) /\ InHand(work'[r]) /\ work'[r].event = work[r].event
      BY <3>1, <3>2, NothingReceived
    <3>3. CASE ~InHand(work[r]) /\ ~InHand(work'[r])
      BY <3>1, <3>3, NothingReceived
    <3>4. ASSUME NEW e \in DOMAIN events, NewKey(e), work'[r].event = e PROVE RecordInv'
      <4>1. /\ events[e].key \notin recorded
            /\ \A q \in Requests : InHand(work[q]) => events[work[q].event].key # events[e].key
        BY <3>4 DEF NewKey, Claimed, InHand
      <4>2. RecordedIsApplied'
        BY <3>1 DEF RecordInv, RecordedIsApplied
      <4>3. QED
        BY <3>1, <3>4, <4>1, <4>2 DEF RecordInv
    <3>5. QED
      BY <2>2, <3>2, <3>3, <3>4, StepsMove
  <2>3. ASSUME NEW r \in Requests, Commits(r) PROVE RecordInv'
    <3>1. /\ Holds(r) /\ UNCHANGED events
          /\ work'[r] = Idle /\ \A q \in Requests \ {r} : work'[q] = work[q]
      BY <2>3, CommitsMove DEF remote
    <3>2. \A q \in Requests : InHand(work'[q]) => q # r /\ work'[q] = work[q]
      BY <3>1 DEF InHand, Idle
    <3>3. CASE UNCHANGED <<recorded, applied>>
      BY <3>1, <3>2, <3>3, NothingReceived
    <3>4. ASSUME work[r].op = "event", work[r].event \in DOMAIN events,
                 recorded' = recorded \cup {events[work[r].event].key},
                 applied' = Append(applied, [event |-> work[r].event, asOf |-> work[r].asOf])
          PROVE  RecordInv'
      <4> DEFINE n == Len(applied)
                 key == events[work[r].event].key
      <4>1. InHand(work[r]) /\ key \notin recorded
        BY <3>1, <3>4 DEF InHand, Holds, RecordInv
      <4>2. work[r].event \in 1 .. MaxEvents /\ work[r].asOf \in 0 .. MaxEvents
        BY <3>4, EventTyped DEF PlanInv, TypeOK, Request
      <4>3. /\ n \in Nat /\ applied'[n + 1].event = work[r].event
            /\ DOMAIN applied = 1 .. n /\ DOMAIN applied' = DOMAIN applied \cup {n + 1}
            /\ \A i \in DOMAIN applied : applied'[i] = applied[i]
        BY <3>4, <4>2, EffectTyped
      <4>4. DOMAIN applied' = 1 .. n + 1
        BY <4>3
      <4>5. /\ DOMAIN Keys = 1 .. n /\ DOMAIN Keys' = 1 .. n + 1
            /\ \A i \in 1 .. n : Keys'[i] = Keys[i]
            /\ Keys'[n + 1] = key
        BY <3>1, <4>3, <4>4 DEF Keys
      <4>6. IsInjective(Keys) /\ recorded = ToSet(Keys)
        BY RecordedKeys DEF RecordInv
      <4> HIDE DEF n, key
      <4>7. IsInjective(Keys') /\ ToSet(Keys') = ToSet(Keys) \cup {Keys'[n + 1]}
        BY <4>1, <4>3, <4>5, <4>6, OneMore
      <4>8. RecordedIsApplied'
        BY <3>4, <4>5, <4>6, <4>7 DEF RecordedIsApplied, Keys, key
      <4>9. \A i \in DOMAIN applied' : applied'[i].event \in DOMAIN events'
        BY <3>1, <3>4, <4>3 DEF RecordInv
      <4>10. QED
        BY <3>1, <3>2, <3>4, <4>1, <4>8, <4>9 DEF RecordInv, key
    <3>5. QED
      BY <2>3, <3>3, <3>4, CommitsMove
  <2>4. ASSUME NEW r \in Requests, Gives(r) PROVE RecordInv'
    <3>1. /\ UNCHANGED <<events, recorded, applied>> /\ work'[r] = Idle
          /\ \A q \in Requests \ {r} : work'[q] = work[q]
      BY <2>4, GivesMove DEF remote
    <3>2. QED
      BY <3>1, NothingReceived DEF InHand, Idle
  <2>5. ASSUME NEW r \in Requests, Loads(r) PROVE RecordInv'
    <3>1. /\ UNCHANGED <<events, recorded, applied>> /\ \A q \in Requests \ {r} : work'[q] = work[q]
          /\ work'[r].event = work[r].event /\ (Apply(r) \/ work'[r].op # "event")
      BY <2>5, LoadsMove DEF remote
    <3>2. Apply(r) => InHand(work[r])
      BY DEF Apply, PlanInv, WorkInv, Sound, InHand
    <3>3. QED
      BY <3>1, <3>2, NothingReceived DEF InHand
  <2>6. CASE Tick \/ UNCHANGED vars
    BY <2>6, StillRow, NothingReceived DEF remote
  <2>7. QED
    BY <2>1, <2>2, <2>3, <2>4, <2>5, <2>6, NextCases
<1>3. QED
  BY <1>1, <1>2, PlanCorrect, PTL DEF Spec

\* A key is recorded exactly when a notification with it has taken effect, and
\* one does, however often the provider repeats it and whatever is rolled back.
THEOREM RecordedOnce == Spec => []RecordedIsApplied
<1>1. RecordInv => RecordedIsApplied
  BY DEF RecordInv
<1>2. QED
  BY <1>1, RecordCorrect, PTL

\* AgeInv is inductive: the status is fetched after the notification was sent.
THEOREM AgeCorrect == Spec => []AgeInv
<1>1. Init => AgeInv
  BY DEF Init, AgeInv, Idle, ToSet
<1>2. PlanInv /\ AgeInv /\ [Next]_vars => AgeInv'
  <2> SUFFICES ASSUME PlanInv, AgeInv, [Next]_vars PROVE AgeInv'
    OBVIOUS
  <2> DEFINE Old(w) == w.op = "event" /\ w.at \in {"load", "commit"}
  <2>0. /\ \A r \in Requests : Old(work[r]) => work[r].asOf \in work[r].event .. Latest
        /\ \A r \in Requests : InHand(work[r]) => work[r].event \in 1 .. Latest
        /\ Latest \in Nat /\ DOMAIN events = 1 .. Latest
    BY DEF AgeInv, PlanInv, WorkInv, Sound, TypeOK, Latest
  <2>1. ASSUME NEW s \in Subs, NEW to \in {"authorized", "paused", "cancelled"}, Change(s, to)
        PROVE  AgeInv'
    <3>1. Latest' = Latest + 1 /\ UNCHANGED <<work, applied>>
      BY <2>1, Changes
    <3>2. \A e : e .. Latest \subseteq e .. Latest'
      BY <2>0, <3>1
    <3>3. QED
      BY <3>1, <3>2 DEF AgeInv
  <2>2. ASSUME NEW r \in Requests, UNCHANGED <<events, applied>>,
               \A q \in Requests \ {r} : work'[q] = work[q],
               Old(work'[r]) => work'[r].asOf \in work'[r].event .. Latest
        PROVE  AgeInv'
    BY <2>2 DEF AgeInv, Latest
  <2>3. ASSUME NEW r \in Requests, Steps(r) PROVE AgeInv'
    <3>1. /\ UNCHANGED <<events, applied>> /\ \A q \in Requests \ {r} : work'[q] = work[q]
          /\ work'[r].at = "load" => Fetch(r)
          /\ Holds(r)' => Holds(r) /\ work'[r].op = work[r].op /\ work[r].at = "count"
      <4>1. Holds(r)' => CountLeads(r)
        BY <2>3, HolderFetched, HolderReceived DEF Steps, Holds
      <4>2. QED
        BY <2>3, <4>1, StepsMove, HolderCounted DEF remote, Holds
    <3>2. work'[r].at # "commit" \/ work'[r].op # "event"
      BY <3>1 DEF Holds, PlanInv, WorkInv, Sound
    <3>3. Fetch(r) => work'[r].asOf \in work'[r].event .. Latest
      BY <2>0, HolderFetched DEF Latest
    <3>4. QED
      BY <2>2, <3>1, <3>2, <3>3
  <2>4. ASSUME NEW r \in Requests, Commits(r) PROVE AgeInv'
    <3>1. /\ work[r].at = "commit" /\ UNCHANGED events
          /\ work'[r] = Idle /\ \A q \in Requests \ {r} : work'[q] = work[q]
      BY <2>4, CommitsMove DEF remote
    <3>2. ~Old(work'[r])
      BY <3>1 DEF Idle
    <3>3. CASE applied' = applied
      BY <2>2, <3>1, <3>2, <3>3
    <3>4. ASSUME work[r].op = "event",
                 applied' = Append(applied, [event |-> work[r].event, asOf |-> work[r].asOf])
          PROVE  AgeInv'
      <4>1. /\ work[r].event \in 1 .. MaxEvents /\ work[r].asOf \in 0 .. MaxEvents
            /\ work[r].asOf \in work[r].event .. Latest
        <5>1. work[r].event \in DOMAIN events
          BY <2>0, <3>1, <3>4 DEF InHand
        <5>2. QED
          BY <2>0, <3>1, <3>4, <5>1, EventTyped DEF PlanInv, TypeOK, Request
      <4>2. /\ applied'[Len(applied) + 1].event = work[r].event
            /\ applied'[Len(applied) + 1].asOf = work[r].asOf
            /\ DOMAIN applied' = DOMAIN applied \cup {Len(applied) + 1}
            /\ \A i \in DOMAIN applied : applied'[i] = applied[i]
        BY <3>4, <4>1, EffectTyped
      <4>3. \A i \in DOMAIN applied' : applied'[i].asOf \in applied'[i].event .. Latest
        BY <4>1, <4>2 DEF AgeInv, ToSet
      <4>4. \A a \in ToSet(applied') : a.asOf \in a.event .. Latest
        BY <4>3 DEF ToSet
      <4>5. Latest' = Latest
        BY <3>1 DEF Latest
      <4>6. \A q \in Requests : Old(work'[q]) => work'[q].asOf \in work'[q].event .. Latest
        BY <2>0, <3>1, <3>2
      <4>7. QED
        BY <4>4, <4>5, <4>6 DEF AgeInv
    <3>5. QED
      BY <2>4, <3>3, <3>4, CommitsMove
  <2>5. ASSUME NEW r \in Requests, Gives(r) PROVE AgeInv'
    <3>1. /\ UNCHANGED <<events, applied>> /\ work'[r] = Idle
          /\ \A q \in Requests \ {r} : work'[q] = work[q]
      BY <2>5, GivesMove DEF remote
    <3>2. ~Old(work'[r])
      BY <3>1 DEF Idle
    <3>3. QED
      BY <2>2, <3>1, <3>2
  <2>6. ASSUME NEW r \in Requests, Loads(r) PROVE AgeInv'
    <3>1. /\ UNCHANGED <<events, applied>> /\ \A q \in Requests \ {r} : work'[q] = work[q]
          /\ work'[r].event = work[r].event /\ work'[r].asOf = work[r].asOf
          /\ Apply(r) \/ work'[r].op # "event"
      BY <2>6, LoadsMove DEF remote
    <3>2. Apply(r) => Old(work[r])
      BY DEF Apply, PlanInv, WorkInv, Sound
    <3>3. Old(work'[r]) => work'[r].asOf \in work'[r].event .. Latest
      BY <2>0, <3>1, <3>2
    <3>4. QED
      BY <2>2, <3>1, <3>3
  <2>7. CASE Tick \/ UNCHANGED vars
    BY <2>7, StillRow DEF AgeInv, Latest, remote
  <2>8. QED
    BY <2>1, <2>3, <2>4, <2>5, <2>6, <2>7, NextCases
<1>3. QED
  BY <1>1, <1>2, PlanCorrect, PTL DEF Spec

-----------------------------------------------------------------------------
(* The plan that is paid for.                                              *)

\* ProviderInv is inductive: a change is told as it is made.
THEOREM ProviderCorrect == Spec => []ProviderInv
<1>1. Init => ProviderInv
  BY DEF Init, ProviderInv, Bought
<1>2. PlanInv /\ ProviderInv /\ [Next]_vars => ProviderInv'
  <2> SUFFICES ASSUME PlanInv, ProviderInv, [Next]_vars PROVE ProviderInv'
    OBVIOUS
  <2>1. ASSUME NEW s \in Subs, NEW to \in {"authorized", "paused", "cancelled"}, Change(s, to)
        PROVE  ProviderInv'
    <3>1. /\ Bought' = Bought \cup {s} /\ status'[s] = to
          /\ Latest' = Latest + 1 /\ Latest \in Nat
          /\ DOMAIN events = 1 .. Latest /\ DOMAIN events' = 1 .. Latest + 1
          /\ events'[Latest + 1].sub = s /\ events'[Latest + 1].status = to
          /\ \A e \in DOMAIN events : events'[e] = events[e]
      BY <2>1, Changes
    <3>2. ASSUME NEW e \in DOMAIN events' PROVE events'[e].sub \in Bought'
      <4>1. e \in DOMAIN events \/ e = Latest + 1
        BY <3>1
      <4>2. QED
        BY <3>1, <4>1 DEF ProviderInv
    <3>3. Latest' # 0 /\ status'[events'[Latest'].sub] = events'[Latest'].status
      BY <3>1
    <3>4. QED
      BY <3>2, <3>3 DEF ProviderInv
  <2>2. ASSUME UNCHANGED remote PROVE ProviderInv'
    BY <2>2 DEF remote, ProviderInv, Bought, Latest
  <2>3. QED
    BY <2>1, <2>2, StillRow, StepsMove, CommitsMove, GivesMove, LoadsMove, NextCases
<1>3. QED
  BY <1>1, <1>2, PlanCorrect, PTL DEF Spec

\* A request that computed a row with the grace period it has read writes none.
LEMMA ConfigUnchanged ==
  ASSUME NEW new, new.config = tenant.config PROVE "config" \notin DOMAIN Changed(new)
BY DEF Changed

\* NoGraceInv is inductive: under Stripe nothing sets a period but the handler of
\* Mercado Pago's, and the edit of the configuration writes what it has read.
THEOREM NoGraceCorrect == Spec => []NoGraceInv
<1>1. Init => NoGraceInv
  BY DEF Init, NoGraceInv, Fresh, Idle, None
<1>2. PlanInv /\ NoGraceInv /\ [Next]_vars => NoGraceInv'
  <2> SUFFICES ASSUME PlanInv, NoGraceInv, [Next]_vars PROVE NoGraceInv'
    OBVIOUS
  <2>1. ASSUME NEW s \in Subs, NEW to \in {"authorized", "paused", "cancelled"}, Change(s, to)
        PROVE  NoGraceInv'
    BY <2>1 DEF Change, NoGraceInv
  <2>2. CASE Tick \/ UNCHANGED vars
    BY <2>2, StillRow DEF NoGraceInv, remote
  <2>3. ASSUME NEW r \in Requests, Steps(r) PROVE NoGraceInv'
    BY <2>3, StepsMove DEF NoGraceInv, remote
  <2>4. ASSUME NEW r \in Requests, Commits(r) PROVE NoGraceInv'
    <3>1. "config" \in DOMAIN tenant
      BY DEF PlanInv, TypeOK, Row
    <3>2. tenant'.config = IF "config" \in DOMAIN work[r].writes THEN work[r].writes["config"]
                           ELSE tenant.config
      BY <2>4, <3>1, CommitsMove DEF Written
    <3>3. \A q \in Requests : "config" \in DOMAIN work'[q].writes => work'[q].writes = work[q].writes
      <4>1. work'[r] = Idle /\ \A q \in Requests \ {r} : work'[q] = work[q]
        BY <2>4, CommitsMove
      <4>2. "config" \notin DOMAIN Idle.writes
        BY DEF Idle
      <4>3. QED
        BY <4>1, <4>2
    <3>4. QED
      BY <2>4, <3>2, <3>3, CommitsMove DEF NoGraceInv, remote
  <2>5. ASSUME NEW r \in Requests, Gives(r) PROVE NoGraceInv'
    BY <2>5, GivesMove DEF NoGraceInv, remote, Idle
  <2>6. ASSUME NEW r \in Requests, Loads(r) PROVE NoGraceInv'
    <3> SUFFICES ASSUME provider = "stripe"
                 PROVE  "config" \in DOMAIN work'[r].writes => work'[r].writes["config"] = None
      BY <2>6, LoadsMove DEF NoGraceInv, remote
    <3>1. tenant.config = None /\ tenant \in Row
      BY DEF NoGraceInv, PlanInv, TypeOK
    <3>2. ASSUME NEW new, new.config = tenant.config, work'[r].writes = Changed(new)
          PROVE  "config" \notin DOMAIN work'[r].writes
      BY <3>2, ConfigUnchanged
    <3>3. CASE Apply(r)
      <4> DEFINE new == ByStripe(tenant, events[work[r].event].sub, work[r].seen)
      <4>1. Loaded(r, "event", "commit", 0, Changed(new))
        BY <3>3 DEF Apply
      <4>2. new.config = tenant.config
        BY <3>1 DEF ByStripe, WithPlan, Row
      <4> HIDE DEF new
      <4>3. QED
        BY <3>2, <4>1, <4>2, HolderLoaded
    <3>4. CASE work'[r].writes = Changed(Lazily(tenant))
      BY <3>1, <3>2, <3>4 DEF Lazily, Expired
    <3>5. CASE work'[r].writes = [config |-> tenant.config]
      BY <3>1, <3>5
    <3>6. ASSUME NEW p \in Current, work'[r].writes = Changed(WithPlan(tenant, p))
          PROVE  "config" \notin DOMAIN work'[r].writes
      <4>1. WithPlan(tenant, p).config = tenant.config
        BY <3>1 DEF WithPlan, Row
      <4>2. QED
        BY <3>2, <3>6, <4>1
    <3>7. ASSUME NEW p \in Plans, NEW limit \in Quotas \cup {tenant.limit},
                 work'[r].writes = Changed([tenant EXCEPT !.plan = p, !.limit = limit])
          PROVE  "config" \notin DOMAIN work'[r].writes
      <4>1. [tenant EXCEPT !.plan = p, !.limit = limit].config = tenant.config
        BY <3>1 DEF Row
      <4>2. QED
        BY <3>2, <3>7, <4>1
    <3>8. QED
      BY <2>6, <3>3, <3>4, <3>5, <3>6, <3>7, LoadsMove
  <2>7. QED
    BY <2>1, <2>2, <2>3, <2>4, <2>5, <2>6, NextCases
<1>3. QED
  BY <1>1, <1>2, PlanCorrect, PTL DEF Spec

\* The rows that the handlers compute agree with the status they have seen.
LEMMA MercadoPagoPaid ==
  ASSUME NEW row \in Row, NEW s \in Subs, NEW st \in Statuses, clock \in 0 .. MaxClock,
         provider = "mercadopago"
  PROVE  Paid(ByMercadoPago(row, s, st), s, st)
<1>1. clock \in Nat
  BY SubscriptionAssumption
<1>2. CASE st = "authorized"
  BY <1>2 DEF Paid, ByMercadoPago, Subscribed, NoGrace, WithPlan, Row
<1>3. CASE st = "cancelled"
  BY <1>3 DEF Paid, ByMercadoPago, Downgraded, NoGrace, WithPlan, Row
<1>4. CASE st = "paused" /\ Expired(row)
  BY <1>4 DEF Paid, ByMercadoPago, Downgraded, NoGrace, WithPlan, Row
<1>5. CASE st = "paused" /\ ~Expired(row)
  BY <1>1, <1>5 DEF Paid, ByMercadoPago, WithGrace, None, Row
<1>6. QED
  BY <1>2, <1>3, <1>4, <1>5 DEF Paid, Statuses

LEMMA StripePaid ==
  ASSUME NEW row \in Row, NEW s \in Subs, NEW st \in Statuses, row.config = None, provider = "stripe"
  PROVE  Paid(ByStripe(row, s, st), s, st)
BY DEF Paid, ByStripe, WithPlan, Row

\* A lazy downgrade takes no plan from a tenant that pays for it.
LEMMA LazilyPaid ==
  ASSUME NEW row \in Row, NEW s, NEW st, Paid(row, s, st) PROVE Paid(Lazily(row), s, st)
<1>1. CASE ~Expired(row)
  BY <1>1 DEF Lazily
<1>2. CASE Expired(row)
  <2>1. Lazily(row).plan = "ESTANDAR" /\ Lazily(row).sub = Nobody
    BY <1>2 DEF Lazily, Downgraded, NoGrace, WithPlan, Row
  <2>2. st # "authorized"
    BY <1>2 DEF Paid, Expired
  <2>3. QED
    BY <2>1, <2>2 DEF Paid
<1>3. QED
  BY <1>1, <1>2

\* What was applied last, and how old the statuses in hand are.
LEMMA NewestSent ==
  ASSUME PlanInv, AgeInv, RecordInv, applied # <<>>
  PROVE  Newest \in DOMAIN events /\ Len(applied) \in DOMAIN applied
<1>1. Len(applied) \in DOMAIN applied
  BY DEF PlanInv, TypeOK
<1>2. applied[Len(applied)] \in ToSet(applied)
  BY <1>1 DEF ToSet
<1>3. DOMAIN events = 1 .. Latest /\ Latest \in Nat
  BY DEF PlanInv, TypeOK, Latest
<1>4. applied[Len(applied)].event \in 1 .. Latest /\ Newest \in applied[Len(applied)].event .. Latest
  BY <1>1, <1>2, <1>3 DEF AgeInv, RecordInv, Newest
<1>5. QED
  BY <1>1, <1>3, <1>4

LEMMA SeenSent ==
  ASSUME PlanInv, AgeInv, NEW r \in Requests,
         work[r].at = "load" \/ (Holds(r) /\ work[r].op = "event")
  PROVE  work[r].asOf \in DOMAIN events /\ work[r].event \in DOMAIN events /\ work[r].op = "event"
<1>1. work[r].op = "event" /\ work[r].at \in {"load", "commit"} /\ work[r].event \in DOMAIN events
  BY DEF PlanInv, WorkInv, Sound, InHand, Holds
<1>2. DOMAIN events = 1 .. Latest /\ Latest \in Nat
  BY DEF PlanInv, TypeOK, Latest
<1>3. QED
  BY <1>1, <1>2 DEF AgeInv

\* A tenant that has bought nothing has had no notification.
LEMMA NothingApplied ==
  ASSUME PlanInv, RecordInv, ProviderInv, AgeInv, Bought = {}
  PROVE  DOMAIN events = {} /\ applied = <<>>
<1>1. DOMAIN events = {}
  BY DEF ProviderInv
<1>2. CASE applied # <<>>
  BY <1>1, <1>2, NewestSent
<1>3. QED
  BY <1>1, <1>2

Alone(s) == ~raced /\ mix.does \cap {"plan", "admin"} = {} /\ Bought = {s}

\* What one request of a tenant with one subscription is to know.
Told(s, r) ==
  /\ work[r].at = "load" => work[r].seen = events[work[r].asOf].status
  /\ Holds(r) /\ work[r].op = "event" => Paid(Written(r), s, events[work[r].asOf].status)
  /\ Holds(r) /\ work[r].op # "event" /\ applied # <<>> =>
       Paid(Written(r), s, events[Newest].status)

\* And what its row is.
Settles(s) == applied # <<>> => Paid(tenant, s, events[Newest].status)

LEMMA AgreeParts ==
  AgreeInv <=> \A s \in Subs : Alone(s) => Settles(s) /\ \A r \in Requests : Told(s, r)
BY DEF AgreeInv, Agrees, Alone, Settles, Told

\* One request moves, and the row and the record stay.
LEMMA AgreeMoves ==
  ASSUME AgreeInv, NEW r \in Requests, UNCHANGED <<remote, applied, tenant>>,
         \A q \in Requests \ {r} : work'[q] = work[q], ~raced' => ~raced,
         \A s \in Subs : Alone(s) /\ Settles(s) /\ Told(s, r) => Told(s, r)'
  PROVE  AgreeInv'
<1>1. ASSUME NEW s \in Subs, Alone(s)' PROVE Settles(s)' /\ \A q \in Requests : Told(s, q)'
  <2>1. Alone(s)
    BY <1>1 DEF Alone, remote, Bought
  <2>2. Settles(s) /\ \A q \in Requests : Told(s, q)
    BY <2>1, AgreeParts
  <2>3. Newest' = Newest
    BY DEF Newest
  <2>4. ASSUME NEW q \in Requests \ {r} PROVE Told(s, q)'
    <3>1. Written(q)' = Written(q) /\ (Holds(q)' <=> Holds(q))
      BY <2>4, WrittenKept DEF Holds
    <3>2. QED
      BY <2>2, <2>3, <3>1 DEF Told, Paid, remote
  <2>5. Settles(s)'
    BY <2>2, <2>3 DEF Settles, Paid, remote
  <2>6. QED
    BY <2>1, <2>2, <2>4, <2>5
<1>2. QED
  BY <1>1 DEF AgreeInv, Agrees, Alone, Settles, Told

\* A request commits the row: what it has left, and the notification it tells.
LEMMA AgreeCommits ==
  ASSUME PlanInv, RecordInv, AgeInv, OneHolder, AgreeInv, NEW r \in Requests, Commits(r)
  PROVE  AgreeInv'
<1>1. /\ Holds(r) /\ tenant' = Written(r) /\ UNCHANGED <<remote, raced>>
      /\ work'[r] = Idle /\ \A q \in Requests \ {r} : work'[q] = work[q]
  BY CommitsMove
<1>2. ASSUME NEW s \in Subs, Alone(s)' PROVE Settles(s)' /\ \A q \in Requests : Told(s, q)'
  <2>1. Alone(s)
    BY <1>1, <1>2 DEF Alone, remote, Bought
  <2>2. Settles(s) /\ \A q \in Requests : Told(s, q)
    BY <2>1, AgreeParts
  <2>3. ASSUME NEW q \in Requests PROVE ~Holds(q)'
    BY <1>1, <2>1 DEF OneHolder, Alone, Holds, Idle
  <2>4. ASSUME NEW q \in Requests PROVE Told(s, q)'
    BY <1>1, <2>2, <2>3 DEF Told, Idle, remote
  <2>5. ASSUME applied' # <<>> PROVE Paid(tenant, s, events[Newest].status)'
    <3>1. ASSUME work[r].op = "event", work[r].event \in DOMAIN events,
                 applied' = Append(applied, [event |-> work[r].event, asOf |-> work[r].asOf])
          PROVE  Paid(Written(r), s, events[Newest'].status)
      <4>1. work[r].event \in 1 .. MaxEvents /\ work[r].asOf \in 0 .. MaxEvents
        BY <3>1, EventTyped DEF PlanInv, TypeOK, Request
      <4>2. applied'[Len(applied')].asOf = work[r].asOf
        BY <3>1, <4>1, EffectTyped
      <4>3. Newest' = work[r].asOf
        BY <4>2 DEF Newest
      <4>4. QED
        BY <1>1, <2>2, <3>1, <4>3 DEF Told
    <3>2. ASSUME work[r].op # "event", applied' = applied
          PROVE  Paid(Written(r), s, events[Newest'].status)
      <4>1. Newest' = Newest
        BY <3>2 DEF Newest
      <4>2. QED
        BY <1>1, <2>2, <2>5, <3>2, <4>1 DEF Told
    <3>3. Paid(Written(r), s, events[Newest'].status)
      BY <3>1, <3>2, CommitsMove
    <3>4. QED
      BY <1>1, <3>3 DEF Paid, remote
  <2>6. QED
    BY <2>4, <2>5 DEF Settles
<1>3. QED
  BY <1>2 DEF AgreeInv, Agrees, Alone, Settles, Told

\* A request loads the row.
LEMMA AgreeLoads ==
  ASSUME PlanInv, ProviderInv, NoGraceInv, AgeInv, AgreeInv, NEW r \in Requests, Loads(r)
  PROVE  AgreeInv'
<1>1. /\ UNCHANGED <<remote, applied, tenant>> /\ Holds(r)' /\ (~raced' => ~raced)
      /\ \A q \in Requests \ {r} : work'[q] = work[q]
      /\ work'[r].event = work[r].event /\ work'[r].asOf = work[r].asOf
  BY LoadsMove
<1>0. tenant \in Row /\ clock \in 0 .. MaxClock
  BY DEF PlanInv, TypeOK
<1>2. ASSUME NEW s \in Subs, Alone(s), Settles(s), Told(s, r) PROVE Told(s, r)'
  <2>1. mix.does \cap {"plan", "admin"} = {} /\ Bought = {s}
    BY <1>2 DEF Alone
  <2>2. work'[r].at # "load" /\ Newest' = Newest
    BY <1>1 DEF Holds, Newest, remote
  <2>3. ASSUME NEW st PROVE Paid(Written(r), s, st)' <=> Paid(Written(r)', s, st')
    BY <1>1 DEF Paid, remote
  <2>4. CASE Apply(r)
    <3> DEFINE new == IF provider = "stripe" THEN ByStripe(tenant, s, work[r].seen)
                      ELSE ByMercadoPago(tenant, s, work[r].seen)
    <3>1. work[r].at = "load" /\ work[r].event \in DOMAIN events
      BY <2>4, SeenSent DEF Apply
    <3>2. events[work[r].event].sub = s
      BY <2>1, <3>1 DEF ProviderInv
    <3>3. Loaded(r, "event", "commit", 0, Changed(new))
      BY <2>4, <3>2 DEF Apply
    <3>4. new \in Row
      BY <1>0, NotifiedRow DEF Keeps
    <3>5. work[r].seen \in Statuses
      BY DEF PlanInv, TypeOK, Request
    <3>6. Paid(new, s, work[r].seen)
      <4>1. CASE provider = "stripe"
        <5>1. tenant.config = None
          BY <4>1 DEF NoGraceInv
        <5>2. QED
          BY <1>0, <3>5, <4>1, <5>1, StripePaid
      <4>2. CASE provider # "stripe"
        <5>1. provider = "mercadopago"
          BY <4>2, SubscriptionAssumption DEF PlanInv, TypeOK
        <5>2. QED
          BY <1>0, <3>5, <5>1, MercadoPagoPaid
      <4>3. QED
        BY <4>1, <4>2
    <3> HIDE DEF new
    <3>7. work'[r].writes = Changed(new) /\ work'[r].op = "event"
      BY <3>3, HolderLoaded
    <3>8. Written(r)' = new
      BY <1>0, <1>1, <3>4, <3>7, WrittenChanged
    <3>9. work[r].seen = events[work[r].asOf].status
      BY <1>2, <3>1 DEF Told
    <3>10. Paid(Written(r), s, events[work[r].asOf].status)'
      BY <1>1, <3>6, <3>8, <3>9 DEF Paid, remote
    <3>11. QED
      BY <2>2, <3>7, <3>10 DEF Told
  <2>5. ASSUME work'[r].op # "event" PROVE Told(s, r)'
    <3>1. ASSUME applied # <<>> PROVE Paid(Written(r)', s, events[Newest].status)
      <4>1. Paid(tenant, s, events[Newest].status)
        BY <1>2, <3>1 DEF Settles
      <4>2. CASE work'[r].writes = [config |-> tenant.config]
        BY <1>0, <1>1, <4>1, <4>2, WrittenConfig
      <4>3. CASE work'[r].writes = Changed(Lazily(tenant))
        <5>1. Lazily(tenant) \in Row
          BY <1>0, LazyRow DEF Keeps
        <5>2. Written(r)' = Lazily(tenant)
          BY <1>0, <1>1, <4>3, <5>1, WrittenChanged
        <5>3. QED
          BY <1>0, <4>1, <5>2, LazilyPaid
      <4>4. "plan" \notin mix.does /\ "admin" \notin mix.does
        BY <2>1
      <4>5. QED
        BY <2>5, <4>2, <4>3, <4>4, LoadsMove
    <3>2. ASSUME applied' # <<>> PROVE Paid(Written(r), s, events[Newest].status)'
      BY <1>1, <2>2, <3>1, <3>2 DEF Paid, remote
    <3>3. QED
      BY <2>2, <2>5, <3>2 DEF Told
  <2>6. QED
    BY <2>4, <2>5, LoadsMove
<1>3. QED
  BY <1>1, <1>2, AgreeMoves

\* A change at the provider: nothing that is known of earlier ones is other than it was.
LEMMA AgreeChanges ==
  ASSUME PlanInv, RecordInv, ProviderInv, AgeInv, AgreeInv,
         NEW s \in Subs, NEW to \in {"authorized", "paused", "cancelled"}, Change(s, to)
  PROVE  AgreeInv'
<1>1. /\ Bought' = Bought \cup {s} /\ \A e \in DOMAIN events : events'[e] = events[e]
      /\ UNCHANGED <<provider, mix, tenant, work, applied, raced>>
  BY Changes
<1>2. applied # <<>> => Newest' = Newest /\ Newest \in DOMAIN events
  BY <1>1, NewestSent DEF Newest
<1>3. ASSUME NEW x \in Subs, Alone(x)' PROVE Settles(x)' /\ \A q \in Requests : Told(x, q)'
  <2>1. CASE Bought = {}
    <3>1. DOMAIN events = {} /\ applied = <<>>
      BY <2>1, NothingApplied
    <3>2. \A q \in Requests : work[q].at # "load" /\ ~(Holds(q) /\ work[q].op = "event")
      BY <3>1, SeenSent
    <3>3. QED
      BY <1>1, <3>1, <3>2 DEF Told, Settles, Holds
  <2>2. CASE Bought # {}
    <3>1. Alone(x)
      BY <1>1, <1>3, <2>2 DEF Alone
    <3>2. Settles(x) /\ \A q \in Requests : Told(x, q)
      BY <3>1, AgreeParts
    <3>3. Settles(x)'
      BY <1>1, <1>2, <3>2 DEF Settles, Paid
    <3>4. ASSUME NEW q \in Requests PROVE Told(x, q)'
      <4>1. Written(q)' = Written(q) /\ (Holds(q)' <=> Holds(q))
        BY <1>1, WrittenKept DEF Holds
      <4>2. work'[q].at = "load" => work'[q].seen = events'[work'[q].asOf].status
        BY <1>1, <3>2, SeenSent DEF Told
      <4>3. Holds(q)' /\ work'[q].op = "event" => Paid(Written(q), x, events[work[q].asOf].status)'
        BY <1>1, <3>2, <4>1, SeenSent DEF Told, Paid
      <4>4. Holds(q)' /\ work'[q].op # "event" /\ applied' # <<>> =>
              Paid(Written(q), x, events[Newest].status)'
        BY <1>1, <1>2, <3>2, <4>1 DEF Told, Paid
      <4>5. QED
        BY <4>2, <4>3, <4>4 DEF Told
    <3>5. QED
      BY <3>3, <3>4
  <2>3. QED
    BY <2>1, <2>2
<1>4. QED
  BY <1>3 DEF AgreeInv, Agrees, Alone, Settles, Told

\* AgreeInv is inductive: a webhook sets what goes with the status it has seen on
\* a row that nobody else has, and only webhooks set it.
THEOREM AgreeCorrect == Spec => []AgreeInv
<1>1. Init => AgreeInv
  BY DEF Init, AgreeInv, Bought
<1> DEFINE Known == PlanInv /\ RecordInv /\ ProviderInv /\ OneHolder /\ NoGraceInv /\ AgeInv
<1>2. Known /\ AgreeInv /\ [Next]_vars => AgreeInv'
  <2> SUFFICES ASSUME PlanInv, RecordInv, ProviderInv, OneHolder, NoGraceInv, AgeInv, AgreeInv,
                      [Next]_vars
               PROVE  AgreeInv'
    OBVIOUS
  <2>1. ASSUME NEW s \in Subs, NEW to \in {"authorized", "paused", "cancelled"}, Change(s, to)
        PROVE  AgreeInv'
    BY <2>1, AgreeChanges
  <2>2. CASE Tick \/ UNCHANGED vars
    BY <2>2, StillRow DEF AgreeInv, Agrees, Newest, Paid, Written, Holds, Bought, remote
  <2>3. ASSUME NEW r \in Requests, Steps(r) PROVE AgreeInv'
    <3>1. /\ UNCHANGED <<remote, applied, tenant, raced>>
          /\ \A q \in Requests \ {r} : work'[q] = work[q]
          /\ Holds(r)' => Holds(r) /\ work'[r].op = work[r].op /\ work'[r].asOf = work[r].asOf
                                   /\ work'[r].writes = work[r].writes
          /\ work'[r].at = "load" => Fetch(r)
      BY <2>3, StepsMove
    <3>2. ASSUME NEW s \in Subs, Alone(s), Settles(s), Told(s, r) PROVE Told(s, r)'
      <4>1. ASSUME Fetch(r) PROVE work'[r].seen = events[work'[r].asOf].status
        <5>1. work[r].event \in DOMAIN events /\ DOMAIN events = 1 .. Latest /\ Latest \in Nat
          BY <4>1, HolderFetched DEF PlanInv, TypeOK, Latest
        <5>2. events[work[r].event].sub = s /\ events[Latest].sub = s
          BY <3>2, <5>1 DEF Alone, ProviderInv
        <5>3. status[s] = events[Latest].status
          BY <3>2, <5>2 DEF Alone, ProviderInv
        <5>4. QED
          BY <4>1, <5>2, <5>3, HolderFetched DEF Latest
      <4>2. ASSUME Holds(r)' PROVE Holds(r) /\ Written(r)' = Written(r) /\ Newest' = Newest
        BY <3>1, <4>2, WrittenKept DEF Newest
      <4>3. QED
        BY <3>1, <3>2, <4>1, <4>2 DEF Told, Paid, remote
    <3>3. QED
      BY <3>1, <3>2, AgreeMoves
  <2>4. ASSUME NEW r \in Requests, Commits(r) PROVE AgreeInv'
    BY <2>4, AgreeCommits
  <2>5. ASSUME NEW r \in Requests, Gives(r) PROVE AgreeInv'
    <3>1. /\ UNCHANGED <<remote, applied, tenant, raced>> /\ work'[r] = Idle
          /\ \A q \in Requests \ {r} : work'[q] = work[q]
      BY <2>5, GivesMove
    <3>2. \A s : Told(s, r)'
      BY <3>1 DEF Told, Holds, Idle
    <3>3. QED
      BY <3>1, <3>2, AgreeMoves
  <2>6. ASSUME NEW r \in Requests, Loads(r) PROVE AgreeInv'
    BY <2>6, AgreeLoads
  <2>7. QED
    BY <2>1, <2>2, <2>3, <2>4, <2>5, <2>6, NextCases
<1>3. QED
  BY <1>1, <1>2, PlanCorrect, RecordCorrect, ProviderCorrect, HolderCorrect, NoGraceCorrect,
     AgeCorrect, PTL DEF Spec

\* If no older status was applied over a newer one and the latest notification
\* took effect, the status applied last is that of the latest.
LEMMA NewestIsLatest ==
  ASSUME PlanInv, RecordInv, AgeInv, InOrder PROVE Newest = Latest /\ Latest \in DOMAIN events
<1>1. DOMAIN events = 1 .. Latest /\ Latest \in Nat
  BY DEF PlanInv, TypeOK, Latest
<1>2. PICK i \in DOMAIN applied : applied[i].event = Latest
  BY DEF InOrder, ToSet
<1>3. DOMAIN applied = 1 .. Len(applied) /\ Len(applied) \in Nat /\ applied # <<>>
  BY <1>2 DEF PlanInv, TypeOK
<1>4. applied[i].asOf = Latest
  <2>1. applied[i].asOf \in applied[i].event .. Latest
    BY DEF AgeInv, ToSet
  <2>2. QED
    BY <1>1, <1>2, <2>1
<1>5. Newest \in 1 .. Latest
  BY <1>1, <1>3, NewestSent
<1>6. CASE i # Len(applied)
  <2>1. applied[i].asOf <= Newest
    BY <1>3, <1>6 DEF InOrder, Newest
  <2>2. QED
    BY <1>1, <1>4, <1>5, <2>1
<1>7. QED
  BY <1>1, <1>4, <1>5, <1>6 DEF Newest

\* A tenant with one subscription has what goes with the status that was applied
\* last, and with the present one once the latest notification has taken effect
\* and none applied an older status over a newer one; the requests that read the
\* plan, count against it or edit the configuration in between do not take it away.
THEOREM PlanPaidFor == Spec => []PlanIsPaidFor
<1> DEFINE Known == PlanInv /\ RecordInv /\ ProviderInv /\ AgeInv /\ AgreeInv
<1>1. Known => PlanIsPaidFor
  <2> SUFFICES ASSUME PlanInv, RecordInv, ProviderInv, AgeInv, AgreeInv, applied # <<>>, ~raced,
                      mix.does \cap {"plan", "admin"} = {}, NEW s \in Subs, Bought = {s}
               PROVE  /\ Paid(tenant, s, events[Newest].status)
                      /\ InOrder => Paid(tenant, s, status[s])
    BY DEF PlanIsPaidFor
  <2>1. Paid(tenant, s, events[Newest].status)
    BY DEF AgreeInv, Agrees
  <2>2. ASSUME InOrder PROVE events[Newest].status = status[s]
    BY <2>2, NewestIsLatest DEF ProviderInv
  <2>3. QED
    BY <2>1, <2>2
<1>2. QED
  BY <1>1, PlanCorrect, RecordCorrect, ProviderCorrect, AgeCorrect, AgreeCorrect, PTL
=============================================================================
