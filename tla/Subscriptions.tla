--------------------------- MODULE Subscriptions ---------------------------
(***************************************************************************)
(* The plan of one tenant: what the payment provider knows of its          *)
(* subscriptions, the webhooks that carry it here, and the requests that   *)
(* read the plan, count against it or edit the tenant at the same time.    *)
(*                                                                         *)
(* A request loads the tenant's row into its session, changes the object   *)
(* and writes, when it commits, the columns that differ from what it       *)
(* loaded; config, which holds grace_until beside the keys of others, is   *)
(* one column and written whole.  Nothing locks the row in between.        *)
(*                                                                         *)
(* Time is a clock of MaxClock ticks; a grace period lasts one of them.    *)
(***************************************************************************)
EXTENDS Integers, Sequences, FiniteSets, SequencesExt

CONSTANTS
  Subs,       \* subscriptions (preapprovals) the tenant bought
  PlanOf,     \* the plan that each of them is for
  Providers,  \* PAYMENT_PROVIDER: "mercadopago", "stripe"
  Requests,   \* requests that may be in progress at once
  Mixes,      \* what is mixed in one behaviour: the plan the tenant has at first,
              \* which subscriptions are bought, and what else happens beside
              \* their notifications
  Limit,      \* max_leads_mes of each plan
  Quotas,     \* limits that an administrator of the platform may set
  MaxEvents, MaxEdits, MaxFaults, MaxClock, MaxLeads,
  Nobody

\* FREE is deprecated: nothing that sets a plan sets it but PATCH /admin/tenants.
Plans == {"FREE", "ESTANDAR", "PLUS", "PRO"}
Current == Plans \ {"FREE"}

ASSUME SubscriptionAssumption ==
  /\ PlanOf \in [Subs -> Current \ {"ESTANDAR"}] /\ Nobody \notin Subs
  /\ Providers \subseteq {"mercadopago", "stripe"}
  /\ Limit \in [Plans -> Nat] /\ Quotas \subseteq Nat
  /\ \A p, q \in Current : Limit[p] = Limit[q] => p = q
  /\ Mixes \subseteq [from : {"FREE", "ESTANDAR"}, subs : SUBSET Subs,
                   does : SUBSET {"usage", "config", "plan", "admin", "lead", "fault", "unnumbered"}]
  /\ MaxEvents \in Nat /\ MaxEdits \in Nat /\ MaxFaults \in Nat /\ MaxClock \in Nat
  /\ MaxLeads \in Nat

VARIABLES
  provider, mix,
  status,     \* of each subscription, at the provider
  events,     \* the notifications it has sent, each with a snapshot
  recorded,   \* stripe_events: the notifications processed
  tenant,     \* the row: plan, limit, subscription, config
  leads,      \* leads of this month
  work,       \* what each request is doing
  clock, edits, faults,
  applied,    \* history: the notifications that took effect, in the order of their
              \* commits, and how old what they applied was
  patched,    \* history: an administrator of the platform set plan or limits
  raced       \* history: two requests had the row loaded at once

vars == <<provider, mix, status, events, recorded, tenant, leads, work, clock, edits,
          faults, applied, patched, raced>>
remote == <<provider, mix, status, events>>

None == 0

\* The columns; config stands for the grace_until in it, as the tick at which
\* the period is over.
Row == [plan : Plans, limit : Nat, sub : Subs \cup {Nobody}, config : 0 .. MaxClock + 1]

\* What a new tenant is given, or an old one had.
Fresh(p) == [plan |-> p, limit |-> Limit[p], sub |-> Nobody, config |-> None]

\* A request: the notification it handles and the status it has seen, with the
\* number of notifications that had been sent when the provider had it; or the
\* limit it counts against; what it will write.
Idle == [at |-> "idle", op |-> "none", event |-> 0, seen |-> "pending", asOf |-> 0,
         limit |-> 0, writes |-> <<>>]

Init ==
  /\ provider \in Providers /\ mix \in Mixes
  /\ status = [s \in Subs |-> "pending"] /\ events = <<>> /\ recorded = {}
  /\ tenant = Fresh(mix.from) /\ leads = 0 /\ work = [r \in Requests |-> Idle]
  /\ clock = 0 /\ edits = 0 /\ faults = 0
  /\ applied = <<>> /\ patched = FALSE /\ raced = FALSE

-----------------------------------------------------------------------------
(* What is computed on the loaded row.                                     *)

\* _apply_plan; limits follow from the plan.
WithPlan(row, p) == [row EXCEPT !.plan = p, !.limit = Limit[p]]

NoGrace(row) == [row EXCEPT !.config = None]

\* Mutant: the limit stays that of the paid plan.
Downgraded_KeepsLimit(row) ==
  [row EXCEPT !.plan = "ESTANDAR", !.sub = Nobody, !.config = None]

\* _downgrade_to_estandar
Downgraded(row) == NoGrace([WithPlan(row, "ESTANDAR") EXCEPT !.sub = Nobody])

\* _grace_period_expired
Expired(row) == row.config # None /\ clock >= row.config

\* apply_pending_downgrade
Lazily(row) == IF Expired(row) THEN Downgraded(row) ELSE row

\* Mutant: the period is prolonged each time.
WithGrace_Again(row) == [row EXCEPT !.config = IF @ = None THEN clock + 1 ELSE @ + 1]

\* _start_grace_period
WithGrace(row) == IF row.config = None THEN [row EXCEPT !.config = clock + 1] ELSE row

\* A subscription that is paid for.
Subscribed(row, s) == NoGrace([WithPlan(row, PlanOf[s]) EXCEPT !.sub = s])

\* _handle_preapproval_update
ByMercadoPago(row, s, seen) ==
  CASE seen = "authorized" -> Subscribed(row, s)
    [] seen = "cancelled" -> Downgraded(row)
    [] seen = "paused" -> IF Expired(row) THEN Downgraded(row) ELSE WithGrace(row)
    [] OTHER -> row

\* The handlers of Stripe's events: subscription.deleted sets the standard
\* plan, any other sets the plan in its metadata, whatever the status.
ByStripe(row, s, seen) ==
  IF seen = "cancelled"
  THEN [WithPlan(row, "ESTANDAR") EXCEPT !.sub = Nobody]
  ELSE [WithPlan(row, PlanOf[s]) EXCEPT !.sub = s]

-----------------------------------------------------------------------------
(* The provider.                                                           *)

Follows(from, to) ==
  \/ from = "pending" /\ to = "authorized"
  \/ from = "authorized" /\ to \in {"paused", "cancelled"}
  \/ from = "paused" /\ to \in {"authorized", "cancelled"}

\* The subscriptions that ever were more than a checkout page.
Bought == { s \in Subs : status[s] # "pending" }

\* The keys of a subscription's earlier notifications.  One of Mercado Pago's
\* without an id has the key of any other with its type, subscription and action;
\* an id, and Stripe's events, make a key of their own.
SharedKeys(s) ==
  IF provider = "mercadopago" /\ "unnumbered" \in mix.does
  THEN { events[e].key : e \in { e \in DOMAIN events : events[e].sub = s } }
  ELSE {}

Change(s, to) ==
  /\ Len(events) < MaxEvents /\ Follows(status[s], to)
  /\ s \in mix.subs
  /\ status' = [status EXCEPT ![s] = to]
  /\ \E k \in SharedKeys(s) \cup {Len(events) + 1} :
       events' = Append(events, [sub |-> s, status |-> to, key |-> k])
  /\ UNCHANGED <<provider, mix, recorded, tenant, leads, work, clock, edits, faults, applied, patched, raced>>

\* No request lasts as long as a grace period.
Tick ==
  /\ clock < MaxClock /\ \A r \in Requests : work[r].at = "idle"
  /\ clock' = clock + 1
  /\ UNCHANGED <<remote, recorded, tenant, leads, work, edits, faults, applied, patched, raced>>

-----------------------------------------------------------------------------
(* handle_webhook                                                          *)

Claimed(k) ==
  \E r \in Requests : work[r].at # "idle" /\ work[r].op = "event" /\ events[work[r].event].key = k

\* Mutant: the key is looked up and not inserted before the work is done.
NewKey_Unclaimed(e) == events[e].key \notin recorded

\* The notification's key is inserted under a unique constraint: whoever comes
\* second waits for the first, and answers already_processed if that commits.
NewKey(e) == events[e].key \notin recorded /\ ~Claimed(events[e].key)

Receive(r, e) ==
  /\ work[r].at = "idle" /\ NewKey(e)
  /\ work' = [work EXCEPT ![r] = [Idle EXCEPT !.at = "fetch", !.op = "event", !.event = e]]
  /\ UNCHANGED <<remote, recorded, tenant, leads, clock, edits, faults, applied, patched, raced>>

\* Mutant: Mercado Pago's snapshot is trusted, too.
Fetch_Snapshot(r) ==
  /\ work[r].at = "fetch"
  /\ LET asOf == IF provider = "stripe" THEN work[r].event ELSE Len(events)
     IN  work' = [work EXCEPT ![r].at = "load", ![r].asOf = asOf,
                              ![r].seen = events[work[r].event].status]
  /\ UNCHANGED <<remote, recorded, tenant, leads, clock, edits, faults, applied, patched, raced>>

\* _fetch_preapproval asks for the present status; Stripe's events bring one.
Fetch(r) ==
  /\ work[r].at = "fetch"
  /\ LET event == events[work[r].event]
         seen == IF provider = "stripe" THEN event.status ELSE status[event.sub]
         asOf == IF provider = "stripe" THEN work[r].event ELSE Len(events)
     IN  work' = [work EXCEPT ![r].at = "load", ![r].seen = seen, ![r].asOf = asOf]
  /\ UNCHANGED <<remote, recorded, tenant, leads, clock, edits, faults, applied, patched, raced>>

\* A request has the row loaded, and what it will write is Written(r).
Holds(r) == work[r].at \in {"count", "commit"}

\* The columns in which the object differs from the row it was loaded from.
Changed(new) == [c \in { c \in DOMAIN new : new[c] # tenant[c] } |-> new[c]]

\* The row is loaded and changed in the session.
Loaded(r, op, at, limit, writes) ==
  /\ work' = [work EXCEPT ![r].at = at, ![r].op = op, ![r].seen = "pending",
                          ![r].limit = limit, ![r].writes = writes]
  /\ raced' = (raced \/ \E q \in Requests \ {r} : Holds(q))

Apply(r) ==
  /\ work[r].at = "load"
  /\ LET s == events[work[r].event].sub
         new == IF provider = "stripe" THEN ByStripe(tenant, s, work[r].seen)
                ELSE ByMercadoPago(tenant, s, work[r].seen)
     IN  Loaded(r, "event", "commit", 0, Changed(new))
  /\ UNCHANGED <<remote, recorded, tenant, leads, clock, edits, faults, applied, patched>>

\* UPDATE sets the columns that are written and leaves the others.
Written(r) ==
  LET new == work[r].writes
  IN  [c \in DOMAIN tenant |-> IF c \in DOMAIN new THEN new[c] ELSE tenant[c]]

\* The key and the plan are committed together.
CommitEvent(r) ==
  /\ work[r].at = "commit" /\ work[r].op = "event"
  /\ tenant' = Written(r)
  /\ recorded' = recorded \cup {events[work[r].event].key}
  /\ applied' = Append(applied, [event |-> work[r].event, asOf |-> work[r].asOf])
  /\ work' = [work EXCEPT ![r] = Idle]
  /\ UNCHANGED <<remote, leads, clock, edits, faults, patched, raced>>

-----------------------------------------------------------------------------
(* The other requests.                                                     *)

\* billing_usage
ReadUsage(r) ==
  /\ "usage" \in mix.does /\ work[r].at = "idle" /\ Lazily(tenant) # tenant
  /\ Loaded(r, "usage", "commit", 0, Changed(Lazily(tenant)))
  /\ UNCHANGED <<remote, recorded, tenant, leads, clock, edits, faults, applied, patched>>

\* Both update_tenant merge into the configuration they loaded;
EditConfig(r) ==
  /\ "config" \in mix.does /\ work[r].at = "idle" /\ edits < MaxEdits
  /\ edits' = edits + 1
  /\ Loaded(r, "config", "commit", 0, [config |-> tenant.config])
  /\ UNCHANGED <<remote, recorded, tenant, leads, clock, faults, applied, patched>>

\* that of PATCH /tenants/me sets a plan with its limits,
EditPlan(r, p) ==
  /\ "plan" \in mix.does /\ work[r].at = "idle" /\ edits < MaxEdits
  /\ edits' = edits + 1
  /\ Loaded(r, "plan", "commit", 0, Changed(WithPlan(tenant, p)))
  /\ UNCHANGED <<remote, recorded, tenant, leads, clock, faults, applied, patched>>

\* that of PATCH /admin/tenants sets what it is given, each column by itself.
PatchTenant(r, p, limit) ==
  /\ "admin" \in mix.does /\ work[r].at = "idle" /\ edits < MaxEdits
  /\ edits' = edits + 1
  /\ Loaded(r, "admin", "commit", 0, Changed([tenant EXCEPT !.plan = p, !.limit = limit]))
  /\ UNCHANGED <<remote, recorded, tenant, leads, clock, faults, applied, patched>>

Commit(r) ==
  /\ work[r].at = "commit" /\ work[r].op \in {"usage", "config", "plan", "admin"}
  /\ tenant' = Written(r)
  /\ patched' = (patched \/ work[r].op = "admin")
  /\ work' = [work EXCEPT ![r] = Idle]
  /\ UNCHANGED <<remote, recorded, leads, clock, edits, faults, applied, raced>>

\* create_lead loads the tenant, with its lazy downgrade;
BeginLead(r) ==
  /\ "lead" \in mix.does /\ work[r].at = "idle" /\ leads < MaxLeads
  /\ Loaded(r, "lead", "count", Lazily(tenant).limit, Changed(Lazily(tenant)))
  /\ UNCHANGED <<remote, recorded, tenant, leads, clock, edits, faults, applied, patched>>

\* counts the leads of the month,
CountLeads(r) ==
  /\ work[r].at = "count" /\ leads < work[r].limit
  /\ work' = [work EXCEPT ![r].at = "commit", ![r].limit = 0]
  /\ UNCHANGED <<remote, recorded, tenant, leads, clock, edits, faults, applied, patched, raced>>

\* and raises, which undoes the downgrade, when the limit is reached;
TooManyLeads(r) ==
  /\ work[r].at = "count" /\ leads >= work[r].limit
  /\ work' = [work EXCEPT ![r] = Idle]
  /\ UNCHANGED <<remote, recorded, tenant, leads, clock, edits, faults, applied, patched, raced>>

InsertLead(r) ==
  /\ work[r].at = "commit" /\ work[r].op = "lead"
  /\ tenant' = Written(r) /\ leads' = leads + 1
  /\ work' = [work EXCEPT ![r] = Idle]
  /\ UNCHANGED <<remote, recorded, clock, edits, faults, applied, patched, raced>>


\* A crash, an unreachable provider, a failed statement: all is rolled back,
\* and the provider repeats its notification.
Abort(r) ==
  /\ "fault" \in mix.does /\ work[r].at # "idle" /\ faults < MaxFaults
  /\ faults' = faults + 1
  /\ work' = [work EXCEPT ![r] = Idle]
  /\ UNCHANGED <<remote, recorded, tenant, leads, clock, edits, applied, patched, raced>>

-----------------------------------------------------------------------------

Webhook(r) == Fetch(r) \/ Apply(r) \/ CommitEvent(r)
Panel(r) == Commit(r) \/ CountLeads(r) \/ TooManyLeads(r) \/ InsertLead(r)

Next ==
  \/ \E s \in Subs, to \in {"authorized", "paused", "cancelled"} : Change(s, to)
  \/ Tick
  \/ \E r \in Requests :
       \/ \E e \in DOMAIN events : Receive(r, e)
       \/ Webhook(r) \/ Panel(r) \/ Abort(r)
       \/ ReadUsage(r) \/ EditConfig(r) \/ BeginLead(r)
       \/ \E p \in Current : EditPlan(r, p)
       \/ \E p \in Plans, limit \in Quotas \cup {tenant.limit} : PatchTenant(r, p, limit)

Spec == Init /\ [][Next]_vars

\* Requests that have begun go on, and the provider repeats a notification
\* until it is accepted: some request is free for it again and again.
FairSpec ==
  /\ Spec
  /\ \A r \in Requests : WF_vars(Webhook(r)) /\ WF_vars(Panel(r))
  /\ \A e \in 1 .. MaxEvents : SF_vars(\E r \in Requests : e \in DOMAIN events /\ Receive(r, e))

-----------------------------------------------------------------------------
(* Properties.                                                             *)

Columns == [plan |-> Plans, limit |-> Nat, sub |-> Subs \cup {Nobody}, config |-> 0 .. MaxClock + 1]
Ops == {"none", "event", "usage", "config", "plan", "admin", "lead"}
Statuses == {"pending", "authorized", "paused", "cancelled"}

Request(w) ==
  /\ w.at \in {"idle", "fetch", "load", "count", "commit"} /\ w.op \in Ops
  /\ w.event \in 0 .. MaxEvents /\ w.seen \in Statuses /\ w.asOf \in 0 .. MaxEvents
  /\ w.limit \in Nat
  /\ DOMAIN w.writes \subseteq DOMAIN Columns
  /\ \A c \in DOMAIN w.writes : w.writes[c] \in Columns[c]

TypeOK ==
  /\ provider \in Providers /\ mix \in Mixes /\ status \in [Subs -> Statuses]
  /\ events \in Seq([sub : Subs, status : Statuses, key : 1 .. MaxEvents])
  /\ recorded \subseteq 1 .. MaxEvents
  /\ tenant \in Row /\ leads \in Nat /\ DOMAIN work = Requests
  /\ \A r \in Requests : Request(work[r])
  /\ clock \in 0 .. MaxClock /\ edits \in 0 .. MaxEdits /\ faults \in 0 .. MaxFaults
  /\ applied \in Seq([event : 1 .. MaxEvents, asOf : 0 .. MaxEvents])
  /\ patched \in BOOLEAN /\ raced \in BOOLEAN

\* Plan and limits are columns that overlapping requests write one by one, and
\* still the limits are those of the plan (_apply_plan, update_tenant), unless an
\* administrator of the platform set one of them, or the plan was FREE at first
\* and two requests had the row at once: FREE and ESTANDAR have one limit, so a
\* request that replaces the one by the other writes no limit.
LimitsMatchPlan ==
  patched \/ (raced /\ mix.from = "FREE") \/ tenant.limit = Limit[tenant.plan]

\* The notification with number e, or another one with its key, took effect.
Handled(e) == \E a \in ToSet(applied) : events[a.event].key = events[e].key

\* A key is recorded exactly when a notification with it has taken effect, and
\* that is one only, however often they are delivered and whatever is rolled
\* back (handle_webhook).
RecordedIsApplied ==
  LET keys == [i \in DOMAIN applied |-> events[applied[i].event].key]
  IN  IsInjective(keys) /\ recorded = ToSet(keys)

\* The row is what a tenant with this status is to have.
Paid(row, s, st) ==
  /\ st = "authorized" => row.plan = PlanOf[s] /\ row.sub = s /\ row.config = None
  /\ st = "cancelled" => row.plan = "ESTANDAR" /\ row.sub = Nobody
  /\ st = "paused" /\ provider = "mercadopago" => row.plan = "ESTANDAR" \/ row.config # None

Latest == Len(events)
Newest == applied[Len(applied)].asOf

\* The latest notification took effect, and none applied a status over a later one.
InOrder ==
  /\ \E a \in ToSet(applied) : a.event = Latest
  /\ \A i, j \in DOMAIN applied : i < j => applied[i].asOf <= applied[j].asOf

\* A tenant with one subscription has what goes with the status that was applied
\* last, Stripe's snapshot or what Mercado Pago answered when it was asked,
\* whatever usage pages, leads, edits of the configuration and failures are mixed
\* in (_handle_preapproval_update, _handle_subscription_updated).  That is the
\* present status once the latest notification has taken effect, in whatever order
\* they arrived, if none applied an older status over a newer one; a Stripe event
\* that comes late does, and so does a webhook whose answer from Mercado Pago is
\* overtaken before it loads the row.  It need not be so when two requests had the
\* row loaded at once, or somebody set the plan by hand.
PlanIsPaidFor ==
  applied # <<>> /\ ~raced /\ mix.does \cap {"plan", "admin"} = {} =>
    \A s \in Subs : Bought = {s} =>
      /\ Paid(tenant, s, events[Newest].status)
      /\ InOrder => Paid(tenant, s, status[s])


-----------------------------------------------------------------------------
(* What the documentation says and the code does not do.                   *)

\* Every notification took effect and no request is in progress.
Settled ==
  /\ DOMAIN events = { a.event : a \in ToSet(applied) }
  /\ \A r \in Requests : work[r].at = "idle"
  /\ mix.does \cap {"plan", "admin"} = {}

\* "Sync tenant plan when Stripe emits subscription lifecycle events."
\* (_handle_subscription_updated)
PlanIsSynced ==
  Settled /\ ~raced => \A s \in Subs : Bought = {s} => Paid(tenant, s, status[s])

\* "Process an MP webhook notification (idempotent via stripe_events)."
\* (handle_webhook): being dropped is for repeats.
OnlyRepeatsDropped ==
  \A e \in DOMAIN events : Handled(e) => \E a \in ToSet(applied) : a.event = e

\* "If plan changes, update limits." (update_tenant)
LimitsFollowPlan == patched \/ tenant.limit = Limit[tenant.plan]

\* "Give a grace window before downgrading so a recovered payment keeps the
\* tenant on their plan" (_handle_preapproval_update).
RecoveredKeepsPlan ==
  Settled /\ provider = "mercadopago" =>
    \A s \in Subs : Bought = {s} /\ status[s] = "authorized" => tenant.plan = PlanOf[s]

\* "Raise ConflictError if monthly lead limit is reached." (_enforce_lead_limit)
LeadsWithinLimit == [][leads' > leads => leads' <= tenant'.limit]_vars

-----------------------------------------------------------------------------
(* The inductive invariants behind the proof of PlanIsPaidFor.             *)

\* A notification tells the status a bought subscription had when it was sent.
ProviderInv ==
  /\ \A e \in DOMAIN events : events[e].sub \in Bought
  /\ Bought # {} => Latest # 0 /\ status[events[Latest].sub] = events[Latest].status

\* Without a race one request at a time has the row.
OneHolder == ~raced => \A r, q \in Requests : Holds(r) /\ Holds(q) => r = q

\* What a webhook has seen, or has applied, is no older than its notification.
AgeInv ==
  /\ \A r \in Requests : work[r].op = "event" /\ work[r].at \in {"load", "commit"} =>
       work[r].asOf \in work[r].event .. Latest
  /\ \A a \in ToSet(applied) : a.asOf \in a.event .. Latest

\* Stripe starts no grace period, and no request writes one.
NoGraceInv ==
  provider = "stripe" =>
    /\ tenant.config = None
    /\ \A r \in Requests : "config" \in DOMAIN work[r].writes => work[r].writes["config"] = None

\* The row agrees with what was applied last, and so will what a request leaves
\* that applies nothing; a webhook leaves what agrees with the status it has seen.
Agrees(s) ==
  /\ applied # <<>> => Paid(tenant, s, events[Newest].status)
  /\ \A r \in Requests :
       /\ work[r].at = "load" => work[r].seen = events[work[r].asOf].status
       /\ Holds(r) /\ work[r].op = "event" => Paid(Written(r), s, events[work[r].asOf].status)
       /\ Holds(r) /\ work[r].op # "event" /\ applied # <<>> =>
            Paid(Written(r), s, events[Newest].status)

AgreeInv ==
  ~raced /\ mix.does \cap {"plan", "admin"} = {} => \A s \in Subs : Bought = {s} => Agrees(s)
=============================================================================
