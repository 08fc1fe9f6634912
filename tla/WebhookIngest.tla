--------------------------- MODULE WebhookIngest ---------------------------
(***************************************************************************)
(* From the WhatsApp gateway to the agent: the webhook of canales_service, *)
(* its deduplication, the detour over Cloud Tasks and the tasks service,   *)
(* the debounce buffer, the call of the orchestrator and the reply.        *)
(*                                                                         *)
(* A worker is one execution of process_incoming, whoever asked for it:    *)
(* the gateway's POST, a Cloud Tasks attempt, or a debounce timer.  The     *)
(* process is one event loop, so what a worker does between two awaits is   *)
(* one step.  seen, buffer and timers live in its memory.                  *)
(*                                                                         *)
(* A behaviour has one plan, the set of what may go wrong in it.  All that *)
(* does draws on one budget, so there are finitely many failures; MaxPosts *)
(* bounds how often the gateway posts, repeats included.                   *)
(***************************************************************************)
EXTENDS Integers, FiniteSets, Sequences

CONSTANTS
  Messages, Phones, Workers,
  Sender,      \* Sender[m]: the phone of the conversation m belongs to
  Modes,       \* the values of USE_CLOUD_TASKS to consider: "sync", "cloud"
  Kinds,       \* what the messages may be, functions to AllKinds
  Configs,     \* the tenant configurations to consider, see AllConfigs
  Plans,       \* the sets of faults to consider, see FaultKinds
  MaxFaults,   \* how often, for each plan
  MaxPosts

AllKinds ==
  { "text",    \* a message of the customer
    "own",     \* fromMe: an echo of what the business wrote
    "vote" }   \* a click on a poll; votes of one voter share their dedup key

AllConfigs ==
  { "debounce",  \* auto_respuesta_whatsapp, debounce_seconds > 0
    "direct",    \* auto_respuesta_whatsapp, debounce_seconds = 0
    "off" }      \* no automatic answer

FaultKinds ==
  { "enqueue",  \* create_task raises; the task may exist all the same
    "instance", \* the WhatsApp instance is disconnected, and maybe registered again
    "lead",     \* a call to /leads fails, or the monthly quota is used up
    "config",   \* GET /ai/config fails: the defaults apply
    "import",   \* POST /ai/conversations/import fails, before or after it stored
    "ai",       \* the orchestrator fails or takes more than 60 s
    "send",     \* a send fails, or is reported as failed although it arrived
    "slow",     \* an attempt outlives the 120 s of the tasks service
    "edit",     \* an administrator edits the agent's configuration
    "ttl",      \* 60 s pass before the gateway repeats itself
    "crash" }   \* the canales process is restarted

ASSUME SettingsAssumption ==
  /\ Sender \in [Messages -> Phones] /\ IsFiniteSet(Workers)
  /\ Modes \subseteq {"sync", "cloud"} /\ Kinds \subseteq [Messages -> AllKinds]
  /\ Configs \subseteq AllConfigs /\ Plans \subseteq SUBSET FaultKinds
  /\ MaxFaults \in [Plans -> Nat] /\ MaxPosts \in Nat

VARIABLES
  mode, kind,      \* deployment setting; what each message is
  plan,            \* what may go wrong
  config,          \* agente_config of the tenant
  active,          \* activo, of the tenant's WhatsApp instance
  budget, posts,   \* failures left; POSTs so far
  seen,            \* _SEEN_MESSAGE_IDS within their TTL
  queue,           \* Cloud Tasks attempts due for each message
  buffer, timers,  \* _debounce_buffers, and the timer tasks still sleeping
  work,            \* what each worker is doing
  leads,           \* leads with each phone
  stored,          \* rows of ai_conversations that hold a message
  asked, sent,     \* history: calls of the orchestrator with a message; replies
                   \* that reached the customer, by the worker's first message
  acked,           \* history: messages answered with 200, as a good end or as queued
  dropped          \* history: messages given up on, with a 200 nonetheless

settings == <<mode, kind, plan, config, active>>
memory   == <<seen, buffer, timers>>
effects  == <<leads, stored, asked, sent, dropped>>
vars == <<settings, budget, posts, memory, queue, work, effects, acked>>

-----------------------------------------------------------------------------

\* What a worker is doing: the messages it merged, who waits for its answer,
\* and the call it will make next.
Idle == [batch |-> <<>>, via |-> "nobody", at |-> "idle", tries |-> 0]

Stages  == {"idle", "lookup", "search", "create", "route", "store", "ask", "reply"}
Callers == {"nobody", "gateway", "task", "timer"}

\* The dedup key: the message's id, or voter and poll.
Key(m) == IF kind[m] = "vote" THEN Sender[m] ELSE m

ChatOf(w) == Sender[work[w].batch[1]]

Occurs(m, s) == Cardinality({ i \in DOMAIN s : s[i] = m })

Free == { w \in Workers : work[w].at = "idle" }

\* Any free worker will do.
Start(batch, via) ==
  /\ Free # {}
  /\ LET w == CHOOSE v \in Free : TRUE
     IN  work' = [work EXCEPT ![w] = [batch |-> batch, via |-> via, at |-> "lookup", tries |-> 0]]

GoTo(w, stage) == work' = [work EXCEPT ![w].at = stage]

Fail(f) == f \in plan /\ budget > 0 /\ budget' = budget - 1

Init ==
  /\ mode \in Modes /\ kind \in Kinds /\ plan \in Plans /\ config \in Configs
  /\ active = TRUE
  /\ budget = MaxFaults[plan]
  /\ posts = 0
  /\ seen = {} /\ queue = [m \in Messages |-> 0]
  /\ buffer = [p \in Phones |-> <<>>] /\ timers = [p \in Phones |-> 0]
  /\ work = [w \in Workers |-> Idle]
  /\ leads = [p \in Phones |-> 0]
  /\ stored = [m \in Messages |-> 0] /\ asked = [m \in Messages |-> 0]
  /\ sent = [m \in Messages |-> 0] /\ acked = {} /\ dropped = {}

-----------------------------------------------------------------------------
(* The gateway.  It posts a message, posts it again when it was answered   *)
(* with an error, and sometimes fires several times for one message.       *)

Posted == posts < MaxPosts /\ posts' = posts + 1

\* _is_duplicate_message: seen before, within the TTL.
Duplicate(m) ==
  /\ Posted /\ Key(m) \in seen
  /\ UNCHANGED <<settings, budget, memory, queue, work, effects, acked>>

\* Mutant: the message is marked only when it has been processed.
Mark_Late(m) == Key(m) \notin seen /\ UNCHANGED <<seen, buffer, timers>>

\* Otherwise it is marked at once, before it is processed.
Mark(m) == Key(m) \notin seen /\ seen' = seen \cup {Key(m)} /\ UNCHANGED <<buffer, timers>>

\* Processed within the request: votes always are.
Receive(m) ==
  /\ mode = "sync" \/ kind[m] = "vote"
  /\ Posted /\ Mark(m) /\ Start(<<m>>, "gateway")
  /\ UNCHANGED <<settings, budget, queue, effects, acked>>

\* _enqueue_webhook_task
Enqueue(m) ==
  /\ mode = "cloud" /\ kind[m] # "vote"
  /\ Posted /\ Mark(m)
  /\ queue' = [queue EXCEPT ![m] = @ + 1]
  /\ acked' = acked \cup {m}
  /\ UNCHANGED <<settings, budget, work, effects>>

\* Its exception handler processes the message in the request, whether or
\* not the task was created.
EnqueueFails(m) ==
  /\ mode = "cloud" /\ kind[m] # "vote" /\ Fail("enqueue")
  /\ Posted /\ Mark(m) /\ Start(<<m>>, "gateway")
  /\ queue' \in {queue, [queue EXCEPT ![m] = @ + 1]}
  /\ UNCHANGED <<settings, effects, acked>>

\* Cloud Tasks calls tasks, which calls /webhook/whatsapp/process: no dedup.
Dispatch(m) ==
  /\ queue[m] > 0
  /\ queue' = [queue EXCEPT ![m] = @ - 1]
  /\ Start(<<m>>, "task")
  /\ UNCHANGED <<settings, budget, posts, memory, effects, acked>>

\* tasks gives up after 120 s and answers 502: the attempt is repeated while
\* the first one goes on.
AttemptTimesOut(w) ==
  /\ work[w].via = "task" /\ Fail("slow")
  /\ work' = [work EXCEPT ![w].via = "nobody"]
  /\ queue' = [queue EXCEPT ![work[w].batch[1]] = @ + 1]
  /\ UNCHANGED <<settings, posts, memory, effects, acked>>

-----------------------------------------------------------------------------
(* process_incoming.                                                       *)

\* Mutant: a failed attempt is answered with 200.
Finish_NoRetry(w, good) ==
  /\ work' = [work EXCEPT ![w] = Idle] /\ queue' = queue
  /\ acked' = IF work[w].via \in {"gateway", "task"} THEN acked \cup {work[w].batch[1]} ELSE acked

\* The worker ends.  A good answer acknowledges its message; a 502 makes
\* Cloud Tasks try again; nobody hears how a timer's work ended.
Finish(w, good) ==
  /\ work' = [work EXCEPT ![w] = Idle]
  /\ LET m == work[w].batch[1] IN
       /\ queue' = IF work[w].via = "task" /\ ~good THEN [queue EXCEPT ![m] = @ + 1] ELSE queue
       /\ acked' = IF work[w].via \in {"gateway", "task"} /\ good THEN acked \cup {m} ELSE acked

\* The worker gives up, and still answers 200.
Drop(w) ==
  LET lost == { work[w].batch[i] : i \in DOMAIN work[w].batch }
  IN  /\ dropped' = dropped \cup lost
      /\ acked' = IF work[w].via \in {"gateway", "task"} THEN acked \cup lost ELSE acked

\* lookup_by_instance_name finds active instances only;
Lookup(w) ==
  /\ work[w].at = "lookup" /\ active
  /\ GoTo(w, "search")
  /\ UNCHANGED <<settings, budget, posts, memory, queue, effects, acked>>

\* without one the message is ignored, and the request answered with 200.
Ignore(w) ==
  /\ work[w].at = "lookup" /\ ~active
  /\ work' = [work EXCEPT ![w] = Idle]
  /\ Drop(w)
  /\ UNCHANGED <<settings, budget, posts, memory, queue, leads, stored, asked, sent>>

\* _search_lead; any failure counts as "not found".
FindLead(w) ==
  /\ work[w].at = "search" /\ leads[ChatOf(w)] > 0
  /\ GoTo(w, "route")
  /\ UNCHANGED <<settings, budget, posts, memory, queue, effects, acked>>

NoLead(w) ==
  /\ work[w].at = "search"
  /\ \/ leads[ChatOf(w)] = 0 /\ UNCHANGED budget
     \/ Fail("lead")
  /\ GoTo(w, "create")
  /\ UNCHANGED <<settings, posts, memory, queue, effects, acked>>

\* _create_lead; nothing makes a phone unique.
CreateLead(w) ==
  /\ work[w].at = "create"
  /\ leads' = [leads EXCEPT ![ChatOf(w)] = @ + 1]
  /\ GoTo(w, "route")
  /\ UNCHANGED <<settings, budget, posts, memory, queue, stored, asked, sent, acked, dropped>>

\* Without a lead the message is skipped, and the request answered with 200.
SkipMessage(w) ==
  /\ work[w].at = "create" /\ Fail("lead")
  /\ work' = [work EXCEPT ![w] = Idle]
  /\ Drop(w)
  /\ UNCHANGED <<settings, posts, memory, queue, leads, stored, asked, sent>>

\* _fetch_ai_config, with its defaults when it fails.
Reads(c) == \/ c = config /\ UNCHANGED budget
            \/ c = "debounce" /\ Fail("config")

\* Mutant: the old timer is left running.
Restart_NoCancel(p) == timers' = [timers EXCEPT ![p] = @ + 1]

\* Mutant: the cancelled timer is not replaced.
Restart_CancelOnly(p) == timers' = [timers EXCEPT ![p] = IF buffer[p] = <<>> THEN 1 ELSE 0]

\* The timer task of the buffer is cancelled, if it is not done, and replaced.
Restart(p) == timers' = IF buffer[p] = <<>> THEN [timers EXCEPT ![p] = @ + 1] ELSE timers

\* _route_incoming_message: an echo is only stored, so is everything when the
\* automatic answer is off; _try_debounce puts it into the buffer first, unless
\* a timer already took it out of there; the rest goes to the agent.
RouteOwn(w) ==
  /\ work[w].at = "route" /\ kind[work[w].batch[1]] = "own"
  /\ GoTo(w, "store")
  /\ UNCHANGED <<settings, budget, posts, memory, queue, effects, acked>>

RouteOff(w) ==
  /\ work[w].at = "route" /\ kind[work[w].batch[1]] # "own" /\ Reads("off")
  /\ GoTo(w, "store")
  /\ UNCHANGED <<settings, posts, memory, queue, effects, acked>>

RouteBuffer(w) ==
  /\ work[w].at = "route" /\ kind[work[w].batch[1]] # "own" /\ Reads("debounce")
  /\ work[w].via # "timer"
  /\ LET p == ChatOf(w) IN
       /\ buffer' = [buffer EXCEPT ![p] = @ \o work[w].batch]
       /\ Restart(p)
  /\ GoTo(w, "store")
  /\ UNCHANGED <<settings, posts, seen, queue, effects, acked>>

RouteAsk(w) ==
  /\ work[w].at = "route" /\ kind[work[w].batch[1]] # "own"
  /\ \/ Reads("direct")
     \/ work[w].via = "timer" /\ Reads("debounce")
  /\ GoTo(w, "ask")
  /\ UNCHANGED <<settings, posts, memory, queue, effects, acked>>

Count(f, batch) == [m \in Messages |-> f[m] + Occurs(m, batch)]

\* _store_message_only
Store(w) ==
  /\ work[w].at = "store"
  /\ stored' = Count(stored, work[w].batch)
  /\ Finish(w, TRUE)
  /\ UNCHANGED <<settings, budget, posts, memory, leads, asked, sent, dropped>>

\* Mutant: the exception of the import is caught.
StoreFails_Caught(w) ==
  /\ work[w].at = "store" /\ Fail("import")
  /\ stored' = stored /\ Finish(w, TRUE)
  /\ UNCHANGED <<settings, posts, memory, leads, asked, sent, dropped>>

\* An exception: 502.  The rows may have been committed before a time-out.
StoreFails(w) ==
  /\ work[w].at = "store" /\ Fail("import")
  /\ stored' \in {stored, Count(stored, work[w].batch)}
  /\ Finish(w, FALSE)
  /\ UNCHANGED <<settings, posts, memory, leads, asked, sent, dropped>>

\* _forward_to_ai: the orchestrator stores the text it is asked about.
Ask(w) ==
  /\ work[w].at = "ask"
  /\ asked' = Count(asked, work[w].batch)
  /\ stored' = Count(stored, work[w].batch)
  /\ GoTo(w, "reply")
  /\ UNCHANGED <<settings, budget, posts, memory, queue, leads, sent, acked, dropped>>

\* It fails before it stores or after; the request is answered with 200 and
\* status "error".
AskFails(w) ==
  /\ work[w].at = "ask" /\ Fail("ai")
  /\ asked' = Count(asked, work[w].batch)
  /\ stored' \in {stored, Count(stored, work[w].batch)}
  /\ work' = [work EXCEPT ![w] = Idle]
  /\ Drop(w)
  /\ UNCHANGED <<settings, posts, memory, queue, leads, sent>>

\* _send_reply: up to three attempts.
Reply(w) ==
  /\ work[w].at = "reply"
  /\ sent' = [sent EXCEPT ![work[w].batch[1]] = @ + 1]
  /\ Finish(w, TRUE)
  /\ UNCHANGED <<settings, budget, posts, memory, leads, stored, asked, dropped>>

\* A failed attempt, or one whose answer was lost: the reply goes out again.
ReplyFails(w) ==
  /\ work[w].at = "reply" /\ Fail("send")
  /\ sent' \in {sent, [sent EXCEPT ![work[w].batch[1]] = @ + 1]}
  /\ IF work[w].tries < 2
     THEN work' = [work EXCEPT ![w].tries = @ + 1] /\ UNCHANGED <<queue, acked>>
     ELSE Finish(w, TRUE)
  /\ UNCHANGED <<settings, posts, memory, leads, stored, asked, dropped>>

-----------------------------------------------------------------------------
(* The debounce timer, and the world.                                      *)

\* _debounce_timer wakes up, _flush_debounce_buffer takes the buffer away and
\* processes it as one message.
Fire(p) ==
  /\ timers[p] > 0
  /\ timers' = [timers EXCEPT ![p] = @ - 1]
  /\ buffer' = [buffer EXCEPT ![p] = <<>>]
  /\ IF buffer[p] = <<>> THEN UNCHANGED work ELSE Start(buffer[p], "timer")
  /\ UNCHANGED <<settings, budget, posts, seen, queue, effects, acked>>

Configure(c) ==
  /\ c # config /\ Fail("edit")
  /\ config' = c
  /\ UNCHANGED <<mode, kind, plan, active, posts, memory, queue, work, effects, acked>>

\* deactivate_instance, and register_instance when the tenant connects again.
Deactivate ==
  /\ active /\ Fail("instance")
  /\ active' = FALSE
  /\ UNCHANGED <<mode, kind, plan, config, posts, memory, queue, work, effects, acked>>

Register ==
  /\ ~active
  /\ active' = TRUE
  /\ UNCHANGED <<mode, kind, plan, config, budget, posts, memory, queue, work, effects, acked>>

\* 60 s after the first POST.
Expire(k) ==
  /\ k \in seen /\ Fail("ttl")
  /\ seen' = seen \ {k}
  /\ UNCHANGED <<settings, posts, buffer, timers, queue, work, effects, acked>>

\* What was in memory is gone; Cloud Tasks repeats the attempts that were cut.
Crash ==
  /\ Fail("crash")
  /\ seen' = {} /\ buffer' = [p \in Phones |-> <<>>] /\ timers' = [p \in Phones |-> 0]
  /\ work' = [w \in Workers |-> Idle]
  /\ queue' = [m \in Messages |-> queue[m] +
                 Cardinality({ w \in Workers : work[w].via = "task" /\ work[w].batch = <<m>> })]
  /\ UNCHANGED <<settings, posts, effects, acked>>

Gateway(m) == Duplicate(m) \/ Receive(m) \/ Enqueue(m) \/ EnqueueFails(m)

Step(w) ==
  \/ Lookup(w) \/ Ignore(w) \/ FindLead(w) \/ NoLead(w) \/ CreateLead(w) \/ SkipMessage(w)
  \/ RouteOwn(w) \/ RouteOff(w) \/ RouteBuffer(w) \/ RouteAsk(w)
  \/ Store(w) \/ StoreFails(w) \/ Ask(w) \/ AskFails(w) \/ Reply(w) \/ ReplyFails(w)

Next ==
  \/ \E m \in Messages : Gateway(m) \/ Dispatch(m)
  \/ \E w \in Workers : Step(w) \/ AttemptTimesOut(w)
  \/ \E p \in Phones : Fire(p)
  \/ \E c \in Configs : Configure(c)
  \/ Deactivate \/ Register
  \/ \E k \in Messages \cup Phones : Expire(k)
  \/ Crash

Spec == Init /\ [][Next]_vars

\* The event loop runs every worker and timer, Cloud Tasks its queue.  The
\* gateway, the administrator and failures owe nothing.
FairSpec ==
  /\ Spec
  /\ \A w \in Workers : WF_vars(Step(w))
  /\ \A p \in Phones : WF_vars(Fire(p))
  /\ \A m \in Messages : WF_vars(Dispatch(m))

-----------------------------------------------------------------------------
(* Properties.                                                             *)

TypeOK ==
  /\ mode \in Modes /\ kind \in Kinds /\ plan \in Plans /\ config \in Configs
  /\ active \in BOOLEAN /\ budget \in 0 .. MaxFaults[plan]
  /\ posts \in 0 .. MaxPosts
  /\ seen \subseteq Messages \cup Phones
  /\ queue \in [Messages -> Nat]
  /\ buffer \in [Phones -> Seq(Messages)] /\ timers \in [Phones -> Nat]
  /\ DOMAIN work = Workers
  /\ \A w \in Workers :
       work[w] \in [batch : Seq(Messages), via : Callers, at : Stages, tries : 0 .. 2]
  /\ leads \in [Phones -> Nat] /\ stored \in [Messages -> Nat]
  /\ asked \in [Messages -> Nat] /\ sent \in [Messages -> Nat]
  /\ acked \subseteq Messages /\ dropped \subseteq Messages

\* A conversation with buffered messages has exactly one timer that will take
\* them: _enqueue_debounce never leaves two, nor a buffer without one.
OneTimerPerBuffer == \A p \in Phones : timers[p] = (IF buffer[p] = <<>> THEN 0 ELSE 1)

InQueue(m) == queue[m] > 0 \/ \E w \in Workers : work[w].via = "task" /\ work[w].batch = <<m>>

\* A message whose webhook was answered with 200 is in the history, or Cloud
\* Tasks still has it, whatever fails and whenever canales restarts; the
\* exceptions are those that found the instance inactive or gave up on the lead
\* or on the agent.
AckedIsKept == \A m \in acked : stored[m] > 0 \/ InQueue(m) \/ m \in dropped

\* Of the messages with one dedup key at most one is counted, and once.
OncePerKey(f) ==
  \A m, n \in Messages : f[m] > 0 /\ f[n] > 0 /\ Key(m) = Key(n) => m = n /\ f[m] = 1

Redelivers == IF mode = "sync" THEN {"ttl", "crash"}
              ELSE {"ttl", "crash", "slow", "enqueue", "import"}

\* _is_duplicate_message and the buffer together: however often the gateway
\* posts a message, and however the tenant's configuration changes meanwhile,
\* the agent is asked about it once and answers once, unless 60 s pass, the
\* process restarts, Cloud Tasks repeats an attempt or a send is repeated.
AnsweredOnce ==
  plan \cap Redelivers = {} => OncePerKey(asked) /\ ("send" \notin plan => OncePerKey(sent))

\* What Cloud Tasks was given ends up in the history, whatever restarts, with
\* the same exceptions.
QueuedIsProcessed == \A m \in Messages : queue[m] > 0 ~> (stored[m] > 0 \/ m \in dropped)

\* A message in the debounce buffer reaches the agent, unless the process
\* restarts, the tenant wants no automatic answers meanwhile, or the timer finds
\* the instance inactive or gives up on the lead (_flush_debounce_buffer).
BufferedIsAsked ==
  "crash" \notin plan =>
    \A m \in Messages :
      Occurs(m, buffer[Sender[m]]) > 0 ~> asked[m] > 0 \/ m \in dropped \/ config = "off"

\* The architecture notes count on the gateway to repeat a webhook that failed:
\* what is dismissed as a duplicate was taken care of, or still is.
BeingHandled(m) ==
  \/ stored[m] > 0 \/ queue[m] > 0 \/ m \in dropped
  \/ Occurs(m, buffer[Sender[m]]) > 0 \/ \E w \in Workers : Occurs(m, work[w].batch) > 0

RepeatIsCovered ==
  [][\A m \in Messages : Duplicate(m) /\ kind[m] # "vote" => BeingHandled(m)]_vars

-----------------------------------------------------------------------------
(* The inductive invariants behind the proof of AnsweredOnce.              *)

Place(at, of, i, m) == [at |-> at, of |-> of, i |-> i, msg |-> m]

\* Where a message that the agent may still be asked about is, or was asked
\* about: in Cloud Tasks, with a worker, in the buffer, with the agent.
AtWork(w) == work[w].at \in {"lookup", "search", "create", "route", "ask"}

Queued   == { Place("queue", m, 1, m) : m \in { n \in Messages : queue[n] > 0 } }
Working  == UNION { { Place("work", w, i, work[w].batch[i]) : i \in DOMAIN work[w].batch }
                      : w \in { v \in Workers : AtWork(v) } }
Buffered == UNION { { Place("buffer", p, i, buffer[p][i]) : i \in DOMAIN buffer[p] } : p \in Phones }
Asked    == { Place("asked", m, 1, m) : m \in { n \in Messages : asked[n] > 0 } }

Places == Queued \cup Working \cup Buffered \cup Asked

\* The answers under way, and those that have arrived.
Replying == { Place("reply", w, 1, work[w].batch[1]) : w \in { v \in Workers : work[v].at = "reply" } }
Sent     == { Place("sent", m, 1, m) : m \in { n \in Messages : sent[n] > 0 } }

Replies == Replying \cup Sent

OnePerKey(S) == \A x, y \in S : Key(x.msg) = Key(y.msg) => x = y

\* A dedup key is in one place at a time, and stays marked; without Cloud Tasks
\* nothing is queued.
PlacesInv ==
  plan \cap Redelivers = {} =>
    /\ OnePerKey(Places) /\ \A x \in Places : Key(x.msg) \in seen
    /\ \A m \in Messages : queue[m] <= 1 /\ asked[m] <= 1
    /\ mode = "sync" => (\A m \in Messages : queue[m] = 0) /\ \A w \in Workers : work[w].via # "task"

\* So is its answer, and the agent was asked before.
RepliesInv ==
  plan \cap Redelivers = {} /\ "send" \notin plan =>
    /\ OnePerKey(Replies) /\ \A x \in Replies : asked[x.msg] > 0
    /\ \A m \in Messages : sent[m] <= 1
=============================================================================
