---------------------------- MODULE InstanceSync ----------------------------
(***************************************************************************)
(* The WhatsApp instance of one tenant: pairing by QR code, the status row *)
(* that mirrors the gateway's state, and the import of the history that a  *)
(* connection starts.                                                      *)
(*                                                                         *)
(* The status is written by four parties: the page that asks for a QR code *)
(* or polls the state, the gateway's connection.update, the request that   *)
(* disconnects, and the background task that imports the history.  A       *)
(* request runs once; an uncommitted change holds the row's lock.          *)
(*                                                                         *)
(* SQLAlchemy writes an attribute only if it differs from the value the     *)
(* session has loaded, and a second SELECT does not reload it: obj is the   *)
(* status a session believes the row has, "none" when it has seen no row.  *)
(***************************************************************************)
EXTENDS Integers, FiniteSets

CONSTANTS
  Chats,      \* the chats with a history that the gateway lists
  Recent,     \* those with messages of the last two days
  Requests,
  Flows,      \* Flows[r]: what the request may be, see AllFlows
  Faults,     \* what may fail, see FaultKinds
  MaxFaults,  \* and how often
  MaxLeads,   \* bound: leads of one phone number
  Nobody

AllFlows == {"qr", "status", "delete", "cloud", "event"}

FaultKinds ==
  { "gateway",  \* a call to the gateway fails
    "db",       \* a statement or a commit fails
    "lead",     \* a lead is not found or not created, or a message creates one
    "slow",     \* an import outlives the 20 s of its caller
    "crash" }   \* the canales process is restarted

ASSUME SettingsAssumption ==
  /\ Recent \subseteq Chats /\ Nobody \notin Requests
  /\ Flows \in [Requests -> SUBSET AllFlows] /\ Faults \subseteq FaultKinds
  /\ MaxFaults \in Nat /\ MaxLeads \in Nat \ {0}

VARIABLES
  budget,          \* failures left
  conn, told,      \* the gateway: state of the instance, webhooks on their way
  row,             \* the committed row of evolution_instances
  holder, work,    \* the request with an uncommitted change, and its version
  req, job,        \* what each request and each import task is doing
  imports,         \* requests to /ai/conversations/import being served
  leads,           \* how many leads there are with the phone of a chat; the
                   \* last is the newest
  stored,          \* how many copies of a chat's history each of them has
  skipped,         \* history: chats passed over because they had no lead
  lost,            \* history: a restart, a failed write or an early end took a
                   \* sync away from the status that announces it
  overlapped       \* history: a sync was started while one was at work

gateway == <<conn, told>>
rows    == <<row, holder, work>>
history == <<imports, leads, stored, skipped>>
vars == <<budget, gateway, rows, req, job, history, lost, overlapped>>

Statuses == {"DISCONNECTED", "CONNECTING", "CONNECTED", "CONNECTED_PENDING", "CONNECTED_SYNCED"}

NoRow == [there |-> FALSE, activo |-> FALSE, status |-> "DISCONNECTED", recent |-> FALSE]

\* Two tasks may come of one request: the one it queues, and the one that
\* _handle_open_state starts when the transaction fails.
Tasks == Requests \X {"queued", "fallback"}

Idle  == [flow |-> "none", at |-> "idle", prev |-> "none", stale |-> FALSE, obj |-> "none",
          to |-> "CONNECTED"]
NoJob == [at |-> "none", partial |-> FALSE, todo |-> {}, now |-> {}, lead |-> 1,
          failed |-> FALSE, obj |-> "none"]

Running == { j \in Tasks : job[j].at \notin {"none", "done"} }

Active(v) == v.there /\ v.activo

\* What a session sees, and whether an UPDATE of it has to wait.
View(r) == IF holder = r THEN work ELSE row
Free(r) == holder \in {Nobody, r}

\* lookup_by_instance_name.
Loaded(v) == IF Active(v) THEN v.status ELSE "none"

WithStatus(v, s) == [v EXCEPT !.status = s, !.recent = TRUE]

\* An UPDATE that waits for its commit.
Write(r, v) == holder' = r /\ work' = v /\ UNCHANGED row

\* Transactions start from a row in one of the states they end in; those who
\* have written lately are leads.
Init ==
  /\ budget = MaxFaults /\ told = {}
  /\ \/ conn = "absent" /\ row = NoRow
     \/ conn = "absent" /\ row = [NoRow EXCEPT !.there = TRUE]
     \/ conn = "open" /\ row \in [there : {TRUE}, activo : {TRUE}, recent : BOOLEAN,
                                  status : {"CONNECTED", "CONNECTED_SYNCED"}]
  /\ holder = Nobody /\ work = NoRow
  /\ req = [r \in Requests |-> Idle] /\ job = [j \in Tasks |-> NoJob]
  /\ imports = {}
  /\ leads = [c \in Chats |-> IF row.status = "CONNECTED_SYNCED" \/ c \in Recent THEN 1 ELSE 0]
  /\ stored = [c \in Chats |-> [l \in 1 .. MaxLeads |->
                IF row.status = "CONNECTED_SYNCED" /\ l = 1 THEN 1 ELSE 0]]
  /\ skipped = {} /\ lost = FALSE /\ overlapped = FALSE

-----------------------------------------------------------------------------
(* The gateway: the phone scans a code, or the connection ends.            *)

Pair ==
  /\ conn = "close"
  /\ conn' = "open" /\ told' = told \cup {"open"}
  /\ UNCHANGED <<budget, rows, req, job, history, lost, overlapped>>

Drop ==
  /\ conn = "open"
  /\ conn' = "close" /\ told' = told \cup {"close"}
  /\ UNCHANGED <<budget, rows, req, job, history, lost, overlapped>>

\* Six hours without a request.
Ages ==
  /\ row.recent /\ \A r \in Requests : req[r].at \in {"idle", "done"}
  /\ row' = [row EXCEPT !.recent = FALSE]
  /\ UNCHANGED <<budget, gateway, holder, work, req, job, history, lost, overlapped>>

-----------------------------------------------------------------------------
(* Requests: the pages for the QR code and for the state.                  *)

\* Calls to an instance that does not exist are answered with 404.
Reachable == conn # "absent"

Fail(f) == f \in Faults /\ budget > 0 /\ budget' = budget - 1

NoFailure == UNCHANGED budget

Unreachable == IF Reachable THEN Fail("gateway") ELSE NoFailure

GoTo(r, stage) == req' = [req EXCEPT ![r].at = stage]

Starts(r, flow, stage) ==
  /\ req[r].at = "idle" /\ flow \in Flows[r]
  /\ req' = [req EXCEPT ![r].flow = flow, ![r].at = stage]

\* _fetch_instance_state.
FetchState(r, flow) ==
  /\ flow \in {"qr", "status"}
  /\ \/ conn = "open" /\ Starts(r, flow, "look") /\ NoFailure
     \/ /\ Starts(r, flow, IF flow = "qr" THEN "create" ELSE "done")
        /\ IF conn = "open" THEN Fail("gateway") ELSE NoFailure
  /\ UNCHANGED <<gateway, rows, job, history, lost, overlapped>>

\* _mark_connected_and_queue_sync reads the status it will decide on.
Look(r) ==
  /\ req[r].at = "look"
  /\ req' = [req EXCEPT ![r].at = "ensure", ![r].prev = Loaded(row), ![r].stale = ~row.recent,
                        ![r].obj = Loaded(row)]
  /\ UNCHANGED <<budget, gateway, rows, job, history, lost, overlapped>>

\* _ensure_instance_record and _sync_instance_record look it up again; the
\* webhook of the gateway is set anew, and failures of that are ignored.
LookAgain(r) ==
  /\ req[r].at \in {"ensure", "record"}
  /\ LET found == IF req[r].at = "ensure" THEN "decide" ELSE "code"
         absent == IF req[r].at = "ensure" THEN "upsert" ELSE "insert"
     IN  req' = [req EXCEPT ![r].at = IF Active(row) THEN found ELSE absent,
                            ![r].obj = IF @ = "none" THEN Loaded(row) ELSE @]
  /\ UNCHANGED <<budget, gateway, rows, job, history, lost, overlapped>>

\* register_instance: the upsert revives an inactive row, and resets one that
\* was committed after the look.
Register(r) ==
  /\ req[r].at \in {"upsert", "insert"}
  /\ Free(r)
  /\ Write(r, [there |-> TRUE, activo |-> TRUE, status |-> "DISCONNECTED",
               recent |-> View(r).there => View(r).recent])
  /\ req' = [req EXCEPT ![r].at = IF @ = "upsert" THEN "decide" ELSE "code",
                        ![r].obj = IF @ = "none" THEN "DISCONNECTED" ELSE @]
  /\ UNCHANGED <<budget, gateway, job, history, lost, overlapped>>

\* _schedule_history_sync.
Schedule(j, partial) ==
  /\ job' = [job EXCEPT ![j] = [NoJob EXCEPT !.at = "chats", !.partial = partial]]
  /\ overlapped' = (overlapped \/ Running # {} \/ imports # {})

\* A sync is wanted unless one is announced, or the last is recent enough.
Wanted(r) == \/ req[r].prev \notin {"CONNECTED_PENDING", "CONNECTED_SYNCED"}
             \/ req[r].prev = "CONNECTED_SYNCED" /\ req[r].stale

\* What _mark_connected_and_queue_sync decides.
Decide(r) ==
  /\ req[r].at = "decide"
  /\ IF Wanted(r) THEN req' = [req EXCEPT ![r].at = "find", ![r].to = "CONNECTED_PENDING"]
                  ELSE GoTo(r, "commit")
  /\ UNCHANGED <<budget, gateway, rows, job, history, lost, overlapped>>

\* The end of update_status; a sync that was announced is started at once.
Updated(r) ==
  IF req[r].to = "CONNECTED_PENDING"
    THEN Schedule(<<r, "queued">>, req[r].prev = "CONNECTED_SYNCED")
    ELSE UNCHANGED <<job, overlapped>>

\* update_status looks the row up: one that is inactive is left alone.
Find(r) ==
  /\ req[r].at = "find"
  /\ req' = [req EXCEPT ![r].at = IF Active(View(r)) THEN "write" ELSE "commit",
                        ![r].obj = IF @ = "none" THEN Loaded(View(r)) ELSE @]
  /\ IF Active(View(r)) THEN UNCHANGED <<job, overlapped>> ELSE Updated(r)
  /\ UNCHANGED <<budget, gateway, rows, history, lost>>

\* Its flush updates by id, whatever has become of the row; no UPDATE is sent
\* for the value that was loaded.
WriteStatus(r) ==
  /\ req[r].at = "write"
  /\ IF req[r].obj = req[r].to THEN UNCHANGED rows
     ELSE Free(r) /\ Write(r, WithStatus(View(r), req[r].to))
  /\ Updated(r) /\ GoTo(r, "commit")
  /\ UNCHANGED <<budget, gateway, history, lost>>

\* _create_instance: an instance that exists is as good as a new one.
Create(r) ==
  /\ req[r].at = "create"
  /\ \/ conn' = (IF conn = "absent" THEN "close" ELSE conn) /\ GoTo(r, "record") /\ NoFailure
     \/ Fail("gateway") /\ UNCHANGED conn /\ GoTo(r, "done")
  /\ UNCHANGED <<told, rows, job, history, lost, overlapped>>

\* get_qr_code_with_retry: none in ten attempts; a code; or an error, which is
\* taken to mean that the instance is connected (_build_qr_response).
AskCode(r) ==
  /\ req[r].at = "code"
  /\ \/ Reachable /\ NoFailure /\ GoTo(r, "commit")
     \/ Reachable /\ NoFailure
        /\ req' = [req EXCEPT ![r].at = "find", ![r].to = "CONNECTING"]
     \/ Unreachable
        /\ req' = [req EXCEPT ![r].at = "find", ![r].to = "CONNECTED"]
  /\ UNCHANGED <<gateway, rows, job, history, lost, overlapped>>

\* The request's session commits.
Commit(r) ==
  /\ req[r].at = "commit"
  /\ GoTo(r, "done")
  /\ IF holder = r THEN row' = work /\ holder' = Nobody /\ work' = NoRow
                   ELSE UNCHANGED rows
  /\ UNCHANGED <<budget, gateway, job, history, lost, overlapped>>

Rollback(r) ==
  IF holder = r THEN holder' = Nobody /\ work' = NoRow /\ UNCHANGED row
                ELSE UNCHANGED rows

\* A statement or the commit fails.  get_qr_status then starts a sync all the
\* same (_handle_open_state).
DbFails(r) ==
  /\ Fail("db") /\ req[r].at \notin {"idle", "create", "logout", "done"}
  /\ Rollback(r)
  /\ GoTo(r, "done")
  /\ IF req[r].flow = "status" THEN Schedule(<<r, "fallback">>, FALSE)
                               ELSE UNCHANGED <<job, overlapped>>
  /\ UNCHANGED <<gateway, history, lost>>

-----------------------------------------------------------------------------
(* Requests: disconnecting, the Cloud API, and the gateway's webhook.      *)

\* disconnect_whatsapp: logout and delete, each as far as it works.
Logout(r) ==
  /\ Starts(r, "delete", "leave")
  /\ \/ conn' = "absent" /\ NoFailure
     \/ Reachable /\ Fail("gateway") /\ conn' \in {conn, "close"}
  /\ told' = IF conn = "open" /\ conn' # "open" THEN told \cup {"close"} ELSE told
  /\ UNCHANGED <<rows, job, history, lost, overlapped>>

\* register_cloud_api begins.
StartCloud(r) ==
  /\ Starts(r, "cloud", "leave")
  /\ UNCHANGED <<budget, gateway, rows, job, history, lost, overlapped>>

\* deactivate_instance: first the row is looked up ...
Leave(r) ==
  /\ req[r].at = "leave"
  /\ req' = [req EXCEPT ![r].at = IF Active(row) THEN "deactivate"
                                  ELSE IF req[r].flow = "cloud" THEN "enroll" ELSE "commit",
                        ![r].obj = Loaded(row)]
  /\ UNCHANGED <<budget, gateway, rows, job, history, lost, overlapped>>

\* ... then what differs from the row that was loaded is written.
Deactivate(r) ==
  /\ req[r].at = "deactivate"
  /\ Free(r)
  /\ LET v == [row EXCEPT !.activo = FALSE, !.recent = TRUE]
     IN  Write(r, IF req[r].obj = "DISCONNECTED" THEN v ELSE WithStatus(v, "DISCONNECTED"))
  /\ GoTo(r, IF req[r].flow = "cloud" THEN "enroll" ELSE "commit")
  /\ UNCHANGED <<budget, gateway, job, history, lost, overlapped>>

\* create_cloud_api_instance, after a delete if there was one.
Enroll(r) ==
  /\ req[r].at = "enroll"
  /\ \/ conn' = "open" /\ GoTo(r, "add") /\ UNCHANGED rows /\ NoFailure
     \/ /\ Fail("gateway")
        /\ conn' \in {conn, "absent"} /\ GoTo(r, "done") /\ Rollback(r)
  /\ UNCHANGED <<told, job, history, lost, overlapped>>

\* _register_cloud_api_instance inserts a row whose unique name an older row
\* has, inactive as it may be.
Add(r) ==
  /\ req[r].at = "add"
  /\ Free(r)
  /\ IF View(r).there
       THEN Rollback(r) /\ GoTo(r, "done")
       ELSE /\ Write(r, [there |-> TRUE, activo |-> TRUE, status |-> "CONNECTED", recent |-> TRUE])
            /\ GoTo(r, "commit")
  /\ UNCHANGED <<budget, gateway, job, history, lost, overlapped>>

\* _handle_connection_update, for an event that may be overtaken by another.
Hear(r) ==
  /\ req[r].at = "idle" /\ "event" \in Flows[r]
  /\ \E e \in told :
       /\ told' = told \ {e}
       /\ req' = [req EXCEPT ![r].flow = "event", ![r].at = "find",
                             ![r].to = IF e = "open" THEN "CONNECTED" ELSE "DISCONNECTED"]
  /\ UNCHANGED <<budget, conn, rows, job, history, lost, overlapped>>

-----------------------------------------------------------------------------
(* The import of the history: _run_history_sync.                           *)

SetJob(j, r) == job' = [job EXCEPT ![j] = r]

\* _fetch_history_chats.
FetchChats(j) ==
  /\ job[j].at = "chats"
  /\ \/ Reachable /\ NoFailure /\ SetJob(j, [job[j] EXCEPT !.at = "chat", !.todo = Chats])
     \/ Unreachable /\ SetJob(j, [job[j] EXCEPT !.at = "find", !.failed = TRUE])
  /\ UNCHANGED <<gateway, rows, req, history, lost, overlapped>>

\* The lead that a chat's history goes to; 0 when there is none yet.
Resolve(j, c, l) ==
  SetJob(j, [job[j] EXCEPT !.at = IF l = 0 THEN "create" ELSE "post", !.now = {c},
                           !.lead = IF l = 0 THEN 1 ELSE l])

\* _search_lead: the newest lead with the phone.  None is found when the search
\* fails; an older one or none when the staff have put the newest away.
FindLead(j) ==
  /\ job[j].at = "chat"
  /\ \E c \in job[j].todo :
       \/ NoFailure /\ Resolve(j, c, leads[c])
       \/ Fail("lead") /\ \E l \in 0 .. leads[c] - 1 : Resolve(j, c, l)
  /\ UNCHANGED <<gateway, rows, req, history, lost, overlapped>>

\* No two leads are kept from having one phone.
NewLead(c) == leads[c] < MaxLeads /\ leads' = [leads EXCEPT ![c] = @ + 1]

\* _create_lead.
CreateLead(j) ==
  /\ job[j].at = "create"
  /\ \E c \in job[j].now : NewLead(c) /\ Resolve(j, c, leads[c] + 1)
  /\ UNCHANGED <<budget, gateway, rows, req, imports, stored, skipped, lost, overlapped>>

\* A tenant at its quota gets a 409, and the lead is searched again.
FindAgain(j) ==
  /\ job[j].at = "create"
  /\ \E c \in job[j].now : leads[c] > 0 /\ Resolve(j, c, leads[c])
  /\ UNCHANGED <<budget, gateway, rows, req, history, lost, overlapped>>

Done(j, c) == [job[j] EXCEPT !.at = "chat", !.todo = @ \ {c}, !.now = {}, !.lead = 1]

\* A chat without a lead counts as empty: the tenant is at its quota, or the
\* creation failed as far as one knows.
SkipChat(j) ==
  /\ job[j].at = "create"
  /\ \E c \in job[j].now :
       /\ Fail("lead") /\ (UNCHANGED leads \/ NewLead(c))
       /\ SetJob(j, Done(j, c)) /\ skipped' = skipped \cup {c}
  /\ UNCHANGED <<gateway, rows, req, imports, stored, lost, overlapped>>

\* A message makes its sender a lead (process_incoming): its search found none,
\* or failed, however many there are by now.
MessageLead ==
  /\ Fail("lead") /\ \E c \in Chats : NewLead(c)
  /\ UNCHANGED <<gateway, rows, req, job, imports, stored, skipped, lost, overlapped>>

\* A failed chat is counted and the sync goes on (_sync_one_chat).
FailChat(j) ==
  /\ job[j].at = "post" /\ Unreachable
  /\ \E c \in job[j].now : SetJob(j, [Done(j, c) EXCEPT !.failed = TRUE])
  /\ UNCHANGED <<gateway, rows, req, history, lost, overlapped>>

\* Mutant: the signatures are never equal, for want of a common time zone.
AlreadyStored_Never(c, l) == FALSE

\* import_conversation_messages looks for what the lead has already.
AlreadyStored(c, l) == stored[c][l] > 0

\* A chat's messages are fetched and posted; a partial sync posts recent ones.
PostChat(j) ==
  /\ job[j].at = "post" /\ Reachable
  /\ \E c \in job[j].now :
       IF job[j].partial /\ c \notin Recent
         THEN SetJob(j, Done(j, c)) /\ UNCHANGED imports
         ELSE /\ SetJob(j, [job[j] EXCEPT !.at = "import", !.now = {}, !.lead = 1])
              /\ imports' = imports \cup {[task |-> j, chat |-> c, lead |-> job[j].lead,
                                           new |-> ~AlreadyStored(c, job[j].lead)]}
  /\ UNCHANGED <<budget, gateway, rows, req, leads, stored, skipped, lost, overlapped>>

\* The task waits for the import of a chat that it has still to do.
Awaited(i) == job[i.task].at = "import" /\ i.chat \in job[i.task].todo

\* The import's inserts are committed.
Imported(i) ==
  /\ imports' = imports \ {i}
  /\ stored' = IF i.new THEN [stored EXCEPT ![i.chat][i.lead] = @ + 1] ELSE stored
  /\ IF Awaited(i) THEN SetJob(i.task, Done(i.task, i.chat)) ELSE UNCHANGED job
  /\ UNCHANGED <<budget, gateway, rows, req, leads, skipped, lost, overlapped>>

\* Mutant: the failure of an import is not counted.
FailedChat_Uncounted(i) ==
  IF Awaited(i) THEN SetJob(i.task, Done(i.task, i.chat)) ELSE UNCHANGED job

\* The task that waits counts a failed chat.
FailedChat(i) ==
  IF Awaited(i) THEN SetJob(i.task, [Done(i.task, i.chat) EXCEPT !.failed = TRUE])
                ELSE UNCHANGED job

ImportFails(i) ==
  /\ Fail("db")
  /\ imports' = imports \ {i} /\ FailedChat(i)
  /\ UNCHANGED <<gateway, rows, req, leads, stored, skipped, lost, overlapped>>

\* After 20 s the task goes on; the import does, too.
ImportTimeout(i) ==
  /\ Fail("slow") /\ Awaited(i) /\ FailedChat(i)
  /\ UNCHANGED <<gateway, rows, req, history, lost, overlapped>>

\* All chats are done.
Summarize(j) ==
  /\ job[j].at = "chat" /\ job[j].todo = {}
  /\ SetJob(j, [job[j] EXCEPT !.at = "find"])
  /\ UNCHANGED <<budget, gateway, rows, req, history, lost, overlapped>>

Final(j) == IF job[j].failed THEN "CONNECTED" ELSE "CONNECTED_SYNCED"

\* update_status in a session of its own.  It may come before the commit of the
\* request that started the sync, and then sees the row without its status.
FindRow(j) ==
  /\ job[j].at = "find"
  /\ SetJob(j, [job[j] EXCEPT !.at = IF Active(row) THEN "write" ELSE "done", !.obj = Loaded(row)])
  /\ lost' = (lost \/ req[j[1]].at = "commit")
  /\ UNCHANGED <<budget, gateway, rows, req, history, overlapped>>

\* Mutant: a sync that failed leaves the status as it is.
EndSync_OnSuccess(j) ==
  /\ job[j].at = "write"
  /\ IF job[j].obj = Final(j) \/ job[j].failed THEN UNCHANGED row
     ELSE holder = Nobody /\ row' = WithStatus(row, Final(j))
  /\ SetJob(j, [job[j] EXCEPT !.at = "done"])
  /\ UNCHANGED <<budget, gateway, holder, work, req, history, lost, overlapped>>

\* The final status goes over whatever the row has by then.
EndSync(j) ==
  /\ job[j].at = "write"
  /\ IF job[j].obj = Final(j) THEN UNCHANGED row
     ELSE holder = Nobody /\ row' = WithStatus(row, Final(j))
  /\ SetJob(j, [job[j] EXCEPT !.at = "done"])
  /\ UNCHANGED <<budget, gateway, holder, work, req, history, lost, overlapped>>

\* "Could not persist historical sync status".
EndSyncFails(j) ==
  /\ Fail("db") /\ job[j].at \in {"find", "write"}
  /\ SetJob(j, [job[j] EXCEPT !.at = "done"])
  /\ lost' = TRUE
  /\ UNCHANGED <<gateway, rows, req, history, overlapped>>

\* canales is restarted: requests and tasks are gone, imports go on elsewhere.
Crash ==
  /\ Fail("crash")
  /\ \/ \E r \in Requests : req[r].at \notin {"idle", "done"}
     \/ Running # {}
  /\ req' = [r \in Requests |-> IF req[r].at = "idle" THEN req[r] ELSE [req[r] EXCEPT !.at = "done"]]
  /\ job' = [j \in Tasks |-> IF job[j].at = "none" THEN job[j] ELSE [job[j] EXCEPT !.at = "done"]]
  /\ holder' = Nobody /\ work' = NoRow
  /\ lost' = TRUE
  /\ UNCHANGED <<gateway, row, history, overlapped>>

-----------------------------------------------------------------------------

RequestStep(r) ==
  \/ \E flow \in {"qr", "status"} : FetchState(r, flow)
  \/ Look(r) \/ LookAgain(r) \/ Register(r) \/ Decide(r) \/ Find(r) \/ WriteStatus(r)
  \/ Create(r) \/ AskCode(r) \/ Commit(r) \/ DbFails(r)
  \/ Logout(r) \/ StartCloud(r) \/ Leave(r) \/ Deactivate(r) \/ Enroll(r) \/ Add(r) \/ Hear(r)

TaskStep(j) ==
  \/ FetchChats(j) \/ FindLead(j) \/ CreateLead(j) \/ FindAgain(j) \/ SkipChat(j)
  \/ FailChat(j) \/ PostChat(j) \/ Summarize(j)
  \/ FindRow(j) \/ EndSync(j) \/ EndSyncFails(j)

Next ==
  \/ Pair \/ Drop \/ Ages \/ MessageLead \/ Crash
  \/ \E r \in Requests : RequestStep(r)
  \/ \E j \in Tasks : TaskStep(j)
  \/ \E i \in imports : Imported(i) \/ ImportFails(i) \/ ImportTimeout(i)

Spec == Init /\ [][Next]_vars

-----------------------------------------------------------------------------

Stages ==
  {"idle", "look", "ensure", "upsert", "decide", "find", "write", "create", "record", "insert",
   "code", "commit", "leave", "deactivate", "enroll", "add", "done"}

Versions == [there : BOOLEAN, activo : BOOLEAN, status : Statuses, recent : BOOLEAN]

Sessions ==
  [flow : AllFlows \cup {"none"}, at : Stages, prev : Statuses \cup {"none"}, stale : BOOLEAN,
   obj : Statuses \cup {"none"}, to : Statuses \ {"CONNECTED_SYNCED"}]

TaskStages == {"none", "chats", "chat", "create", "post", "import", "find", "write", "done"}

TaskStates ==
  [at : TaskStages, partial : BOOLEAN, todo : SUBSET Chats, now : SUBSET Chats,
   lead : 1 .. MaxLeads, failed : BOOLEAN, obj : Statuses \cup {"none"}]

\* The type invariant of the model; an active row exists.
TypeOK ==
  /\ budget \in 0 .. MaxFaults
  /\ conn \in {"absent", "close", "open"} /\ told \subseteq {"open", "close"}
  /\ row \in Versions /\ (row.activo => row.there)
  /\ work \in Versions /\ (work.activo => work.there)
  /\ holder \in Requests \cup {Nobody}
  /\ req \in [Requests -> Sessions] /\ job \in [Tasks -> TaskStates]
  /\ imports \subseteq [task : Tasks, chat : Chats, lead : 1 .. MaxLeads, new : BOOLEAN]
  /\ leads \in [Chats -> 0 .. MaxLeads] /\ stored \in [Chats -> [1 .. MaxLeads -> Nat]]
  /\ skipped \subseteq Chats
  /\ lost \in BOOLEAN /\ overlapped \in BOOLEAN

\* CONNECTED_PENDING announces a sync, and the polls rely on it: they start none
\* while it stands (_mark_connected_and_queue_sync).  So a task is at work on
\* it, unless canales was restarted, the final status could not be written or a
\* task ended before the request that started it had committed.
PendingIsRunning ==
  Active(row) /\ row.status = "CONNECTED_PENDING" => Running # {} \/ lost

\* CONNECTED_SYNCED says that the history is there: every chat the gateway
\* lists has been imported for a lead with its phone, or was passed over for
\* want of one (_run_history_sync), however syncs overlap and fail.
SyncedIsImported ==
  Active(row) /\ row.status = "CONNECTED_SYNCED" =>
    \A c \in Chats : (\E l \in 1 .. MaxLeads : stored[c][l] > 0) \/ c \in skipped

\* What a re-sync finds stored it does not store again (_import_signature): as
\* long as no sync was started while another was at work, no lead gets a history
\* twice, whatever fails or outlives its caller.  A second lead of the same phone
\* gets a history of its own, so that a chat has as many copies as it has leads.
ImportedOnce == ~overlapped => \A c \in Chats : \A l \in 1 .. MaxLeads : stored[c][l] <= 1

-----------------------------------------------------------------------------
(* What the documentation says and the code does not do.                   *)

\* "a re-sync of the same WhatsApp history is idempotent" (_import_signature):
\* no history is stored for two leads.
ResyncIsIdempotent ==
  ~overlapped => \A c \in Chats : \A l, m \in 1 .. MaxLeads :
                   stored[c][l] > 0 /\ stored[c][m] > 0 => l = m
=============================================================================
