------------------------- MODULE InstanceSyncProofs -------------------------
(***************************************************************************)
(* Theorems about InstanceSync, for any number of chats and requests, any  *)
(* flows of the requests and any faults, as often as you like.             *)
(***************************************************************************)
EXTENDS InstanceSync, TLAPS

-----------------------------------------------------------------------------
(* Types.                                                                  *)

Seen == Statuses \cup {"none"}

LEMMA LoadedTyped == ASSUME NEW v \in Versions PROVE Loaded(v) \in Seen
BY DEF Loaded, Versions, Seen

LEMMA SessionFound ==
  ASSUME req \in [Requests -> Sessions], NEW r \in Requests, NEW s \in Stages, NEW o \in Seen
  PROVE  [req EXCEPT ![r].at = s, ![r].obj = o] \in [Requests -> Sessions]
<1>1. [req[r] EXCEPT !.at = s, !.obj = o] \in Sessions
  BY DEF Sessions, Seen
<1>2. QED
  BY <1>1

LEMMA SessionTo ==
  ASSUME req \in [Requests -> Sessions], NEW r \in Requests, NEW s \in Stages,
         NEW t \in Statuses \ {"CONNECTED_SYNCED"}
  PROVE  [req EXCEPT ![r].at = s, ![r].to = t] \in [Requests -> Sessions]
<1>1. [req[r] EXCEPT !.at = s, !.to = t] \in Sessions
  BY DEF Sessions
<1>2. QED
  BY <1>1

LEMMA SessionHeard ==
  ASSUME req \in [Requests -> Sessions], NEW r \in Requests, NEW s \in Stages, NEW f \in AllFlows,
         NEW t \in Statuses \ {"CONNECTED_SYNCED"}
  PROVE  [req EXCEPT ![r].flow = f, ![r].at = s, ![r].to = t] \in [Requests -> Sessions]
<1>1. [req[r] EXCEPT !.flow = f, !.at = s, !.to = t] \in Sessions
  BY DEF Sessions
<1>2. QED
  BY <1>1

LEMMA WentTo ==
  ASSUME req \in [Requests -> Sessions], NEW r \in Requests, NEW s \in Stages, GoTo(r, s)
  PROVE  req' \in [Requests -> Sessions]
<1>. [req[r] EXCEPT !.at = s] \in Sessions
  BY DEF Sessions
<1>. QED
  BY DEF GoTo

LEMMA Started ==
  ASSUME req \in [Requests -> Sessions], NEW r \in Requests, NEW s \in Stages, NEW f \in AllFlows,
         Starts(r, f, s)
  PROVE  req' \in [Requests -> Sessions]
<1>. req' = [req EXCEPT ![r].flow = f, ![r].at = s]
  BY DEF Starts
<1>. [req EXCEPT ![r].flow = f, ![r].at = s] \in [Requests -> Sessions]
  <2>. [req[r] EXCEPT !.flow = f, !.at = s] \in Sessions
    BY DEF Sessions
  <2>. QED
    OBVIOUS
<1>. QED
  OBVIOUS

LEMMA SessionLooked ==
  ASSUME req \in [Requests -> Sessions], NEW r \in Requests, NEW s \in Stages, NEW o \in Seen,
         NEW b \in BOOLEAN
  PROVE  [req EXCEPT ![r].at = s, ![r].prev = o, ![r].stale = b, ![r].obj = o] \in [Requests -> Sessions]
<1>1. [req[r] EXCEPT !.at = s, !.prev = o, !.stale = b, !.obj = o] \in Sessions
  BY DEF Sessions, Seen
<1>2. QED
  BY <1>1

LEMMA StatusTyped ==
  ASSUME NEW v \in Versions, NEW s \in Statuses
  PROVE  /\ WithStatus(v, s) \in Versions /\ WithStatus(v, s).activo = v.activo
         /\ WithStatus(v, s).there = v.there /\ WithStatus(v, s).status = s
BY DEF Versions, WithStatus

LEMMA LeftTyped ==
  ASSUME NEW v \in Versions
  PROVE  /\ [v EXCEPT !.activo = FALSE, !.recent = TRUE] \in Versions
         /\ ~[v EXCEPT !.activo = FALSE, !.recent = TRUE].activo
BY DEF Versions

LEMMA ViewTyped ==
  ASSUME TypeOK, NEW r \in Requests
  PROVE  View(r) \in Versions /\ (View(r).activo => View(r).there)
BY DEF View, TypeOK

\* What a request may write: an active row exists.
LEMMA NewVersions ==
  ASSUME NEW b \in BOOLEAN
  PROVE  /\ [there |-> TRUE, activo |-> TRUE, status |-> "DISCONNECTED", recent |-> b] \in Versions
         /\ [there |-> TRUE, activo |-> TRUE, status |-> "CONNECTED", recent |-> b] \in Versions
         /\ NoRow \in Versions /\ ~NoRow.activo
BY DEF Versions, Statuses, NoRow

LEMMA Written ==
  ASSUME TypeOK, NEW r \in Requests, NEW v \in Versions, v.activo => v.there, Write(r, v)
  PROVE  /\ row' \in Versions /\ (row'.activo => row'.there)
         /\ work' \in Versions /\ (work'.activo => work'.there)
         /\ holder' \in Requests \cup {Nobody}
BY DEF TypeOK, Write

LEMMA RolledBack ==
  ASSUME TypeOK, NEW r \in Requests, Rollback(r)
  PROVE  /\ row' \in Versions /\ (row'.activo => row'.there)
         /\ work' \in Versions /\ (work'.activo => work'.there)
         /\ holder' \in Requests \cup {Nobody}
BY NewVersions DEF TypeOK, Rollback, rows

LEMMA TaskSet ==
  ASSUME job \in [Tasks -> TaskStates], NEW j \in Tasks, NEW x \in TaskStates
  PROVE  [job EXCEPT ![j] = x] \in [Tasks -> TaskStates]
OBVIOUS

LEMMA TaskMoved ==
  ASSUME NEW x \in TaskStates, NEW s \in TaskStages
  PROVE  [x EXCEPT !.at = s] \in TaskStates
BY DEF TaskStates

LEMMA TaskLooked ==
  ASSUME NEW x \in TaskStates, NEW s \in TaskStages, NEW o \in Seen
  PROVE  [x EXCEPT !.at = s, !.obj = o] \in TaskStates
BY DEF TaskStates, Seen

LEMMA TaskListed ==
  ASSUME NEW x \in TaskStates, NEW s \in TaskStages, NEW d \in SUBSET Chats
  PROVE  [x EXCEPT !.at = s, !.todo = d] \in TaskStates
BY DEF TaskStates

LEMMA TaskFailed ==
  ASSUME NEW x \in TaskStates, NEW s \in TaskStages
  PROVE  [x EXCEPT !.at = s, !.failed = TRUE] \in TaskStates /\ [x EXCEPT !.failed = TRUE] \in TaskStates
<1>1. [x EXCEPT !.failed = TRUE] \in TaskStates
  BY DEF TaskStates
<1>2. [x EXCEPT !.at = s, !.failed = TRUE] \in TaskStates
  BY DEF TaskStates
<1>3. QED
  BY <1>1, <1>2

LEMMA NoJobTyped ==
  ASSUME NEW b \in BOOLEAN
  PROVE  NoJob \in TaskStates /\ [NoJob EXCEPT !.at = "chats", !.partial = b] \in TaskStates
<1>1. NoJob \in TaskStates
  <2>1. "none" \in TaskStages /\ 1 \in 1 .. MaxLeads
    BY SettingsAssumption DEF TaskStages
  <2>2. QED
    BY <2>1 DEF NoJob, TaskStates
<1>2. "chats" \in TaskStages
  BY DEF TaskStages
<1>3. [NoJob EXCEPT !.at = "chats", !.partial = b] \in TaskStates
  BY <1>1, <1>2 DEF TaskStates
<1>4. QED
  BY <1>1, <1>3

\* A task that is done with a chat, and one that waits for its import, has none
\* at hand.
LEMMA DoneTyped ==
  ASSUME job \in [Tasks -> TaskStates], NEW j \in Tasks, NEW c
  PROVE  Done(j, c) \in TaskStates /\ [Done(j, c) EXCEPT !.failed = TRUE] \in TaskStates
<1>1. job[j] \in TaskStates /\ job[j].todo \ {c} \in SUBSET Chats /\ "chat" \in TaskStages
      /\ 1 \in 1 .. MaxLeads
  BY SettingsAssumption DEF TaskStates, TaskStages
<1>2. Done(j, c) \in TaskStates
  BY <1>1 DEF Done, TaskStates
<1>3. QED
  BY <1>1, <1>2, TaskFailed

LEMMA DoneFields ==
  ASSUME job \in [Tasks -> TaskStates], NEW j \in Tasks, NEW c
  PROVE  /\ Done(j, c).at = "chat" /\ Done(j, c).todo = job[j].todo \ {c}
         /\ Done(j, c).failed = job[j].failed /\ Done(j, c).partial = job[j].partial
         /\ [Done(j, c) EXCEPT !.failed = TRUE].at = "chat"
         /\ [Done(j, c) EXCEPT !.failed = TRUE].todo = job[j].todo \ {c}
         /\ [Done(j, c) EXCEPT !.failed = TRUE].failed
         /\ [Done(j, c) EXCEPT !.failed = TRUE].partial = job[j].partial
BY DEF Done, TaskStates

LEMMA PostedTyped ==
  ASSUME NEW x \in TaskStates
  PROVE  LET y == [x EXCEPT !.at = "import", !.now = {}, !.lead = 1]
         IN  /\ y \in TaskStates /\ y.at = "import" /\ y.todo = x.todo
             /\ y.failed = x.failed /\ y.partial = x.partial
<1>1. "import" \in TaskStages /\ 1 \in 1 .. MaxLeads
  BY SettingsAssumption DEF TaskStages
<1>2. QED
  BY <1>1 DEF TaskStates

\* A chat whose lead is found, or is still to be created.
LEMMA Resolved ==
  ASSUME job \in [Tasks -> TaskStates], NEW j \in Tasks, NEW c \in Chats, NEW l \in 0 .. MaxLeads,
         Resolve(j, c, l)
  PROVE  /\ job' \in [Tasks -> TaskStates]
         /\ job'[j].at \in {"create", "post"} /\ job'[j].now = {c}
         /\ job'[j].todo = job[j].todo /\ job'[j].failed = job[j].failed
         /\ job'[j].partial = job[j].partial
<1> DEFINE s == IF l = 0 THEN "create" ELSE "post"
           n == IF l = 0 THEN 1 ELSE l
           x == [job[j] EXCEPT !.at = s, !.now = {c}, !.lead = n]
<1>1. job[j] \in TaskStates /\ s \in TaskStages /\ s \in {"create", "post"} /\ n \in 1 .. MaxLeads
  BY SettingsAssumption DEF TaskStages
<1>2. job' = [job EXCEPT ![j] = x]
  BY Zenon DEF Resolve, SetJob
<1> HIDE DEF s, n
<1>3. /\ x \in TaskStates /\ x.at = s /\ x.now = {c} /\ x.todo = job[j].todo
      /\ x.failed = job[j].failed /\ x.partial = job[j].partial
  BY <1>1 DEF TaskStates
<1> HIDE DEF x
<1>4. QED
  BY <1>1, <1>2, <1>3

LEMMA LeadAdded ==
  ASSUME TypeOK, NEW c \in Chats, NewLead(c)
  PROVE  leads' \in [Chats -> 0 .. MaxLeads] /\ leads[c] + 1 \in 0 .. MaxLeads
BY SettingsAssumption DEF TypeOK, NewLead

LEMMA Scheduled ==
  ASSUME TypeOK, NEW j \in Tasks, NEW b \in BOOLEAN, Schedule(j, b)
  PROVE  job' \in [Tasks -> TaskStates] /\ overlapped' \in BOOLEAN
<1>1. QED
  BY NoJobTyped, TaskSet DEF TypeOK, Schedule

LEMMA TypesStart == Init => TypeOK
<1> SUFFICES ASSUME Init PROVE TypeOK
  OBVIOUS
<1>1. NoRow \in Versions /\ [NoRow EXCEPT !.there = TRUE] \in Versions
  BY DEF NoRow, Versions, Statuses
<1>2. ASSUME NEW v \in [there : {TRUE}, activo : {TRUE}, recent : BOOLEAN,
                        status : {"CONNECTED", "CONNECTED_SYNCED"}]
      PROVE  v \in Versions /\ (v.activo => v.there)
  <2>1. v = [there |-> v.there, activo |-> v.activo, status |-> v.status, recent |-> v.recent]
    OBVIOUS
  <2>2. v.status \in Statuses /\ v.there \in BOOLEAN /\ v.activo \in BOOLEAN /\ v.recent \in BOOLEAN
    BY DEF Statuses
  <2>3. QED
    BY <2>1, <2>2 DEF Versions
<1>3. /\ row \in Versions /\ (row.activo => row.there)
      /\ work \in Versions /\ (work.activo => work.there)
  <2>1. \/ row = NoRow \/ row = [NoRow EXCEPT !.there = TRUE]
        \/ row \in [there : {TRUE}, activo : {TRUE}, recent : BOOLEAN,
                    status : {"CONNECTED", "CONNECTED_SYNCED"}]
    BY Zenon DEF Init
  <2>2. work = NoRow
    BY DEF Init
  <2>3. ~NoRow.activo /\ ~[NoRow EXCEPT !.there = TRUE].activo
    BY DEF NoRow
  <2>4. QED
    BY <1>1, <1>2, <2>1, <2>2, <2>3
<1>4. Idle \in Sessions /\ NoJob \in TaskStates
  <2>1. Idle \in Sessions
    BY DEF Idle, Sessions, Statuses, Stages
  <2>2. QED
    BY <2>1, NoJobTyped
<1>5. conn \in {"absent", "close", "open"} /\ budget \in 0 .. MaxFaults
  <2>1. budget = MaxFaults /\ (conn = "absent" \/ conn = "open")
    BY Zenon DEF Init
  <2>2. QED
    BY <2>1, SettingsAssumption
<1>6. /\ leads \in [Chats -> 0 .. MaxLeads] /\ stored \in [Chats -> [1 .. MaxLeads -> Nat]] /\ told = {} /\ holder = Nobody /\ imports = {}
      /\ skipped = {} /\ lost = FALSE /\ overlapped = FALSE
  BY SettingsAssumption DEF Init
<1>7. req \in [Requests -> Sessions] /\ job \in [Tasks -> TaskStates]
  <2>1. req = [r \in Requests |-> Idle] /\ job = [j \in Tasks |-> NoJob]
    BY Zenon DEF Init
  <2>2. QED
    BY <1>4, <2>1
<1>8. QED
  BY <1>3, <1>5, <1>6, <1>7 DEF TypeOK

LEMMA Budgets ==
  ASSUME TypeOK, NEW f, Fail(f) \/ NoFailure
  PROVE  budget' \in 0 .. MaxFaults
BY SettingsAssumption DEF TypeOK, Fail, NoFailure

LEMMA TypesRequest ==
  ASSUME TypeOK, NEW r \in Requests, RequestStep(r)
  PROVE  TypeOK'
<1>0. /\ req \in [Requests -> Sessions] /\ row \in Versions /\ View(r) \in Versions
      /\ Loaded(row) \in Seen /\ Loaded(View(r)) \in Seen /\ req[r].obj \in Seen
      /\ row.recent \in BOOLEAN /\ req[r].to \in Statuses \ {"CONNECTED_SYNCED"}
      /\ <<r, "queued">> \in Tasks /\ <<r, "fallback">> \in Tasks
  <2>1. /\ req \in [Requests -> Sessions] /\ row \in Versions /\ View(r) \in Versions
        /\ <<r, "queued">> \in Tasks /\ <<r, "fallback">> \in Tasks
    BY ViewTyped DEF TypeOK, Tasks
  <2>2. QED
    BY <2>1, LoadedTyped DEF Sessions, Versions, Seen
<1>s. /\ "look" \in Stages /\ "create" \in Stages /\ "done" \in Stages /\ "ensure" \in Stages
      /\ "decide" \in Stages /\ "code" \in Stages /\ "upsert" \in Stages /\ "insert" \in Stages
      /\ "find" \in Stages /\ "commit" \in Stages /\ "write" \in Stages /\ "record" \in Stages
      /\ "leave" \in Stages /\ "deactivate" \in Stages /\ "enroll" \in Stages
      /\ "add" \in Stages /\ "qr" \in AllFlows /\ "status" \in AllFlows
      /\ "delete" \in AllFlows /\ "cloud" \in AllFlows /\ "event" \in AllFlows
  BY DEF Stages, AllFlows
<1>a. /\ work \in Versions /\ (row.activo => row.there) /\ (work.activo => work.there)
      /\ (View(r).activo => View(r).there) /\ holder \in Requests \cup {Nobody}
      /\ job \in [Tasks -> TaskStates] /\ overlapped \in BOOLEAN /\ budget \in 0 .. MaxFaults
  BY ViewTyped DEF TypeOK
<1>1. ASSUME NEW flow \in {"qr", "status"}, FetchState(r, flow) PROVE TypeOK'
  <2>1. req' \in [Requests -> Sessions]
    BY <1>1, <1>0, <1>s, Started DEF FetchState
  <2>2. budget' \in 0 .. MaxFaults
    BY <1>1, Budgets DEF FetchState
  <2>3. QED
    BY <1>1, <2>1, <2>2 DEF TypeOK, FetchState, gateway, rows, history
<1>2. ASSUME Look(r) PROVE TypeOK'
  <2>1. (~row.recent) \in BOOLEAN /\ "ensure" \in Stages
    BY <1>2, Zenon DEF Stages
  <2>2. req' \in [Requests -> Sessions]
    BY <1>2, <1>0, <2>1, <1>s, SessionLooked DEF Look
  <2>3. QED
    BY <1>2, <2>1, <2>2 DEF TypeOK, Look, gateway, rows, history
<1>3. ASSUME LookAgain(r) PROVE TypeOK'
  <2> DEFINE found == IF req[r].at = "ensure" THEN "decide" ELSE "code"
             absent == IF req[r].at = "ensure" THEN "upsert" ELSE "insert"
             s == IF Active(row) THEN found ELSE absent
             o == IF req[r].obj = "none" THEN Loaded(row) ELSE req[r].obj
  <2>1. s \in Stages /\ o \in Seen
    BY <1>0, <1>s
  <2>2. req' = [req EXCEPT ![r].at = s, ![r].obj = o]
    BY <1>0, <1>3 DEF LookAgain
  <2> HIDE DEF s, o
  <2>3. req' \in [Requests -> Sessions]
    BY <1>0, <2>1, <2>2, SessionFound
  <2>4. QED
    BY <1>3, <2>3 DEF TypeOK, LookAgain, gateway, rows, history
<1>4. ASSUME Register(r) PROVE TypeOK'
  <2>1. "DISCONNECTED" \in Seen
    BY <1>4 DEF Seen, Statuses
  <2>2. req' \in [Requests -> Sessions]
    BY <1>4, <1>0, <2>1, <1>s, SessionFound DEF Register
  <2>3. (View(r).there => View(r).recent) \in BOOLEAN
    BY <1>4, Zenon
  <2>4. /\ row' \in Versions /\ (row'.activo => row'.there)
        /\ work' \in Versions /\ (work'.activo => work'.there)
        /\ holder' \in Requests \cup {Nobody}
    BY <1>4, <1>0, <1>a, <2>3, NewVersions DEF Register, Write
  <2>5. QED
    BY <1>4, <2>1, <2>2, <2>3, <2>4 DEF TypeOK, Register, gateway, history
<1>5. ASSUME Decide(r) PROVE TypeOK'
  <2>1. "CONNECTED_PENDING" \in Statuses \ {"CONNECTED_SYNCED"}
    BY <1>5 DEF Statuses
  <2>2. req' \in [Requests -> Sessions]
    <3>1. CASE Wanted(r)
      <4>1. req' = [req EXCEPT ![r].at = "find", ![r].to = "CONNECTED_PENDING"]
        BY <1>5, <3>1 DEF Decide
      <4>2. QED
        BY <1>0, <1>s, <2>1, <4>1, SessionTo
    <3>2. CASE ~Wanted(r)
      BY <1>5, <1>0, <1>s, <3>2, WentTo DEF Decide
    <3>3. QED
      BY <3>1, <3>2
  <2>3. QED
    BY <1>5, <2>1, <2>2 DEF TypeOK, Decide, gateway, rows, history
<1>6. ASSUME Find(r) PROVE TypeOK'
  <2>1. req' \in [Requests -> Sessions]
    BY <1>6, <1>0, <1>s, SessionFound DEF Find
  <2>2. (req[r].prev = "CONNECTED_SYNCED") \in BOOLEAN
    BY <1>6, Zenon
  <2>3. job' \in [Tasks -> TaskStates] /\ overlapped' \in BOOLEAN
    BY <1>6, <1>0, <1>a, <2>2, Scheduled DEF Find, Updated
  <2>4. QED
    BY <1>6, <2>1, <2>2, <2>3 DEF TypeOK, Find, gateway, rows, history
<1>7. ASSUME WriteStatus(r) PROVE TypeOK'
  <2>1. req' \in [Requests -> Sessions]
    BY <1>7, <1>0, <1>s, WentTo DEF WriteStatus
  <2>2. (req[r].prev = "CONNECTED_SYNCED") \in BOOLEAN
    BY <1>7, Zenon
  <2>3. job' \in [Tasks -> TaskStates] /\ overlapped' \in BOOLEAN
    BY <1>7, <1>0, <1>a, <2>2, Scheduled DEF WriteStatus, Updated
  <2>4. /\ row' \in Versions /\ (row'.activo => row'.there)
        /\ work' \in Versions /\ (work'.activo => work'.there)
        /\ holder' \in Requests \cup {Nobody}
    <3>1. CASE req[r].obj = req[r].to
      BY <1>0, <1>7, <1>a, <3>1 DEF WriteStatus, rows
    <3>2. CASE req[r].obj # req[r].to
      <4>1. Write(r, WithStatus(View(r), req[r].to))
        BY <1>7, <3>2 DEF WriteStatus
      <4>2. /\ WithStatus(View(r), req[r].to) \in Versions
            /\ (WithStatus(View(r), req[r].to).activo => WithStatus(View(r), req[r].to).there)
        BY <1>0, <1>a, StatusTyped
      <4>3. QED
        BY <4>1, <4>2, Written
    <3>3. QED
      BY <3>1, <3>2
  <2>5. QED
    BY <1>7, <2>1, <2>2, <2>3, <2>4 DEF TypeOK, WriteStatus, gateway, history
<1>8. ASSUME Create(r) PROVE TypeOK'
  <2>1. req' \in [Requests -> Sessions]
    BY <1>8, <1>0, <1>s, WentTo DEF Create
  <2>2. budget' \in 0 .. MaxFaults
    BY <1>8, Budgets DEF Create
  <2>3. QED
    BY <1>8, <2>1, <2>2 DEF TypeOK, Create, rows, history
<1>9. ASSUME AskCode(r) PROVE TypeOK'
  <2>1. "CONNECTING" \in Statuses \ {"CONNECTED_SYNCED"} /\ "CONNECTED" \in Statuses \ {"CONNECTED_SYNCED"}
    BY <1>9 DEF Statuses
  <2>2. req' \in [Requests -> Sessions]
    <3>1. CASE GoTo(r, "commit")
      BY <1>0, <1>s, <3>1, WentTo
    <3>2. CASE ~GoTo(r, "commit")
      <4>1. PICK t \in {"CONNECTING", "CONNECTED"} : req' = [req EXCEPT ![r].at = "find", ![r].to = t]
        BY <1>9, <3>2 DEF AskCode
      <4>2. QED
        BY <1>0, <1>s, <2>1, <4>1, SessionTo
    <3>3. QED
      BY <3>1, <3>2
  <2>3. budget' \in 0 .. MaxFaults
    BY <1>9, Budgets DEF AskCode, Unreachable
  <2>4. QED
    BY <1>9, <2>1, <2>2, <2>3 DEF TypeOK, AskCode, gateway, rows, history
<1>10. ASSUME Commit(r) PROVE TypeOK'
  <2>1. req' \in [Requests -> Sessions]
    BY <1>10, <1>0, <1>s, WentTo DEF Commit
  <2>2. /\ row' \in Versions /\ (row'.activo => row'.there)
        /\ work' \in Versions /\ (work'.activo => work'.there)
        /\ holder' \in Requests \cup {Nobody}
    BY <1>10, <1>0, <1>a, NewVersions DEF Commit, rows
  <2>3. QED
    BY <1>10, <2>1, <2>2 DEF TypeOK, Commit, gateway, history
<1>11. ASSUME DbFails(r) PROVE TypeOK'
  <2>1. req' \in [Requests -> Sessions]
    BY <1>11, <1>0, <1>s, WentTo DEF DbFails
  <2>2. job' \in [Tasks -> TaskStates] /\ overlapped' \in BOOLEAN
    BY <1>11, <1>0, <1>a, Scheduled DEF DbFails
  <2>3. /\ row' \in Versions /\ (row'.activo => row'.there)
        /\ work' \in Versions /\ (work'.activo => work'.there)
        /\ holder' \in Requests \cup {Nobody}
    BY <1>11, <1>0, <1>a, NewVersions DEF DbFails, Rollback, rows
  <2>4. budget' \in 0 .. MaxFaults
    BY <1>11, Budgets DEF DbFails
  <2>5. QED
    BY <1>11, <2>1, <2>2, <2>3, <2>4 DEF TypeOK, DbFails, gateway, history
<1>12. ASSUME Logout(r) PROVE TypeOK'
  <2>1. req' \in [Requests -> Sessions]
    BY <1>12, <1>0, <1>s, Started DEF Logout
  <2>2. budget' \in 0 .. MaxFaults
    BY <1>12, Budgets DEF Logout
  <2>3. QED
    BY <1>12, <2>1, <2>2 DEF TypeOK, Logout, rows, history
<1>13. ASSUME StartCloud(r) PROVE TypeOK'
  <2>1. req' \in [Requests -> Sessions]
    BY <1>13, <1>0, <1>s, Started DEF StartCloud
  <2>2. QED
    BY <1>13, <2>1 DEF TypeOK, StartCloud, gateway, rows, history
<1>14. ASSUME Leave(r) PROVE TypeOK'
  <2>1. req' \in [Requests -> Sessions]
    BY <1>14, <1>0, <1>s, SessionFound DEF Leave
  <2>2. QED
    BY <1>14, <2>1 DEF TypeOK, Leave, gateway, rows, history
<1>15. ASSUME Deactivate(r) PROVE TypeOK'
  <2>1. req' \in [Requests -> Sessions]
    BY <1>15, <1>0, <1>s, WentTo DEF Deactivate
  <2>2. "DISCONNECTED" \in Statuses
    BY <1>15 DEF Statuses
  <2>3. /\ row' \in Versions /\ (row'.activo => row'.there)
        /\ work' \in Versions /\ (work'.activo => work'.there)
        /\ holder' \in Requests \cup {Nobody}
    <3> DEFINE v == [row EXCEPT !.activo = FALSE, !.recent = TRUE]
               w == IF req[r].obj = "DISCONNECTED" THEN v ELSE WithStatus(v, "DISCONNECTED")
    <3>1. v \in Versions /\ ~v.activo
      BY <1>0, LeftTyped
    <3>2. Write(r, w)
      BY <1>15 DEF Deactivate
    <3> HIDE DEF v
    <3>3. w \in Versions /\ ~w.activo
      BY <2>2, <3>1, StatusTyped
    <3> HIDE DEF w
    <3>4. QED
      BY <3>2, <3>3, Written
  <2>4. QED
    BY <1>15, <2>1, <2>2, <2>3 DEF TypeOK, Deactivate, gateway, history
<1>16. ASSUME Enroll(r) PROVE TypeOK'
  <2>1. req' \in [Requests -> Sessions]
    BY <1>16, <1>0, <1>s, WentTo DEF Enroll
  <2>2. /\ row' \in Versions /\ (row'.activo => row'.there)
        /\ work' \in Versions /\ (work'.activo => work'.there)
        /\ holder' \in Requests \cup {Nobody}
    BY <1>16, <1>0, <1>a, NewVersions DEF Enroll, Rollback, rows
  <2>3. budget' \in 0 .. MaxFaults
    BY <1>16, Budgets DEF Enroll
  <2>4. QED
    BY <1>16, <2>1, <2>2, <2>3 DEF TypeOK, Enroll, history
<1>17. ASSUME Add(r) PROVE TypeOK'
  <2>1. req' \in [Requests -> Sessions]
    BY <1>17, <1>0, <1>s, WentTo DEF Add
  <2>2. /\ row' \in Versions /\ (row'.activo => row'.there)
        /\ work' \in Versions /\ (work'.activo => work'.there)
        /\ holder' \in Requests \cup {Nobody}
    <3> DEFINE v == [there |-> TRUE, activo |-> TRUE, status |-> "CONNECTED", recent |-> TRUE]
    <3>1. v \in Versions /\ (v.activo => v.there)
      BY NewVersions
    <3>2. Rollback(r) \/ Write(r, v)
      BY <1>17 DEF Add
    <3> HIDE DEF v
    <3>3. QED
      BY <3>1, <3>2, Written, RolledBack
  <2>3. QED
    BY <1>17, <2>1, <2>2 DEF TypeOK, Add, gateway, history
<1>18. ASSUME Hear(r) PROVE TypeOK'
  <2>1. "CONNECTED" \in Statuses \ {"CONNECTED_SYNCED"} /\ "DISCONNECTED" \in Statuses \ {"CONNECTED_SYNCED"}
    BY <1>18 DEF Statuses
  <2>2. req' \in [Requests -> Sessions]
    <3>1. PICK t \in {"CONNECTED", "DISCONNECTED"} :
                 req' = [req EXCEPT ![r].flow = "event", ![r].at = "find", ![r].to = t]
      BY <1>18 DEF Hear
    <3>2. QED
      BY <1>0, <1>s, <2>1, <3>1, SessionHeard
  <2>3. QED
    BY <1>18, <2>1, <2>2 DEF TypeOK, Hear, rows, history
<1>19. QED
  BY <1>1, <1>2, <1>3, <1>4, <1>5, <1>6, <1>7, <1>8, <1>9, <1>10, <1>11, <1>12, <1>13, <1>14, <1>15, <1>16, <1>17, <1>18 DEF RequestStep

LEMMA TypesTask ==
  ASSUME TypeOK, NEW j \in Tasks, TaskStep(j)
  PROVE  TypeOK'
<1>0. /\ job \in [Tasks -> TaskStates] /\ job[j] \in TaskStates /\ Loaded(row) \in Seen
      /\ Chats \in SUBSET Chats /\ job[j].todo \subseteq Chats /\ skipped \subseteq Chats
      /\ job[j].now \subseteq Chats /\ job[j].lead \in 1 .. MaxLeads
      /\ leads \in [Chats -> 0 .. MaxLeads]
      /\ row \in Versions /\ (row.activo => row.there) /\ lost \in BOOLEAN
      /\ imports \subseteq [task : Tasks, chat : Chats, lead : 1 .. MaxLeads, new : BOOLEAN]
  <2>1. /\ job \in [Tasks -> TaskStates] /\ skipped \subseteq Chats /\ lost \in BOOLEAN
        /\ leads \in [Chats -> 0 .. MaxLeads]
        /\ row \in Versions /\ (row.activo => row.there)
        /\ imports \subseteq [task : Tasks, chat : Chats, lead : 1 .. MaxLeads, new : BOOLEAN]
    BY DEF TypeOK
  <2>2. QED
    BY <2>1, LoadedTyped DEF TaskStates
<1>a. TaskStages = {"none", "chats", "chat", "create", "post", "import", "find", "write", "done"}
  BY DEF TaskStages
<1>1. ASSUME FetchChats(j) PROVE TypeOK'
  <2>1. [job[j] EXCEPT !.at = "chat", !.todo = Chats] \in TaskStates /\ [job[j] EXCEPT !.at = "find", !.failed = TRUE] \in TaskStates
    BY <1>1, <1>0, <1>a, TaskMoved, TaskLooked, TaskListed, TaskFailed
  <2>2. job' \in [Tasks -> TaskStates]
    BY <1>1, <1>0, <2>1, TaskSet DEF FetchChats, SetJob
  <2>3. budget' \in 0 .. MaxFaults
    BY <1>1, Budgets DEF FetchChats, Unreachable
  <2>4. QED
    BY <1>1, <2>1, <2>2, <2>3 DEF TypeOK, FetchChats, gateway, rows, history
<1>2. ASSUME SkipChat(j) PROVE TypeOK'
  <2>1. job' \in [Tasks -> TaskStates]
    <3>1. PICK c \in job[j].now : SetJob(j, Done(j, c))
      BY <1>2 DEF SkipChat
    <3>2. QED
      BY <1>0, <3>1, DoneTyped, TaskSet DEF SetJob
  <2>2. budget' \in 0 .. MaxFaults
    BY <1>2, Budgets DEF SkipChat
  <2>3. skipped' \subseteq Chats
    BY <1>2, <1>0 DEF SkipChat, TaskStates
  <2>4. leads' \in [Chats -> 0 .. MaxLeads]
    BY <1>0, <1>2, LeadAdded DEF SkipChat
  <2>5. QED
    BY <1>2, <2>1, <2>2, <2>3, <2>4 DEF TypeOK, SkipChat, gateway, rows
<1>3. ASSUME FailChat(j) PROVE TypeOK'
  <2>1. job' \in [Tasks -> TaskStates]
    BY <1>3, <1>0, DoneTyped, TaskSet DEF FailChat, SetJob
  <2>2. budget' \in 0 .. MaxFaults
    BY <1>3, Budgets DEF FailChat, Unreachable
  <2>3. QED
    BY <1>3, <2>1, <2>2 DEF TypeOK, FailChat, gateway, rows, history
<1>4. ASSUME PostChat(j) PROVE TypeOK'
  <2> DEFINE x == [job[j] EXCEPT !.at = "import", !.now = {}, !.lead = 1]
  <2>1. x \in TaskStates
    BY <1>0, PostedTyped
  <2>2. job' \in [Tasks -> TaskStates]
    <3>1. PICK c \in job[j].now : SetJob(j, Done(j, c)) \/ SetJob(j, x)
      BY <1>4 DEF PostChat
    <3> HIDE DEF x
    <3>2. Done(j, c) \in TaskStates
      BY <1>0, DoneTyped
    <3>3. QED
      BY <1>0, <2>1, <3>1, <3>2, TaskSet DEF SetJob
  <2>3. \A c \in Chats : (~AlreadyStored(c, job[j].lead)) \in BOOLEAN
    BY Zenon
  <2>4. imports' \subseteq [task : Tasks, chat : Chats, lead : 1 .. MaxLeads, new : BOOLEAN]
    <3> DEFINE n(c) == [task |-> j, chat |-> c, lead |-> job[j].lead,
                        new |-> ~AlreadyStored(c, job[j].lead)]
    <3>1. PICK c \in Chats : UNCHANGED imports \/ imports' = imports \cup {n(c)}
      BY <1>0, <1>4 DEF PostChat
    <3>2. n(c) \in [task : Tasks, chat : Chats, lead : 1 .. MaxLeads, new : BOOLEAN]
      BY <1>0, <2>3
    <3>3. QED
      BY <1>0, <3>1, <3>2
  <2>5. QED
    BY <1>4, <2>1, <2>2, <2>3, <2>4 DEF TypeOK, PostChat, gateway, rows
<1>5. ASSUME Summarize(j) PROVE TypeOK'
  <2>1. [job[j] EXCEPT !.at = "find"] \in TaskStates
    BY <1>5, <1>0, <1>a, TaskMoved, TaskLooked, TaskListed, TaskFailed
  <2>2. job' \in [Tasks -> TaskStates]
    BY <1>5, <1>0, <2>1, TaskSet DEF Summarize, SetJob
  <2>3. QED
    BY <1>5, <2>1, <2>2 DEF TypeOK, Summarize, gateway, rows, history
<1>6. ASSUME FindRow(j) PROVE TypeOK'
  <2>1. \A s \in {"write", "done"} : [job[j] EXCEPT !.at = s, !.obj = Loaded(row)] \in TaskStates
    BY <1>6, <1>0, <1>a, TaskMoved, TaskLooked, TaskListed, TaskFailed
  <2>2. job' \in [Tasks -> TaskStates]
    BY <1>6, <1>0, <2>1, TaskSet DEF FindRow, SetJob
  <2>3. lost' \in BOOLEAN
    BY <1>6 DEF FindRow
  <2>4. QED
    BY <1>6, <2>1, <2>2, <2>3 DEF TypeOK, FindRow, gateway, rows, history
<1>7. ASSUME EndSync(j) PROVE TypeOK'
  <2>1. [job[j] EXCEPT !.at = "done"] \in TaskStates /\ Final(j) \in Statuses
    BY <1>7, <1>0, <1>a, TaskMoved, TaskLooked, TaskListed, TaskFailed DEF Final, Statuses
  <2>2. job' \in [Tasks -> TaskStates]
    BY <1>7, <1>0, <2>1, TaskSet DEF EndSync, SetJob
  <2>3. row' \in Versions /\ (row'.activo => row'.there)
    <3>1. UNCHANGED row \/ row' = WithStatus(row, Final(j))
      BY <1>7 DEF EndSync
    <3>2. QED
      BY <1>0, <2>1, <3>1, StatusTyped
  <2>4. QED
    BY <1>7, <2>1, <2>2, <2>3 DEF TypeOK, EndSync, gateway, history
<1>8. ASSUME EndSyncFails(j) PROVE TypeOK'
  <2>1. [job[j] EXCEPT !.at = "done"] \in TaskStates
    BY <1>8, <1>0, <1>a, TaskMoved, TaskLooked, TaskListed, TaskFailed
  <2>2. job' \in [Tasks -> TaskStates]
    BY <1>8, <1>0, <2>1, TaskSet DEF EndSyncFails, SetJob
  <2>3. budget' \in 0 .. MaxFaults
    BY <1>8, Budgets DEF EndSyncFails
  <2>4. QED
    BY <1>8, <2>1, <2>2, <2>3 DEF TypeOK, EndSyncFails, gateway, rows, history
<1>9. ASSUME FindLead(j) PROVE TypeOK'
  <2>1. PICK c \in job[j].todo, l \in 0 .. MaxLeads : Resolve(j, c, l)
    <3>1. PICK c \in job[j].todo :
                 Resolve(j, c, leads[c]) \/ \E l \in 0 .. leads[c] - 1 : Resolve(j, c, l)
      BY <1>9 DEF FindLead
    <3>2. leads[c] \in 0 .. MaxLeads /\ 0 .. leads[c] - 1 \subseteq 0 .. MaxLeads
      BY <1>0, SettingsAssumption
    <3>3. QED
      BY <3>1, <3>2
  <2>2. job' \in [Tasks -> TaskStates]
    BY <1>0, <2>1, Resolved
  <2>3. budget' \in 0 .. MaxFaults
    BY <1>9, Budgets DEF FindLead
  <2>4. QED
    BY <1>9, <2>2, <2>3 DEF TypeOK, FindLead, gateway, rows, history
<1>10. ASSUME CreateLead(j) PROVE TypeOK'
  <2>1. PICK c \in job[j].now : NewLead(c) /\ Resolve(j, c, leads[c] + 1)
    BY <1>10 DEF CreateLead
  <2>2. leads' \in [Chats -> 0 .. MaxLeads] /\ leads[c] + 1 \in 0 .. MaxLeads
    BY <1>0, <2>1, LeadAdded
  <2>3. job' \in [Tasks -> TaskStates]
    BY <1>0, <2>1, <2>2, Resolved
  <2>4. QED
    BY <1>10, <2>2, <2>3 DEF TypeOK, CreateLead, gateway, rows
<1>11. ASSUME FindAgain(j) PROVE TypeOK'
  <2>1. PICK c \in job[j].now : Resolve(j, c, leads[c])
    BY <1>11 DEF FindAgain
  <2>2. job' \in [Tasks -> TaskStates]
    BY <1>0, <2>1, Resolved
  <2>3. QED
    BY <1>11, <2>2 DEF TypeOK, FindAgain, gateway, rows, history
<1>12. QED
  BY <1>1, <1>2, <1>3, <1>4, <1>5, <1>6, <1>7, <1>8, <1>9, <1>10, <1>11 DEF TaskStep

LEMMA StoredTyped ==
  ASSUME stored \in [Chats -> [1 .. MaxLeads -> Nat]], NEW c \in Chats, NEW l \in 1 .. MaxLeads
  PROVE  /\ [stored EXCEPT ![c][l] = @ + 1] \in [Chats -> [1 .. MaxLeads -> Nat]]
         /\ \A d \in Chats : \A m \in 1 .. MaxLeads :
              [stored EXCEPT ![c][l] = @ + 1][d][m] =
                IF d = c /\ m = l THEN stored[d][m] + 1 ELSE stored[d][m]
<1> DEFINE row1 == [stored[c] EXCEPT ![l] = @ + 1]
<1>0. stored[c] \in [1 .. MaxLeads -> Nat]
  OBVIOUS
<1>1. stored[c] \in [1 .. MaxLeads -> Nat] /\ stored[c][l] + 1 \in Nat
  BY <1>0
<1>2. row1 \in [1 .. MaxLeads -> Nat]
      /\ \A m \in 1 .. MaxLeads : row1[m] = IF m = l THEN stored[c][m] + 1 ELSE stored[c][m]
  BY <1>1
<1>3. [stored EXCEPT ![c][l] = @ + 1] = [stored EXCEPT ![c] = row1]
  OBVIOUS
<1> HIDE DEF row1
<1>4. QED
  BY <1>2, <1>3

LEMMA TypesImport ==
  ASSUME TypeOK, NEW i \in imports, Imported(i) \/ ImportFails(i) \/ ImportTimeout(i)
  PROVE  TypeOK'
<1>0. /\ i.task \in Tasks /\ i.chat \in Chats /\ i.lead \in 1 .. MaxLeads
      /\ job \in [Tasks -> TaskStates] /\ stored \in [Chats -> [1 .. MaxLeads -> Nat]]
  BY DEF TypeOK
<1>1. ASSUME Imported(i) PROVE TypeOK'
  <2>1. job' \in [Tasks -> TaskStates]
    BY <1>0, <1>1, DoneTyped, TaskSet DEF Imported, SetJob
  <2>2. stored' \in [Chats -> [1 .. MaxLeads -> Nat]]
    BY <1>0, <1>1, StoredTyped DEF Imported
  <2>3. QED
    BY <1>1, <2>1, <2>2 DEF TypeOK, Imported, gateway, rows
<1>2. ASSUME FailedChat(i) PROVE job' \in [Tasks -> TaskStates]
  BY <1>0, <1>2, DoneTyped, TaskSet DEF FailedChat, SetJob
<1>3. ASSUME ImportFails(i) PROVE TypeOK'
  <2>1. budget' \in 0 .. MaxFaults
    BY <1>3, Budgets DEF ImportFails
  <2>2. QED
    BY <1>2, <1>3, <2>1 DEF TypeOK, ImportFails, gateway, rows
<1>4. ASSUME ImportTimeout(i) PROVE TypeOK'
  <2>1. budget' \in 0 .. MaxFaults
    BY <1>4, Budgets DEF ImportTimeout
  <2>2. QED
    BY <1>2, <1>4, <2>1 DEF TypeOK, ImportTimeout, gateway, rows, history
<1>5. QED
  BY <1>1, <1>3, <1>4

LEMMA TypesCrash == ASSUME TypeOK, Crash PROVE TypeOK'
<1>1. budget' \in 0 .. MaxFaults
  BY Budgets DEF Crash
<1>2. ASSUME NEW r \in Requests PROVE [req[r] EXCEPT !.at = "done"] \in Sessions
  <2>1. req[r] \in Sessions /\ "done" \in Stages
    BY DEF TypeOK, Stages
  <2>2. QED
    BY <2>1 DEF Sessions
<1>3. ASSUME NEW j \in Tasks PROVE [job[j] EXCEPT !.at = "done"] \in TaskStates
  <2>1. job[j] \in TaskStates /\ "done" \in TaskStages
    BY DEF TypeOK, TaskStages
  <2>2. QED
    BY <2>1, TaskMoved
<1>4. req' \in [Requests -> Sessions] /\ job' \in [Tasks -> TaskStates]
  BY <1>2, <1>3 DEF Crash, TypeOK
<1>5. QED
  BY <1>1, <1>4, NewVersions DEF Crash, TypeOK, gateway, history

LEMMA TypesNext == TypeOK /\ [Next]_vars => TypeOK'
<1> SUFFICES ASSUME TypeOK, [Next]_vars PROVE TypeOK'
  OBVIOUS
<1>1. ASSUME Pair \/ Drop PROVE TypeOK'
  BY <1>1 DEF Pair, Drop, TypeOK, rows, history
<1>2. ASSUME Ages PROVE TypeOK'
  <2>1. row' \in Versions /\ row'.activo = row.activo /\ row'.there = row.there
    BY <1>2 DEF Ages, TypeOK, Versions
  <2>2. QED
    BY <1>2, <2>1 DEF Ages, TypeOK, gateway, history
<1>3. ASSUME UNCHANGED vars PROVE TypeOK'
  BY <1>3 DEF TypeOK, vars, gateway, rows, history
<1>4. ASSUME MessageLead PROVE TypeOK'
  <2>1. leads' \in [Chats -> 0 .. MaxLeads]
    BY <1>4, LeadAdded DEF MessageLead
  <2>2. budget' \in 0 .. MaxFaults
    BY <1>4, Budgets DEF MessageLead
  <2>3. QED
    BY <1>4, <2>1, <2>2 DEF MessageLead, TypeOK, gateway, rows
<1>5. QED
  BY <1>1, <1>2, <1>3, <1>4, TypesRequest, TypesTask, TypesImport, TypesCrash DEF Next

\* The type invariant of the model.
THEOREM TypeCorrect == Spec => []TypeOK
<1>1. QED
  BY TypesStart, TypesNext, PTL DEF Spec
-----------------------------------------------------------------------------
(* What CONNECTED_SYNCED promises.                                         *)

Here(c) == (\E l \in 1 .. MaxLeads : stored[c][l] > 0) \/ c \in skipped

AllHere == \A c \in Chats : Here(c)

\* A request may build its status on what it has read, a partial sync on what
\* its request has read, a task on what it has done so far.
TaskInv(j) ==
  /\ job[j].partial => AllHere
  /\ ~job[j].failed =>
       /\ job[j].at \in {"chat", "create", "post", "import"} => \A c \in Chats \ job[j].todo : Here(c)
       /\ job[j].at \in {"find", "write"} => AllHere

SyncInv ==
  /\ row.status = "CONNECTED_SYNCED" => AllHere
  /\ work.status = "CONNECTED_SYNCED" => AllHere
  /\ \A r \in Requests : req[r].prev = "CONNECTED_SYNCED" => AllHere
  /\ \A j \in Tasks : TaskInv(j)
  /\ \A i \in imports : i.new \/ stored[i.chat][i.lead] > 0

-----------------------------------------------------------------------------
(* What CONNECTED_PENDING announces.                                       *)

Ahead(j) == job[j].at \in {"chats", "chat", "create", "post", "import", "find"}

\* The task j will write a status over the one that announces it.
Covering(j) == Ahead(j) \/ (job[j].at = "write" /\ job[j].obj = "CONNECTED_PENDING")

Announced(v) == Active(v) /\ v.status = "CONNECTED_PENDING"

PendingInv ==
  ~lost => /\ Announced(row) => \E j \in Tasks : Covering(j)
           /\ \A r \in Requests :
                holder = r /\ Announced(work) => req[r].at = "commit" /\ Ahead(<<r, "queued">>)

-----------------------------------------------------------------------------
(* One import of a chat at a time.                                         *)

AtChat == {"chat", "create", "post"}

\* What is still to be done is not being imported.
Undone(j) ==
  job[j].at \in AtChat => \A i \in imports : i.chat \notin job[j].todo

OnceInv ==
  ~overlapped =>
    /\ \A j, k \in Running : j = k
    /\ \A j \in Running : /\ \A i \in imports : i.task = j
                          /\ job[j].at = "chats" => imports = {}
                          /\ Undone(j)
                          /\ job[j].at \in {"create", "post"} => job[j].now \subseteq job[j].todo
                          /\ \A i, k \in imports :
                               i.chat \in job[j].todo /\ k.chat \in job[j].todo => i = k
    /\ \A i, k \in imports : i.chat = k.chat => i = k
    /\ \A i \in imports : i.new => stored[i.chat][i.lead] = 0
    /\ \A c \in Chats : \A l \in 1 .. MaxLeads : stored[c][l] <= 1

-----------------------------------------------------------------------------
(* What the steps of a request do to each part of the state.               *)

LEMMA RequestHistory ==
  ASSUME NEW r \in Requests, RequestStep(r)
  PROVE  history' = history /\ imports' = imports /\ stored' = stored /\ skipped' = skipped /\ lost' = lost
BY DEF RequestStep, FetchState, Look, LookAgain, Register, Decide, Find, WriteStatus, Create, AskCode,
       Commit, DbFails, Logout, StartCloud, Leave, Deactivate, Enroll, Add, Hear, history

LEMMA RequestJobs ==
  ASSUME NEW r \in Requests, RequestStep(r)
  PROVE  \/ job' = job /\ overlapped' = overlapped
         \/ /\ WriteStatus(r) \/ Find(r) \/ DbFails(r)
            /\ \E t \in {"queued", "fallback"}, b \in BOOLEAN :
                 Schedule(<<r, t>>, b) /\ (b => req[r].prev = "CONNECTED_SYNCED")
<1>1. ASSUME Updated(r)
      PROVE  \/ job' = job /\ overlapped' = overlapped
             \/ \E b \in BOOLEAN :
                  Schedule(<<r, "queued">>, b) /\ (b => req[r].prev = "CONNECTED_SYNCED")
  <2>1. (req[r].prev = "CONNECTED_SYNCED") \in BOOLEAN
    BY Zenon
  <2>2. \/ job' = job /\ overlapped' = overlapped
        \/ Schedule(<<r, "queued">>, req[r].prev = "CONNECTED_SYNCED")
    BY <1>1 DEF Updated
  <2>3. QED
    BY <2>1, <2>2
<1>2. CASE Find(r) \/ WriteStatus(r)
  <2>1. (job' = job /\ overlapped' = overlapped) \/ Updated(r)
    BY <1>2 DEF Find, WriteStatus
  <2>2. QED
    BY <1>1, <1>2, <2>1
<1>3. CASE DbFails(r)
  BY <1>3 DEF DbFails
<1>4. CASE ~(Find(r) \/ WriteStatus(r) \/ DbFails(r))
  BY <1>4 DEF RequestStep, FetchState, Look, LookAgain, Register, Decide, Create, AskCode,
       Commit, Logout, StartCloud, Leave, Deactivate, Enroll, Add, Hear
<1>5. QED
  BY <1>2, <1>3, <1>4

LEMMA RequestRows ==
  ASSUME TypeOK, NEW r \in Requests, RequestStep(r)
  PROVE  \/ row' = row /\ holder' = holder /\ work' = work
         \/ Commit(r) /\ holder = r /\ row' = work /\ holder' = Nobody /\ work' = NoRow
         \/ holder = r /\ row' = row /\ holder' = Nobody /\ work' = NoRow
         \/ /\ Free(r) /\ row' = row /\ holder' = r
            /\ \/ work'.status = "DISCONNECTED"
               \/ ~work'.activo /\ work'.status = row.status
               \/ WriteStatus(r) /\ work' = WithStatus(View(r), req[r].to)
               \/ Add(r) /\ work'.status = "CONNECTED"
<1>0. ASSUME Rollback(r)
      PROVE  \/ row' = row /\ holder' = holder /\ work' = work
             \/ holder = r /\ row' = row /\ holder' = Nobody /\ work' = NoRow
  BY <1>0 DEF Rollback, rows
<1>1. CASE Commit(r)
  BY <1>1 DEF Commit, rows
<1>2. CASE DbFails(r) \/ Enroll(r)
  <2>1. Rollback(r) \/ UNCHANGED rows
    BY <1>2, Zenon DEF DbFails, Enroll
  <2>2. QED
    BY <1>0, <2>1 DEF rows
<1>3. CASE Add(r)
  <2>1. Rollback(r) \/ Write(r, [there |-> TRUE, activo |-> TRUE, status |-> "CONNECTED", recent |-> TRUE])
    BY <1>3, Zenon DEF Add
  <2>2. QED
    BY <1>0, <1>3, <2>1 DEF Add, Write
<1>4. CASE WriteStatus(r)
  BY <1>4 DEF WriteStatus, Write, rows, WithStatus
<1>5. CASE Register(r)
  BY <1>5 DEF Register, Write
<1>6. CASE Deactivate(r)
  BY <1>6 DEF Deactivate, Write, WithStatus, TypeOK, Versions
<1>7. CASE ~(Commit(r) \/ DbFails(r) \/ Enroll(r) \/ Add(r) \/ WriteStatus(r) \/ Register(r) \/ Deactivate(r))
  BY <1>7 DEF RequestStep, FetchState, Look, LookAgain, Decide, Create, AskCode, Find,
       Logout, StartCloud, Leave, Hear, rows
<1>8. QED
  BY <1>1, <1>2, <1>3, <1>4, <1>5, <1>6, <1>7

LEMMA RequestOthers ==
  ASSUME TypeOK, NEW r \in Requests, RequestStep(r), NEW q \in Requests, q # r
  PROVE  req'[q] = req[q]
BY DEF RequestStep, FetchState, Look, LookAgain, Register, Decide, Find, WriteStatus, Create, AskCode,
       Commit, DbFails, Logout, StartCloud, Leave, Deactivate, Enroll, Add, Hear, GoTo, Starts, TypeOK

LEMMA RequestPrev ==
  ASSUME TypeOK, NEW r \in Requests, RequestStep(r), NEW q \in Requests
  PROVE  req'[q].prev = req[q].prev \/ req'[q].prev = Loaded(row)
<1>1. req \in [Requests -> Sessions]
  BY DEF TypeOK
<1>2. ASSUME NEW s, GoTo(r, s) PROVE req'[q].prev = req[q].prev
  BY <1>1, <1>2 DEF GoTo, Sessions
<1>3. ASSUME NEW s, NEW f, Starts(r, f, s) PROVE req'[q].prev = req[q].prev
  BY <1>1, <1>3 DEF Starts, Sessions
<1>4. CASE Look(r)
  BY <1>1, <1>4 DEF Look, Sessions
<1>5. CASE LookAgain(r) \/ Register(r) \/ Find(r) \/ Leave(r)
  BY <1>1, <1>5 DEF LookAgain, Register, Find, Leave, Sessions
<1>6. CASE Decide(r) \/ AskCode(r)
  <2>1. (\E s : GoTo(r, s)) \/ \E s, t : req' = [req EXCEPT ![r].at = s, ![r].to = t]
    BY <1>6 DEF Decide, AskCode
  <2>2. ASSUME NEW s, NEW t, req' = [req EXCEPT ![r].at = s, ![r].to = t]
        PROVE  req'[q].prev = req[q].prev
    BY <1>1, <2>2 DEF Sessions
  <2>3. QED
    BY <1>2, <2>1, <2>2
<1>7. CASE Hear(r)
  BY <1>1, <1>7 DEF Hear, Sessions
<1>8. CASE \/ WriteStatus(r) \/ Create(r) \/ Commit(r) \/ DbFails(r) \/ Deactivate(r) \/ Enroll(r)
           \/ Add(r)
  <2>1. \E s : GoTo(r, s)
    BY <1>8 DEF WriteStatus, Create, Commit, DbFails, Deactivate, Enroll, Add
  <2>2. QED
    BY <1>2, <2>1
<1>9. CASE (\E flow \in {"qr", "status"} : FetchState(r, flow)) \/ Logout(r) \/ StartCloud(r)
  <2>1. \E f, s : Starts(r, f, s)
    BY <1>9 DEF FetchState, Logout, StartCloud
  <2>2. QED
    BY <1>3, <2>1
<1>10. QED
  BY <1>4, <1>5, <1>6, <1>7, <1>8, <1>9 DEF RequestStep

-----------------------------------------------------------------------------
(* CONNECTED_SYNCED.                                                       *)

LEMMA SyncStart == Init => SyncInv
<1> SUFFICES ASSUME Init PROVE SyncInv
  OBVIOUS
<1>1. ASSUME row.status = "CONNECTED_SYNCED" PROVE AllHere
  <2>1. 1 \in 1 .. MaxLeads
    BY SettingsAssumption
  <2>2. \A c \in Chats : stored[c][1] = 1
    BY <1>1, <2>1 DEF Init
  <2>3. QED
    BY <2>1, <2>2 DEF AllHere, Here
<1>2. work.status # "CONNECTED_SYNCED"
  BY DEF Init, NoRow
<1>3. \A r \in Requests : req[r].prev # "CONNECTED_SYNCED"
  BY DEF Init, Idle
<1>4. \A j \in Tasks : TaskInv(j)
  BY DEF Init, NoJob, TaskInv
<1>5. imports = {}
  BY DEF Init
<1>6. QED
  BY <1>1, <1>2, <1>3, <1>4, <1>5 DEF SyncInv

LEMMA SyncRequest ==
  ASSUME TypeOK, SyncInv, NEW r \in Requests, RequestStep(r)
  PROVE  SyncInv'
<1>1. stored' = stored /\ skipped' = skipped /\ imports' = imports
  BY RequestHistory
<1>2. AllHere' = AllHere /\ \A c : Here(c)' = Here(c)
  BY <1>1 DEF AllHere, Here
<1>3. ASSUME row'.status = "CONNECTED_SYNCED" PROVE AllHere'
  BY <1>2, <1>3, RequestRows DEF SyncInv
<1>4. ASSUME work'.status = "CONNECTED_SYNCED" PROVE AllHere'
  <2>1. req[r].to # "CONNECTED_SYNCED" /\ View(r) \in Versions /\ req[r].to \in Statuses
    BY ViewTyped DEF TypeOK, Sessions
  <2>2. WithStatus(View(r), req[r].to).status # "CONNECTED_SYNCED" /\ NoRow.status # "CONNECTED_SYNCED"
    BY <2>1, StatusTyped DEF NoRow
  <2>3. QED
    BY <1>2, <1>4, <2>2, RequestRows DEF SyncInv
<1>5. ASSUME NEW q \in Requests, req'[q].prev = "CONNECTED_SYNCED" PROVE AllHere'
  <2>1. Loaded(row) = "CONNECTED_SYNCED" => AllHere
    BY DEF SyncInv, Loaded
  <2>2. QED
    BY <1>2, <1>5, <2>1, RequestPrev DEF SyncInv
<1>6. ASSUME NEW j \in Tasks PROVE TaskInv(j)'
  <2>1. CASE job' = job
    BY <1>2, <2>1 DEF SyncInv, TaskInv
  <2>2. CASE job' # job
    <3>1. PICK t \in {"queued", "fallback"}, b \in BOOLEAN :
                 Schedule(<<r, t>>, b) /\ (b => req[r].prev = "CONNECTED_SYNCED")
      BY <2>2, RequestJobs
    <3>2. CASE j = <<r, t>>
      <4>1. job'[j] = [NoJob EXCEPT !.at = "chats", !.partial = b]
        BY <3>1, <3>2 DEF Schedule, TypeOK
      <4>2. job'[j].at = "chats" /\ job'[j].partial = b
        BY <4>1 DEF NoJob
      <4>3. QED
        BY <1>2, <3>1, <4>2 DEF SyncInv, TaskInv
    <3>3. CASE j # <<r, t>>
      <4>1. job'[j] = job[j]
        BY <3>1, <3>3 DEF Schedule, TypeOK
      <4>2. QED
        BY <1>2, <4>1 DEF SyncInv, TaskInv
    <3>4. QED
      BY <3>2, <3>3
  <2>3. QED
    BY <2>1, <2>2
<1>7. \A i \in imports' : i.new \/ stored'[i.chat][i.lead] > 0
  BY <1>1 DEF SyncInv
<1>8. QED
  BY <1>3, <1>4, <1>5, <1>6, <1>7 DEF SyncInv

\* What a task does to the others, and to itself.
LEMMA TaskSteps ==
  ASSUME TypeOK, NEW j \in Tasks, TaskStep(j)
  PROVE  /\ req' = req /\ work' = work /\ holder' = holder /\ overlapped' = overlapped /\ stored' = stored
         /\ \A k \in Tasks : k # j => job'[k] = job[k]
         /\ skipped \subseteq skipped'
<1>1. /\ req' = req /\ work' = work /\ holder' = holder /\ overlapped' = overlapped /\ stored' = stored
      /\ skipped \subseteq skipped'
  BY DEF TaskStep, FetchChats, FindLead, CreateLead, FindAgain, SkipChat, FailChat, PostChat, Resolve, Summarize, FindRow, EndSync, EndSyncFails,
         rows, history
<1>2. \E x : SetJob(j, x)
  BY DEF TaskStep, FetchChats, FindLead, CreateLead, FindAgain, SkipChat, FailChat, PostChat, Resolve, Summarize, FindRow, EndSync, EndSyncFails
<1>3. QED
  BY <1>1, <1>2 DEF SetJob, TypeOK

\* How a chat gets its lead.
LEMMA LeadSteps ==
  ASSUME TypeOK, NEW j \in Tasks, FindLead(j) \/ CreateLead(j) \/ FindAgain(j)
  PROVE  /\ \/ job[j].at = "chat" /\ job'[j].now \subseteq job[j].todo
            \/ job[j].at = "create" /\ job'[j].now \subseteq job[j].now
         /\ job'[j].at \in {"create", "post"}
         /\ job'[j].todo = job[j].todo /\ imports' = imports
         /\ job'[j].failed = job[j].failed /\ job'[j].partial = job[j].partial
<1>1. /\ job \in [Tasks -> TaskStates] /\ leads \in [Chats -> 0 .. MaxLeads]
      /\ job[j].todo \subseteq Chats /\ job[j].now \subseteq Chats
  BY DEF TypeOK, TaskStates
<1>2. imports' = imports
  BY DEF FindLead, CreateLead, FindAgain, history
<1>3. CASE FindLead(j)
  <2>1. PICK c \in job[j].todo :
               Resolve(j, c, leads[c]) \/ \E l \in 0 .. leads[c] - 1 : Resolve(j, c, l)
    BY <1>3 DEF FindLead
  <2>2. leads[c] \in 0 .. MaxLeads /\ 0 .. leads[c] - 1 \subseteq 0 .. MaxLeads
    BY <1>1, SettingsAssumption
  <2>3. PICK l \in 0 .. MaxLeads : Resolve(j, c, l)
    BY <2>1, <2>2
  <2>4. QED
    BY <1>1, <1>2, <1>3, <2>3, Resolved DEF FindLead
<1>4. CASE CreateLead(j) \/ FindAgain(j)
  <2>1. PICK c \in job[j].now :
               (NewLead(c) /\ Resolve(j, c, leads[c] + 1)) \/ Resolve(j, c, leads[c])
    BY <1>4 DEF CreateLead, FindAgain
  <2>2. leads[c] \in 0 .. MaxLeads /\ (NewLead(c) => leads[c] + 1 \in 0 .. MaxLeads)
    BY <1>1, LeadAdded
  <2>3. PICK l \in 0 .. MaxLeads : Resolve(j, c, l)
    BY <2>1, <2>2
  <2>4. QED
    BY <1>1, <1>2, <1>4, <2>3, Resolved DEF CreateLead, FindAgain
<1>5. QED
  BY <1>3, <1>4

Posted(j, c) == [task |-> j, chat |-> c, lead |-> job[j].lead, new |-> ~AlreadyStored(c, job[j].lead)]

LEMMA NewImports ==
  ASSUME NEW j \in Tasks, TaskStep(j), imports' # imports
  PROVE  PostChat(j) /\ \E c \in job[j].now : imports' = imports \cup {Posted(j, c)}
<1>1. PostChat(j)
  BY DEF TaskStep, FetchChats, FindLead, CreateLead, FindAgain, SkipChat, FailChat, Summarize, FindRow,
         EndSync, EndSyncFails, history
<1>2. QED
  BY <1>1 DEF PostChat, Posted

LEMMA SyncTask ==
  ASSUME TypeOK, TypeOK', SyncInv, NEW j \in Tasks, TaskStep(j)
  PROVE  SyncInv'
<1>1. /\ req' = req /\ work' = work /\ stored' = stored /\ skipped \subseteq skipped'
      /\ \A k \in Tasks : k # j => job'[k] = job[k]
  BY TaskSteps
<1>2. (AllHere => AllHere') /\ \A c : Here(c) => Here(c)'
  BY <1>1 DEF AllHere, Here
<1>0. job \in [Tasks -> TaskStates]
  BY DEF TypeOK
<1>3. job[j] \in TaskStates /\ TaskInv(j)
  BY DEF TypeOK, SyncInv
<1>4. TaskInv(j)'
  <2>1. CASE FetchChats(j)
    <3>1. \/ job'[j] = [job[j] EXCEPT !.at = "chat", !.todo = Chats]
          \/ job'[j] = [job[j] EXCEPT !.at = "find", !.failed = TRUE]
      BY <2>1 DEF FetchChats, SetJob, TypeOK
    <3>2. QED
      BY <1>2, <1>3, <3>1 DEF TaskInv, TaskStates
  <2>2. CASE SkipChat(j)
    <3>1. PICK c \in job[j].now : SetJob(j, Done(j, c)) /\ skipped' = skipped \cup {c}
      BY <2>2 DEF SkipChat
    <3>2. job[j].at = "create" /\ job'[j] = Done(j, c)
      BY <2>2, <3>1 DEF SkipChat, SetJob, TypeOK
    <3>3. Here(c)'
      BY <3>1 DEF Here
    <3>4. QED
      BY <1>2, <1>3, <1>0, <3>2, <3>3, DoneFields DEF TaskInv
  <2>3. CASE FailChat(j)
    <3>1. PICK c \in job[j].now : SetJob(j, [Done(j, c) EXCEPT !.failed = TRUE])
      BY <2>3 DEF FailChat
    <3>2. job'[j].failed /\ job'[j].partial = job[j].partial
      BY <1>0, <3>1, DoneFields DEF SetJob
    <3>3. QED
      BY <1>2, <1>3, <3>2 DEF TaskInv
  <2>4. CASE PostChat(j)
    <3> DEFINE x == [job[j] EXCEPT !.at = "import", !.now = {}, !.lead = 1]
    <3>1. PICK c \in job[j].now : (job[j].partial /\ SetJob(j, Done(j, c))) \/ SetJob(j, x)
      BY <2>4 DEF PostChat
    <3>2. job[j].at = "post"
      BY <2>4 DEF PostChat
    <3>a. /\ x.at = "import" /\ x.todo = job[j].todo
          /\ x.failed = job[j].failed /\ x.partial = job[j].partial
      BY <1>3, PostedTyped
    <3> HIDE DEF x
    <3>3. CASE job[j].partial /\ SetJob(j, Done(j, c))
      <4>1. job'[j] = Done(j, c)
        BY <1>0, <3>3 DEF SetJob
      <4>2. AllHere' /\ \A d \in Chats : Here(d)'
        BY <1>2, <1>3, <3>3 DEF TaskInv, AllHere
      <4>3. QED
        BY <1>0, <4>1, <4>2, DoneFields DEF TaskInv
    <3>4. CASE SetJob(j, x)
      <4>1. job'[j] = x
        BY <1>0, <3>4 DEF SetJob
      <4>2. QED
        BY <1>2, <1>3, <3>2, <3>a, <4>1 DEF TaskInv
    <3>5. QED
      BY <3>1, <3>3, <3>4
  <2>5. CASE Summarize(j)
    <3>1. job[j].at = "chat" /\ job[j].todo = {} /\ job'[j] = [job[j] EXCEPT !.at = "find"]
      BY <2>5 DEF Summarize, SetJob, TypeOK
    <3>2. QED
      BY <1>2, <1>3, <3>1 DEF TaskInv, TaskStates, AllHere
  <2>6. CASE FindRow(j) \/ EndSync(j) \/ EndSyncFails(j)
    <3>1. job[j].at \in {"find", "write"}
      BY <2>6 DEF FindRow, EndSync, EndSyncFails
    <3>2. /\ job'[j].at \in {"write", "done"}
          /\ job'[j].failed = job[j].failed /\ job'[j].partial = job[j].partial
      <4>1. PICK s \in {"write", "done"} :
                   \/ \E o : job'[j] = [job[j] EXCEPT !.at = s, !.obj = o]
                   \/ job'[j] = [job[j] EXCEPT !.at = s]
        BY <2>6 DEF FindRow, EndSync, EndSyncFails, SetJob, TypeOK
      <4>2. QED
        BY <1>3, <4>1 DEF TaskStates
    <3>3. QED
      BY <1>2, <1>3, <3>1, <3>2 DEF TaskInv
  <2>7. CASE FindLead(j) \/ CreateLead(j) \/ FindAgain(j)
    <3>1. /\ job[j].at \in {"chat", "create"} /\ job'[j].at \in {"create", "post"}
          /\ job'[j].todo = job[j].todo
          /\ job'[j].failed = job[j].failed /\ job'[j].partial = job[j].partial
      BY <2>7, LeadSteps
    <3>2. QED
      BY <1>2, <1>3, <3>1 DEF TaskInv
  <2>8. QED
    BY <2>1, <2>2, <2>3, <2>4, <2>5, <2>6, <2>7 DEF TaskStep
<1>5. \A k \in Tasks : TaskInv(k)'
  <2>1. ASSUME NEW k \in Tasks, k # j PROVE TaskInv(k)'
    BY <1>1, <1>2, <2>1 DEF TaskInv, SyncInv
  <2>2. QED
    BY <1>4, <2>1
<1>6. row'.status = "CONNECTED_SYNCED" => AllHere'
  <2>1. CASE row' = row
    BY <1>2, <2>1 DEF SyncInv
  <2>2. CASE row' # row
    <3>1. EndSync(j) /\ row' = WithStatus(row, Final(j)) /\ job[j].at = "write"
      BY <2>2 DEF TaskStep, FetchChats, FindLead, CreateLead, FindAgain, SkipChat, FailChat, PostChat, Resolve, Summarize, FindRow, EndSync,
                  EndSyncFails, rows
    <3>2. row \in Versions /\ Final(j) \in Statuses
      BY DEF TypeOK, Final, Statuses
    <3>3. row'.status = Final(j)
      BY <3>1, <3>2, StatusTyped
    <3>4. QED
      BY <1>2, <1>3, <3>1, <3>3 DEF Final, TaskInv
  <2>3. QED
    BY <2>1, <2>2
<1>7. \A i \in imports' : i.new \/ stored'[i.chat][i.lead] > 0
  <2>1. ASSUME NEW i \in imports', i \notin imports PROVE i.new \/ stored'[i.chat][i.lead] > 0
    <3>1. PICK c \in job[j].now : i = Posted(j, c)
      BY <2>1, NewImports
    <3>2. i.chat = c /\ i.lead = job[j].lead /\ i.new = ~AlreadyStored(c, job[j].lead)
      BY <3>1, Zenon DEF Posted
    <3>3. QED
      BY <1>1, <3>2 DEF AlreadyStored
  <2>2. QED
    BY <1>1, <2>1 DEF SyncInv
<1>8. QED
  BY <1>1, <1>2, <1>5, <1>6, <1>7 DEF SyncInv

\* What an import does to its task.
LEMMA ImportSteps ==
  ASSUME TypeOK, NEW i \in imports, Imported(i) \/ ImportFails(i) \/ ImportTimeout(i)
  PROVE  /\ row' = row /\ work' = work /\ holder' = holder /\ req' = req /\ skipped' = skipped
         /\ lost' = lost /\ overlapped' = overlapped
         /\ \/ job' = job
            \/ /\ Awaited(i)
               /\ \/ job' = [job EXCEPT ![i.task] = [Done(i.task, i.chat) EXCEPT !.failed = TRUE]]
                  \/ Imported(i) /\ job' = [job EXCEPT ![i.task] = Done(i.task, i.chat)]
         /\ \/ imports' = imports /\ stored' = stored /\ ImportTimeout(i)
            \/ imports' = imports \ {i} /\ stored' = stored /\ ~i.new
            \/ imports' = imports \ {i} /\ stored' = stored /\ ImportFails(i)
            \/ imports' = imports \ {i} /\ i.new /\ stored' = [stored EXCEPT ![i.chat][i.lead] = @ + 1]
<1>1. CASE Imported(i)
  BY <1>1 DEF Imported, SetJob, rows
<1>2. CASE ImportFails(i)
  BY <1>2 DEF ImportFails, FailedChat, SetJob, rows
<1>3. CASE ImportTimeout(i)
  BY <1>3 DEF ImportTimeout, FailedChat, SetJob, rows, history
<1>4. QED
  BY <1>1, <1>2, <1>3

LEMMA SyncImport ==
  ASSUME TypeOK, TypeOK', SyncInv, NEW i \in imports,
         Imported(i) \/ ImportFails(i) \/ ImportTimeout(i)
  PROVE  SyncInv'
<1>1. row' = row /\ work' = work /\ req' = req /\ skipped' = skipped
  BY ImportSteps
<1>2. /\ i.task \in Tasks /\ i.chat \in Chats /\ i.lead \in 1 .. MaxLeads
      /\ stored \in [Chats -> [1 .. MaxLeads -> Nat]]
  BY DEF TypeOK
<1>3. \A c \in Chats : \A l \in 1 .. MaxLeads :
         stored'[c][l] = stored[c][l] \/ stored'[c][l] = stored[c][l] + 1
  <2>1. stored' = stored \/ stored' = [stored EXCEPT ![i.chat][i.lead] = @ + 1]
    BY ImportSteps
  <2>2. QED
    BY <1>2, <2>1, StoredTyped
<1>4. (AllHere => AllHere') /\ \A c \in Chats : Here(c) => Here(c)'
  <2>1. ASSUME NEW c \in Chats, Here(c) PROVE Here(c)'
    <3>1. CASE c \in skipped
      BY <1>1, <3>1 DEF Here
    <3>2. CASE c \notin skipped
      <4>1. PICK l \in 1 .. MaxLeads : stored[c][l] > 0
        BY <2>1, <3>2 DEF Here
      <4>2. stored[c][l] \in Nat
        BY <1>2
      <4>3. stored'[c][l] > 0
        BY <1>3, <4>1, <4>2
      <4>4. QED
        BY <4>3 DEF Here
    <3>3. QED
      BY <3>1, <3>2
  <2>2. QED
    BY <2>1 DEF AllHere
<1>5. imports' \subseteq imports
  BY ImportSteps
<1>6. \A k \in imports' : k.new \/ stored'[k.chat][k.lead] > 0
  <2>1. ASSUME NEW k \in imports' PROVE k.new \/ stored'[k.chat][k.lead] > 0
    <3>1. k \in imports /\ k.chat \in Chats /\ k.lead \in 1 .. MaxLeads
      BY <1>5 DEF TypeOK
    <3>2. stored[k.chat][k.lead] \in Nat /\ (k.new \/ stored[k.chat][k.lead] > 0)
      BY <1>2, <3>1 DEF SyncInv
    <3>3. QED
      BY <1>3, <3>1, <3>2
  <2>2. QED
    BY <2>1
<1>7. ASSUME NEW j \in Tasks PROVE TaskInv(j)'
  <2>0. job \in [Tasks -> TaskStates]
    BY DEF TypeOK
  <2>1. TaskInv(j) /\ job[j] \in TaskStates
    BY DEF SyncInv, TypeOK
  <2>2. CASE job'[j] = job[j]
    BY <1>4, <2>1, <2>2 DEF TaskInv
  <2>3. CASE job'[j] # job[j]
    <3>1. /\ j = i.task /\ Awaited(i)
          /\ \/ job'[j] = [Done(j, i.chat) EXCEPT !.failed = TRUE]
             \/ Imported(i) /\ job'[j] = Done(j, i.chat)
      <4>1. job' # job
        BY <2>3
      <4>2. /\ Awaited(i)
            /\ \/ job' = [job EXCEPT ![i.task] = [Done(i.task, i.chat) EXCEPT !.failed = TRUE]]
               \/ Imported(i) /\ job' = [job EXCEPT ![i.task] = Done(i.task, i.chat)]
        BY <4>1, ImportSteps
      <4>3. job \in [Tasks -> TaskStates]
        BY DEF TypeOK
      <4>4. QED
        BY <1>2, <2>3, <4>2, <4>3
    <3>2. CASE job'[j] = [Done(j, i.chat) EXCEPT !.failed = TRUE]
      <4>1. job'[j].failed /\ job'[j].partial = job[j].partial
        BY <2>0, <3>2, DoneFields
      <4>2. QED
        BY <1>4, <2>1, <4>1 DEF TaskInv
    <3>3. CASE Imported(i) /\ job'[j] = Done(j, i.chat)
      <4>1. /\ job'[j].at = "chat" /\ job'[j].todo = job[j].todo \ {i.chat}
            /\ job'[j].failed = job[j].failed /\ job'[j].partial = job[j].partial
        BY <2>0, <3>3, DoneFields
      <4>2. Here(i.chat)'
        <5>1. stored'[i.chat][i.lead] > 0
          BY <1>2, <3>3, StoredTyped DEF Imported, SyncInv
        <5>2. QED
          BY <1>2, <5>1 DEF Here
      <4>3. job[j].at = "import"
        BY <3>1 DEF Awaited
      <4>4. QED
        BY <1>4, <2>1, <4>1, <4>2, <4>3 DEF TaskInv
    <3>4. QED
      BY <3>1, <3>2, <3>3
  <2>4. QED
    BY <2>2, <2>3
<1>8. QED
  BY <1>1, <1>4, <1>6, <1>7 DEF SyncInv

\* A restart ends the tasks and the requests where they are.
LEMMA CrashSteps ==
  ASSUME TypeOK, Crash
  PROVE  /\ \A r \in Requests : req'[r].prev = req[r].prev /\ req'[r].obj = req[r].obj
         /\ \A j \in Tasks : /\ job'[j].at \in {"none", "done"} /\ job'[j].partial = job[j].partial
                             /\ job'[j].failed = job[j].failed
         /\ row' = row /\ work' = NoRow /\ holder' = Nobody /\ lost' = TRUE
         /\ imports' = imports /\ stored' = stored /\ skipped' = skipped /\ overlapped' = overlapped
<1>1. ASSUME NEW r \in Requests PROVE req'[r].prev = req[r].prev /\ req'[r].obj = req[r].obj
  BY DEF Crash, TypeOK, Sessions
<1>2. ASSUME NEW j \in Tasks
      PROVE  /\ job'[j].at \in {"none", "done"} /\ job'[j].partial = job[j].partial
             /\ job'[j].failed = job[j].failed
  <2>1. job[j] \in TaskStates /\ (job'[j] = IF job[j].at = "none" THEN job[j] ELSE [job[j] EXCEPT !.at = "done"])
    BY DEF Crash, TypeOK
  <2>2. QED
    BY <2>1 DEF TaskStates
<1>3. QED
  BY <1>1, <1>2 DEF Crash, history

LEMMA SyncNext == TypeOK /\ SyncInv /\ [Next]_vars => SyncInv'
<1> SUFFICES ASSUME TypeOK, SyncInv, [Next]_vars PROVE SyncInv'
  OBVIOUS
<1>1. TypeOK'
  BY TypesNext
<1>2. ASSUME Pair \/ Drop \/ MessageLead \/ UNCHANGED vars PROVE SyncInv'
  BY <1>2 DEF Pair, Drop, MessageLead, vars, rows, history, SyncInv, TaskInv, AllHere, Here
<1>3. ASSUME Ages PROVE SyncInv'
  <2>1. row'.status = row.status
    BY <1>3 DEF Ages, TypeOK, Versions
  <2>2. QED
    BY <1>3, <2>1 DEF Ages, history, SyncInv, TaskInv, AllHere, Here
<1>4. ASSUME Crash PROVE SyncInv'
  <2>1. NoRow.status # "CONNECTED_SYNCED"
    BY DEF NoRow
  <2>2. QED
    BY <1>4, <2>1, CrashSteps DEF SyncInv, TaskInv, AllHere, Here
<1>5. QED
  BY <1>1, <1>2, <1>3, <1>4, SyncRequest, SyncTask, SyncImport DEF Next

\* CONNECTED_SYNCED says that the history is there, however syncs overlap and
\* fail: what a status is built on has been true when it was read, and what has
\* been imported stays (_run_history_sync).
THEOREM SyncedCorrect == Spec => []SyncedIsImported
<1>1. SyncInv => SyncedIsImported
  BY DEF SyncInv, SyncedIsImported, AllHere, Here
<1>2. QED
  BY <1>1, TypesStart, TypesNext, SyncStart, SyncNext, PTL DEF Spec

-----------------------------------------------------------------------------
(* CONNECTED_PENDING.                                                      *)

LEMMA PendingStart == Init => PendingInv
<1> SUFFICES ASSUME Init PROVE PendingInv
  OBVIOUS
<1>1. ~Announced(row)
  <2>1. row.status # "CONNECTED_PENDING"
    <3>1. \/ row = NoRow \/ row = [NoRow EXCEPT !.there = TRUE]
          \/ row \in [there : {TRUE}, activo : {TRUE}, recent : BOOLEAN,
                      status : {"CONNECTED", "CONNECTED_SYNCED"}]
      BY Zenon DEF Init
    <3>2. /\ NoRow.status = "DISCONNECTED"
          /\ [NoRow EXCEPT !.there = TRUE].status = "DISCONNECTED"
      BY DEF NoRow
    <3>3. QED
      BY <3>1, <3>2
  <2>2. QED
    BY <2>1 DEF Announced
<1>2. \A r \in Requests : holder # r
  BY SettingsAssumption DEF Init
<1>3. QED
  BY <1>1, <1>2 DEF PendingInv

\* A task that a request starts is ahead; the others go on.
LEMMA RequestKeepsTasks ==
  ASSUME TypeOK, NEW r \in Requests, RequestStep(r), NEW j \in Tasks
  PROVE  (Ahead(j) => Ahead(j)') /\ (Covering(j) => Covering(j)')
<1>1. CASE job' = job
  BY <1>1 DEF Ahead, Covering
<1>2. CASE job' # job
  <2>1. PICK t \in {"queued", "fallback"}, b \in BOOLEAN : Schedule(<<r, t>>, b)
    BY <1>2, RequestJobs
  <2>2. CASE j = <<r, t>>
    <3>1. job'[j] = [NoJob EXCEPT !.at = "chats", !.partial = b]
      BY <2>1, <2>2 DEF Schedule, TypeOK
    <3>2. job'[j].at = "chats"
      BY <3>1 DEF NoJob
    <3>3. QED
      BY <3>2 DEF Ahead, Covering
  <2>3. CASE j # <<r, t>>
    <3>1. job'[j] = job[j]
      BY <2>1, <2>3 DEF Schedule, TypeOK
    <3>2. QED
      BY <3>1 DEF Ahead, Covering
  <2>4. QED
    BY <2>2, <2>3
<1>3. QED
  BY <1>1, <1>2

\* A request that is to commit does that, or fails.
LEMMA CommitEnds ==
  ASSUME NEW r \in Requests, RequestStep(r), req[r].at = "commit", holder = r
  PROVE  holder' = Nobody
<1>1. Commit(r) \/ DbFails(r)
  BY DEF RequestStep, FetchState, Look, LookAgain, Register, Decide, Find, WriteStatus, Create, AskCode,
         Logout, StartCloud, Leave, Deactivate, Enroll, Add, Hear, Starts
<1>2. CASE Commit(r)
  BY <1>2 DEF Commit
<1>3. CASE DbFails(r)
  BY <1>3 DEF DbFails, Rollback
<1>4. QED
  BY <1>1, <1>2, <1>3

LEMMA PendingRequest ==
  ASSUME TypeOK, PendingInv, NEW r \in Requests, RequestStep(r), ~lost'
  PROVE  PendingInv'
<1>0. ~lost /\ Nobody \notin Requests /\ <<r, "queued">> \in Tasks
  BY RequestHistory, SettingsAssumption DEF Tasks
<1>1. ASSUME Announced(row)' PROVE \E j \in Tasks : Covering(j)'
  <2>1. CASE row' = row
    BY <1>0, <1>1, <2>1, RequestKeepsTasks DEF PendingInv, Announced, Active
  <2>2. CASE holder = r /\ row' = work
    <3>1. Announced(work)
      BY <1>1, <2>2 DEF Announced, Active
    <3>2. Ahead(<<r, "queued">>)
      BY <1>0, <2>2, <3>1 DEF PendingInv
    <3>3. Covering(<<r, "queued">>)'
      BY <1>0, <3>2, RequestKeepsTasks DEF Covering
    <3>4. QED
      BY <1>0, <3>3
  <2>3. QED
    BY <2>1, <2>2, RequestRows
<1>2. ASSUME NEW q \in Requests, holder' = q, Announced(work)'
      PROVE  req'[q].at = "commit" /\ Ahead(<<q, "queued">>)'
  <2>1. CASE holder' = holder /\ work' = work
    <3>1. req[q].at = "commit" /\ Ahead(<<q, "queued">>)
      BY <1>0, <1>2, <2>1 DEF PendingInv, Announced, Active
    <3>2. q # r
      BY <1>0, <1>2, <2>1, <3>1, CommitEnds
    <3>3. <<q, "queued">> \in Tasks /\ req'[q] = req[q]
      BY <3>2, RequestOthers DEF Tasks
    <3>4. QED
      BY <3>1, <3>3, RequestKeepsTasks
  <2>2. CASE WriteStatus(r) /\ holder' = r /\ work' = WithStatus(View(r), req[r].to)
    <3>1. View(r) \in Versions /\ req[r].to \in Statuses /\ req[r] \in Sessions
      BY ViewTyped DEF TypeOK, Sessions
    <3>2. req[r].to = "CONNECTED_PENDING"
      BY <1>2, <2>2, <3>1, StatusTyped DEF Announced
    <3>3. GoTo(r, "commit") /\ Schedule(<<r, "queued">>, req[r].prev = "CONNECTED_SYNCED")
      BY <2>2, <3>2 DEF WriteStatus, Updated
    <3>4. req'[r].at = "commit"
      BY <3>1, <3>3 DEF GoTo, Sessions, TypeOK
    <3>5. job'[<<r, "queued">>].at = "chats"
      BY <1>0, <3>3 DEF Schedule, NoJob, TypeOK
    <3>6. QED
      BY <1>2, <2>2, <3>4, <3>5 DEF Ahead
  <2>3. QED
    BY <1>0, <1>2, <2>1, <2>2, RequestRows DEF Announced, Active
<1>3. QED
  BY <1>1, <1>2 DEF PendingInv

\* A task stays ahead until it looks for the row.
LEMMA TaskAhead ==
  ASSUME TypeOK, NEW j \in Tasks, TaskStep(j), Ahead(j), ~lost'
  PROVE  Ahead(j)' \/ FindRow(j)
<1>1. job \in [Tasks -> TaskStates] /\ job[j] \in TaskStates
  BY DEF TypeOK
<1>2. ASSUME NEW x, SetJob(j, x) PROVE job'[j] = x
  BY <1>1, <1>2 DEF SetJob
<1>3. CASE FetchChats(j)
  <2>1. \/ job'[j] = [job[j] EXCEPT !.at = "chat", !.todo = Chats]
        \/ job'[j] = [job[j] EXCEPT !.at = "find", !.failed = TRUE]
    BY <1>2, <1>3 DEF FetchChats
  <2>2. QED
    BY <1>1, <2>1 DEF Ahead, TaskStates
<1>4. ASSUME NEW c PROVE Done(j, c).at = "chat" /\ [Done(j, c) EXCEPT !.failed = TRUE].at = "chat"
  BY <1>1, DoneFields
<1>5. CASE SkipChat(j) \/ FailChat(j)
  <2>1. \E c : job'[j] = Done(j, c) \/ job'[j] = [Done(j, c) EXCEPT !.failed = TRUE]
    BY <1>2, <1>5 DEF SkipChat, FailChat
  <2>2. QED
    BY <1>4, <2>1 DEF Ahead
<1>6. CASE PostChat(j)
  <2> DEFINE x == [job[j] EXCEPT !.at = "import", !.now = {}, !.lead = 1]
  <2>1. PICK c : job'[j] = Done(j, c) \/ job'[j] = x
    BY <1>2, <1>6 DEF PostChat
  <2>2. x.at = "import"
    BY <1>1, PostedTyped
  <2> HIDE DEF x
  <2>3. QED
    BY <1>4, <2>1, <2>2 DEF Ahead
<1>a. CASE FindLead(j) \/ CreateLead(j) \/ FindAgain(j)
  BY <1>a, LeadSteps DEF Ahead
<1>7. CASE Summarize(j)
  <2>1. job'[j] = [job[j] EXCEPT !.at = "find"]
    BY <1>2, <1>7 DEF Summarize
  <2>2. QED
    BY <1>1, <2>1 DEF Ahead, TaskStates
<1>8. ~EndSync(j) /\ ~EndSyncFails(j)
  BY DEF EndSync, EndSyncFails, Ahead
<1>9. QED
  BY <1>3, <1>5, <1>6, <1>7, <1>8, <1>a DEF TaskStep

LEMMA PendingTask ==
  ASSUME TypeOK, PendingInv, NEW j \in Tasks, TaskStep(j), ~lost'
  PROVE  PendingInv'
<1>0. /\ req' = req /\ work' = work /\ holder' = holder
      /\ \A k \in Tasks : k # j => job'[k] = job[k]
  BY TaskSteps
<1>1. ~lost
  BY DEF TaskStep, FetchChats, FindLead, CreateLead, FindAgain, SkipChat, FailChat, PostChat, Resolve, Summarize, FindRow, EndSync, EndSyncFails,
         history
<1>2. row' = row \/ (EndSync(j) /\ row'.status # "CONNECTED_PENDING")
  <2>1. row' = row \/ (EndSync(j) /\ row' = WithStatus(row, Final(j)))
    BY DEF TaskStep, FetchChats, FindLead, CreateLead, FindAgain, SkipChat, FailChat, PostChat, Resolve, Summarize, FindRow, EndSync, EndSyncFails,
           rows
  <2>2. row \in Versions /\ Final(j) \in Statuses /\ Final(j) # "CONNECTED_PENDING"
    BY DEF TypeOK, Final, Statuses
  <2>3. QED
    BY <2>1, <2>2, StatusTyped
<1>3. ASSUME Announced(row)' PROVE \E k \in Tasks : Covering(k)'
  <2>1. row' = row /\ Announced(row)
    BY <1>2, <1>3 DEF Announced, Active
  <2>2. PICK k \in Tasks : Covering(k)
    BY <1>1, <2>1 DEF PendingInv
  <2>3. CASE k # j
    BY <1>0, <2>2, <2>3 DEF Covering, Ahead
  <2>4. CASE k = j /\ Ahead(j)
    <3>1. CASE FindRow(j)
      <4>1. job'[j] = [job[j] EXCEPT !.at = "write", !.obj = "CONNECTED_PENDING"]
        BY <2>1, <3>1 DEF FindRow, SetJob, Announced, Loaded, TypeOK
      <4>2. QED
        <5>1. job[j] \in TaskStates
          BY DEF TypeOK
        <5>2. job'[j].at = "write" /\ job'[j].obj = "CONNECTED_PENDING"
          BY <4>1, <5>1 DEF TaskStates
        <5>3. QED
          BY <5>2 DEF Covering
    <3>2. QED
      BY <2>4, <3>1, TaskAhead DEF Covering
  <2>5. CASE k = j /\ ~Ahead(j)
    <3>1. job[j].at = "write" /\ job[j].obj = "CONNECTED_PENDING"
      BY <2>2, <2>5 DEF Covering
    <3>2. EndSync(j)
      BY <3>1 DEF TaskStep, FetchChats, FindLead, CreateLead, FindAgain, SkipChat, FailChat, PostChat, Resolve, Summarize, FindRow, EndSyncFails
    <3>3. row' = WithStatus(row, Final(j)) /\ Final(j) \in Statuses /\ Final(j) # "CONNECTED_PENDING"
      BY <3>1, <3>2 DEF EndSync, Final, Statuses
    <3>4. row'.status # "CONNECTED_PENDING"
      BY <3>3, StatusTyped DEF TypeOK
    <3>5. QED
      BY <1>3, <3>4 DEF Announced
  <2>6. QED
    BY <2>3, <2>4, <2>5
<1>4. ASSUME NEW q \in Requests, holder' = q, Announced(work)'
      PROVE  req'[q].at = "commit" /\ Ahead(<<q, "queued">>)'
  <2>1. req[q].at = "commit" /\ Ahead(<<q, "queued">>) /\ <<q, "queued">> \in Tasks
    BY <1>0, <1>1, <1>4 DEF PendingInv, Announced, Active, Tasks
  <2>2. CASE j # <<q, "queued">>
    BY <1>0, <2>1, <2>2 DEF Ahead
  <2>3. CASE j = <<q, "queued">>
    <3>1. ~FindRow(j)
      BY <2>1, <2>3 DEF FindRow
    <3>2. QED
      BY <1>0, <2>1, <2>3, <3>1, TaskAhead
  <2>4. QED
    BY <2>2, <2>3
<1>5. QED
  BY <1>3, <1>4 DEF PendingInv

LEMMA PendingImport ==
  ASSUME TypeOK, PendingInv, NEW i \in imports, Imported(i) \/ ImportFails(i) \/ ImportTimeout(i)
  PROVE  PendingInv'
<1>1. row' = row /\ work' = work /\ holder' = holder /\ req' = req /\ lost' = lost
  BY ImportSteps
<1>2. ASSUME NEW j \in Tasks PROVE (Ahead(j) => Ahead(j)') /\ (Covering(j) => Covering(j)')
  <2>1. CASE job'[j] = job[j]
    BY <2>1 DEF Ahead, Covering
  <2>2. CASE job'[j] # job[j]
    <3>1. job \in [Tasks -> TaskStates] /\ i.task \in Tasks /\ job' # job
      BY <2>2 DEF TypeOK
    <3>2. \/ job' = [job EXCEPT ![i.task] = [Done(i.task, i.chat) EXCEPT !.failed = TRUE]]
          \/ job' = [job EXCEPT ![i.task] = Done(i.task, i.chat)]
      BY <3>1, ImportSteps
    <3>3. job'[j] = [Done(j, i.chat) EXCEPT !.failed = TRUE] \/ job'[j] = Done(j, i.chat)
      BY <2>2, <3>1, <3>2
    <3>4. Done(j, i.chat).at = "chat" /\ [Done(j, i.chat) EXCEPT !.failed = TRUE].at = "chat"
      BY <3>1, DoneFields
    <3>5. QED
      BY <3>3, <3>4 DEF Ahead, Covering
  <2>3. QED
    BY <2>1, <2>2
<1>3. \A q \in Requests : <<q, "queued">> \in Tasks
  BY DEF Tasks
<1>4. QED
  BY <1>1, <1>2, <1>3 DEF PendingInv, Announced, Active

LEMMA PendingNext == TypeOK /\ PendingInv /\ [Next]_vars => PendingInv'
<1> SUFFICES ASSUME TypeOK, PendingInv, [Next]_vars PROVE PendingInv'
  OBVIOUS
<1>1. ASSUME Pair \/ Drop \/ MessageLead \/ UNCHANGED vars PROVE PendingInv'
  BY <1>1 DEF Pair, Drop, MessageLead, vars, rows, history, PendingInv, Announced, Active, Covering, Ahead
<1>2. ASSUME Ages PROVE PendingInv'
  <2>1. row'.status = row.status /\ row'.there = row.there /\ row'.activo = row.activo
    BY <1>2 DEF Ages, TypeOK, Versions
  <2>2. QED
    BY <1>2, <2>1 DEF Ages, PendingInv, Announced, Active, Covering, Ahead
<1>3. ASSUME lost' PROVE PendingInv'
  BY <1>3 DEF PendingInv
<1>4. ASSUME Crash PROVE PendingInv'
  BY <1>3, <1>4, CrashSteps
<1>5. QED
  BY <1>1, <1>2, <1>3, <1>4, PendingRequest, PendingTask, PendingImport DEF Next

\* While CONNECTED_PENDING announces a sync, a task is at work on it
\* (_mark_connected_and_queue_sync, _run_history_sync).
THEOREM PendingCorrect == Spec => []PendingIsRunning
<1>1. PendingInv => PendingIsRunning
  BY DEF PendingInv, PendingIsRunning, Announced, Covering, Ahead, Running
<1>2. QED
  BY <1>1, TypesStart, TypesNext, PendingStart, PendingNext, PTL DEF Spec

-----------------------------------------------------------------------------
(* Imports.                                                                *)

LEMMA OnceStart == Init => OnceInv
<1> SUFFICES ASSUME Init PROVE OnceInv
  OBVIOUS
<1>1. Running = {} /\ imports = {}
  BY DEF Init, Running, NoJob
<1>2. \A c \in Chats : \A l \in 1 .. MaxLeads : stored[c][l] <= 1
  BY DEF Init
<1>3. QED
  BY <1>1, <1>2 DEF OnceInv

LEMMA OnceRequest ==
  ASSUME TypeOK, OnceInv, NEW r \in Requests, RequestStep(r)
  PROVE  OnceInv'
<1>1. stored' = stored /\ imports' = imports
  BY RequestHistory
<1>2. CASE job' = job /\ overlapped' = overlapped
  <2>1. Running' = Running
    BY <1>2 DEF Running
  <2>2. QED
    BY <1>1, <1>2, <2>1 DEF OnceInv, Undone
<1>3. ASSUME NEW t \in {"queued", "fallback"}, NEW b \in BOOLEAN, Schedule(<<r, t>>, b) PROVE OnceInv'
  <2> SUFFICES ASSUME ~overlapped' PROVE OnceInv'
    BY DEF OnceInv
  <2>1. ~overlapped /\ Running = {} /\ imports = {}
    BY <1>3 DEF Schedule
  <2>2. <<r, t>> \in Tasks
    BY DEF Tasks
  <2>3. \A k \in Tasks : k # <<r, t>> => job'[k] = job[k]
    BY <1>3 DEF Schedule, TypeOK
  <2>4. \A k \in Running' : k = <<r, t>>
    BY <2>1, <2>3 DEF Running
  <2>5. imports' = {}
    BY <1>1, <2>1
  <2>6. \A c \in Chats : \A l \in 1 .. MaxLeads : stored'[c][l] <= 1
    BY <1>1, <2>1 DEF OnceInv
  <2>7. job'[<<r, t>>].at = "chats"
    BY <1>3, <2>2 DEF Schedule, NoJob, TypeOK
  <2>8. QED
    BY <2>4, <2>5, <2>6, <2>7 DEF OnceInv, Undone
<1>4. QED
  BY <1>2, <1>3, RequestJobs

\* What a step of a task leaves to do, and what it asks for.
LEMMA TaskWork ==
  ASSUME TypeOK, NEW j \in Tasks, TaskStep(j)
  PROVE  /\ j \in Running /\ job'[j].at # "chats"
         /\ \/ FetchChats(j) /\ imports' = imports
            \/ /\ imports' = imports /\ job'[j].todo \subseteq job[j].todo
               /\ (job'[j].at \in AtChat => job[j].at \in AtChat)
               /\ job'[j].at \in {"create", "post"} =>
                    /\ job'[j].todo = job[j].todo
                    /\ \/ job'[j].now \subseteq job[j].todo
                       \/ job[j].at = "create" /\ job'[j].now \subseteq job[j].now
            \/ /\ job[j].at = "post" /\ job'[j].at = "import" /\ job'[j].todo = job[j].todo
               /\ \E c \in job[j].now : imports' = imports \cup {Posted(j, c)}
<1>1. job \in [Tasks -> TaskStates] /\ job[j] \in TaskStates
  BY DEF TypeOK
<1>2. ASSUME NEW x, SetJob(j, x) PROVE job'[j] = x
  BY <1>1, <1>2 DEF SetJob
<1>3. j \in Running
  BY DEF TaskStep, FetchChats, FindLead, CreateLead, FindAgain, SkipChat, FailChat, PostChat, Summarize,
         FindRow, EndSync, EndSyncFails, Running
<1>4. ASSUME NEW c
      PROVE  /\ Done(j, c).at = "chat" /\ Done(j, c).todo \subseteq job[j].todo
             /\ [Done(j, c) EXCEPT !.failed = TRUE].at = "chat"
             /\ [Done(j, c) EXCEPT !.failed = TRUE].todo \subseteq job[j].todo
  BY <1>1, DoneFields
<1>5. CASE FetchChats(j)
  <2>1. \/ job'[j] = [job[j] EXCEPT !.at = "chat", !.todo = Chats]
        \/ job'[j] = [job[j] EXCEPT !.at = "find", !.failed = TRUE]
    BY <1>2, <1>5 DEF FetchChats
  <2>2. job'[j].at # "chats"
    BY <1>1, <2>1 DEF TaskStates
  <2>3. QED
    BY <1>3, <1>5, <2>2 DEF FetchChats, history
<1>6. CASE SkipChat(j) \/ FailChat(j)
  <2>1. \E c : job'[j] = Done(j, c) \/ job'[j] = [Done(j, c) EXCEPT !.failed = TRUE]
    BY <1>2, <1>6 DEF SkipChat, FailChat
  <2>2. imports' = imports /\ job[j].at \in {"create", "post"}
    BY <1>6 DEF SkipChat, FailChat, history
  <2>3. QED
    BY <1>3, <1>4, <2>1, <2>2 DEF AtChat
<1>7. CASE PostChat(j)
  <2> DEFINE x == [job[j] EXCEPT !.at = "import", !.now = {}, !.lead = 1]
  <2>1. PICK c \in job[j].now :
               \/ SetJob(j, Done(j, c)) /\ imports' = imports
               \/ SetJob(j, x) /\ imports' = imports \cup {Posted(j, c)}
    BY <1>7 DEF PostChat, Posted
  <2>2. job[j].at = "post"
    BY <1>7 DEF PostChat
  <2>3. x.at = "import" /\ x.todo = job[j].todo
    BY <1>1, PostedTyped
  <2> HIDE DEF x
  <2>4. CASE SetJob(j, Done(j, c)) /\ imports' = imports
    BY <1>2, <1>3, <1>4, <2>2, <2>4 DEF AtChat
  <2>5. CASE SetJob(j, x) /\ imports' = imports \cup {Posted(j, c)}
    <3>1. job'[j].at = "import" /\ job'[j].todo = job[j].todo
      BY <1>2, <2>3, <2>5
    <3>2. QED
      BY <1>3, <2>2, <2>5, <3>1
  <2>6. QED
    BY <2>1, <2>4, <2>5
<1>8. CASE Summarize(j) \/ FindRow(j) \/ EndSync(j) \/ EndSyncFails(j)
  <2>1. PICK s \in {"find", "write", "done"} :
               \/ \E o : job'[j] = [job[j] EXCEPT !.at = s, !.obj = o]
               \/ job'[j] = [job[j] EXCEPT !.at = s]
    BY <1>2, <1>8 DEF Summarize, FindRow, EndSync, EndSyncFails
  <2>2. job'[j].at = s /\ job'[j].todo = job[j].todo
    BY <1>1, <2>1 DEF TaskStates
  <2>3. imports' = imports
    BY <1>8 DEF Summarize, FindRow, EndSync, EndSyncFails, history
  <2>4. QED
    BY <1>3, <2>2, <2>3 DEF AtChat
<1>9. CASE FindLead(j) \/ CreateLead(j) \/ FindAgain(j)
  BY <1>3, <1>9, LeadSteps DEF AtChat
<1>10. QED
  BY <1>5, <1>6, <1>7, <1>8, <1>9 DEF TaskStep

LEMMA OnceTask ==
  ASSUME TypeOK, OnceInv, NEW j \in Tasks, TaskStep(j)
  PROVE  OnceInv'
<1> SUFFICES ASSUME ~overlapped' PROVE OnceInv'
  BY DEF OnceInv
<1>0. /\ ~overlapped /\ stored' = stored
      /\ \A k \in Tasks : k # j => job'[k] = job[k]
  BY TaskSteps
<1>1. j \in Running /\ \A k \in Running : k = j
  BY <1>0, TaskWork DEF OnceInv
<1>2. \A k \in Running' : k = j
  BY <1>0, <1>1 DEF Running
<1>3. /\ \A i \in imports : i.task = j
      /\ job[j].at = "chats" => imports = {}
      /\ Undone(j)
      /\ job[j].at \in {"create", "post"} => job[j].now \subseteq job[j].todo
      /\ \A i, k \in imports : i.chat \in job[j].todo /\ k.chat \in job[j].todo => i = k
      /\ \A i, k \in imports : i.chat = k.chat => i = k
      /\ \A i \in imports : i.new => stored[i.chat][i.lead] = 0
      /\ \A c \in Chats : \A l \in 1 .. MaxLeads : stored[c][l] <= 1
  BY <1>0, <1>1 DEF OnceInv
<1>4. CASE FetchChats(j) /\ imports' = imports
  <2>1. imports' = {}
    BY <1>3, <1>4 DEF FetchChats
  <2>2. job'[j].at \notin {"create", "post"}
    <3>1. \/ job'[j] = [job[j] EXCEPT !.at = "chat", !.todo = Chats]
          \/ job'[j] = [job[j] EXCEPT !.at = "find", !.failed = TRUE]
      BY <1>4 DEF FetchChats, SetJob, TypeOK
    <3>2. job[j] \in TaskStates
      BY DEF TypeOK
    <3>3. QED
      BY <3>1, <3>2 DEF TaskStates
  <2>3. QED
    BY <1>0, <1>2, <1>3, <2>1, <2>2 DEF OnceInv, Undone
<1>5. CASE /\ imports' = imports /\ job'[j].todo \subseteq job[j].todo
           /\ (job'[j].at \in AtChat => job[j].at \in AtChat)
           /\ job'[j].at \in {"create", "post"} =>
                /\ job'[j].todo = job[j].todo
                /\ \/ job'[j].now \subseteq job[j].todo
                   \/ job[j].at = "create" /\ job'[j].now \subseteq job[j].now
  <2>1. job'[j].at # "chats"
    BY TaskWork
  <2>2. Undone(j)'
    BY <1>3, <1>5 DEF Undone, AtChat
  <2>3. job'[j].at \in {"create", "post"} => job'[j].now \subseteq job'[j].todo
    BY <1>3, <1>5
  <2>4. QED
    BY <1>0, <1>2, <1>3, <1>5, <2>1, <2>2, <2>3 DEF OnceInv
<1>6. ASSUME NEW c \in job[j].now, job[j].at = "post", job'[j].at = "import", job'[j].todo = job[j].todo,
             imports' = imports \cup {Posted(j, c)}
      PROVE  OnceInv'
  <2> DEFINE n == Posted(j, c)
  <2>1. n.task = j /\ n.chat = c /\ n.lead = job[j].lead /\ (n.new => ~AlreadyStored(c, job[j].lead))
    BY Zenon DEF Posted
  <2>2. imports' = imports \cup {n}
    BY <1>6
  <2>3. c \in Chats /\ job[j].lead \in 1 .. MaxLeads /\ stored[c][job[j].lead] \in Nat
    BY DEF TypeOK, TaskStates
  <2>4. n.new => stored[n.chat][n.lead] = 0
    BY <2>1, <2>3 DEF AlreadyStored
  <2> HIDE DEF n
  <2>5. c \in job[j].todo /\ \A i \in imports : i.chat \notin job[j].todo /\ i.chat # c
    BY <1>3, <1>6 DEF Undone, AtChat
  <2>6. \A i, k \in imports' : i.chat \in job'[j].todo /\ k.chat \in job'[j].todo => i = k
    BY <1>6, <2>2, <2>5
  <2>7. \A i, k \in imports' : i.chat = k.chat => i = k
    BY <1>3, <2>1, <2>2, <2>5
  <2>8. /\ \A i \in imports' : i.task = j
        /\ \A i \in imports' : i.new => stored'[i.chat][i.lead] = 0
    BY <1>0, <1>3, <2>1, <2>2, <2>4
  <2>9. QED
    BY <1>0, <1>2, <1>3, <1>6, <2>6, <2>7, <2>8 DEF OnceInv, Undone, AtChat
<1>7. QED
  BY <1>4, <1>5, <1>6, TaskWork

LEMMA OnceImport ==
  ASSUME TypeOK, OnceInv, NEW i \in imports, Imported(i) \/ ImportFails(i) \/ ImportTimeout(i)
  PROVE  OnceInv'
<1> SUFFICES ASSUME ~overlapped' PROVE OnceInv'
  BY DEF OnceInv
<1>0. /\ ~overlapped /\ i.task \in Tasks /\ i.chat \in Chats /\ i.lead \in 1 .. MaxLeads
      /\ stored \in [Chats -> [1 .. MaxLeads -> Nat]] /\ job \in [Tasks -> TaskStates]
  BY ImportSteps DEF TypeOK
<1>1. /\ \A k, m \in imports : k.chat = m.chat => k = m
      /\ \A k \in imports : k.new => stored[k.chat][k.lead] = 0
      /\ \A c \in Chats : \A l \in 1 .. MaxLeads : stored[c][l] <= 1
      /\ \A k \in imports : k.chat \in Chats /\ k.lead \in 1 .. MaxLeads
  BY <1>0 DEF OnceInv, TypeOK
<1>2. imports' \subseteq imports
  BY ImportSteps
<1>3. /\ \A k \in imports' : k.new => stored'[k.chat][k.lead] = 0
      /\ \A c \in Chats : \A l \in 1 .. MaxLeads : stored'[c][l] <= 1
  <2>1. CASE stored' = stored
    BY <1>1, <1>2, <2>1
  <2>2. CASE imports' = imports \ {i} /\ i.new /\ stored' = [stored EXCEPT ![i.chat][i.lead] = @ + 1]
    <3>1. \A k \in imports' : k.chat # i.chat
      BY <1>1, <2>2
    <3>2. stored[i.chat][i.lead] = 0
      BY <1>1, <2>2
    <3>3. \A c \in Chats : \A l \in 1 .. MaxLeads :
             stored'[c][l] = IF c = i.chat /\ l = i.lead THEN 1 ELSE stored[c][l]
      BY <1>0, <2>2, <3>2, StoredTyped
    <3>4. QED
      BY <1>0, <1>1, <1>2, <3>1, <3>3
  <2>3. QED
    BY <2>1, <2>2, ImportSteps
<1>4. CASE job' = job
  <2>1. Running' = Running
    BY <1>4 DEF Running
  <2>2. ASSUME NEW j \in Running'
        PROVE  /\ \A k \in imports' : k.task = j
               /\ job'[j].at = "chats" => imports' = {}
               /\ Undone(j)'
               /\ job'[j].at \in {"create", "post"} => job'[j].now \subseteq job'[j].todo
               /\ \A k, m \in imports' : k.chat \in job'[j].todo /\ m.chat \in job'[j].todo => k = m
    BY <1>0, <1>2, <1>4, <2>1 DEF OnceInv, Undone
  <2>3. \A j, k \in Running' : j = k
    BY <1>0, <2>1 DEF OnceInv
  <2>4. QED
    BY <1>1, <1>2, <1>3, <2>2, <2>3 DEF OnceInv
<1>5. CASE job' # job
  <2> DEFINE j == i.task
  <2>1. /\ Awaited(i)
        /\ \/ job' = [job EXCEPT ![j] = [Done(j, i.chat) EXCEPT !.failed = TRUE]]
           \/ job' = [job EXCEPT ![j] = Done(j, i.chat)]
    BY <1>5, ImportSteps
  <2>2. job[j].at = "import" /\ i.chat \in job[j].todo /\ j \in Running
    BY <1>0, <2>1 DEF Awaited, Running
  <2>3. job'[j].at = "chat" /\ job'[j].todo = job[j].todo \ {i.chat}
    <3>1. job[j] \in TaskStates
      BY <1>0
    <3>2. job'[j] = [Done(j, i.chat) EXCEPT !.failed = TRUE] \/ job'[j] = Done(j, i.chat)
      BY <1>0, <2>1
    <3>3. /\ Done(j, i.chat).at = "chat" /\ Done(j, i.chat).todo = job[j].todo \ {i.chat}
          /\ [Done(j, i.chat) EXCEPT !.failed = TRUE].at = "chat"
          /\ [Done(j, i.chat) EXCEPT !.failed = TRUE].todo = job[j].todo \ {i.chat}
      BY <1>0, DoneFields
    <3>4. QED
      BY <3>2, <3>3
  <2>4. \A k \in Tasks : k # j => job'[k] = job[k]
    BY <1>0, <2>1
  <2>5. \A k \in Running : k = j
    BY <1>0, <2>2 DEF OnceInv
  <2>6. \A k \in Running' : k = j
    BY <2>4, <2>5 DEF Running
  <2>7. \A k \in imports : k.task = j /\ (k.chat \in job[j].todo => k = i)
    BY <1>0, <2>2 DEF OnceInv
  <2>8. \A k \in imports' : k.task = j /\ k.chat \notin job'[j].todo
    BY <1>2, <2>3, <2>7
  <2> HIDE DEF j
  <2>9. QED
    BY <1>1, <1>2, <1>3, <2>3, <2>6, <2>8 DEF OnceInv, Undone
<1>6. QED
  BY <1>4, <1>5

LEMMA OnceNext == TypeOK /\ OnceInv /\ [Next]_vars => OnceInv'
<1> SUFFICES ASSUME TypeOK, OnceInv, [Next]_vars PROVE OnceInv'
  OBVIOUS
<1>1. ASSUME Pair \/ Drop \/ Ages \/ MessageLead \/ UNCHANGED vars PROVE OnceInv'
  <2>1. /\ job' = job /\ imports' = imports /\ stored' = stored /\ overlapped' = overlapped
    BY <1>1 DEF Pair, Drop, Ages, MessageLead, vars, history
  <2>2. Running' = Running
    BY <2>1 DEF Running
  <2>3. QED
    BY <2>1, <2>2 DEF OnceInv, Undone
<1>2. ASSUME Crash PROVE OnceInv'
  <2>1. Running' = {}
    BY <1>2, CrashSteps DEF Running
  <2>2. QED
    BY <1>2, <2>1, CrashSteps DEF OnceInv
<1>3. QED
  BY <1>1, <1>2, OnceRequest, OnceTask, OnceImport DEF Next

\* No lead gets a history twice as long as no sync was started while another was
\* at work: import_conversation_messages then finds what the lead has.
THEOREM OnceCorrect == Spec => []ImportedOnce
<1>1. OnceInv => ImportedOnce
  BY DEF OnceInv, ImportedOnce
<1>2. QED
  BY <1>1, TypesStart, TypesNext, OnceStart, OnceNext, PTL DEF Spec
=============================================================================
