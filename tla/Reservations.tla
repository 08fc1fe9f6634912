---------------------------- MODULE Reservations ----------------------------
(***************************************************************************)
(* Reservations of tables, on one day: reservacion_svc and its routes, the *)
(* reservations the agent makes for a customer, and the job that reminds   *)
(* customers of them.                                                      *)
(*                                                                         *)
(* Transactions are READ COMMITTED: a SELECT sees what is committed when it *)
(* runs, an INSERT or UPDATE is seen by others from its commit on.  An      *)
(* UPDATE takes the lock of its row until then.  The day is Day hours long, *)
(* and clock times are taken modulo Day.                                   *)
(***************************************************************************)
EXTENDS Integers, Sequences, FiniteSets, Functions

CONSTANTS
  Tables,
  Rank,       \* the tables by capacity, then number
  Capacity,
  Requests,   \* requests that may be in progress at once
  Jobs,       \* POST /reservaciones/send-reminders that may be
  Mixes,      \* what is mixed in one behaviour: what is asked for, how
              \* reservations are changed and how often, what else happens
  Day,
  Duration,   \* _DEFAULT_DURATION_HOURS
  Ahead,      \* hours_ahead
  MaxBookings, MaxScans, MaxFaults,
  Nobody      \* no table, no hour, no holder of a lock

Hours == 0 .. Day - 1
Estados == {"PENDIENTE", "CONFIRMADA", "CANCELADA", "COMPLETADA", "NO_SHOW"}

\* The columns of a reservation.  Name, phone and the like do not matter here.
Columns == [mesa |-> Tables \cup {Nobody}, start |-> Hours, fin |-> Hours, estado |-> Estados,
            reminded |-> BOOLEAN]

Rows == [mesa : Columns.mesa, start : Hours, fin : Hours, estado : Estados, reminded : BOOLEAN]

\* What a request asks for: a table or none, an end or none.
Wants == [mesa : Tables \cup {Nobody}, start : Hours, fin : Hours \cup {Nobody}, people : Nat]

\* What a PATCH may set; Nobody is what it leaves out.
Edits == [mesa : Tables \cup {Nobody}, start : Hours \cup {Nobody}, fin : Hours \cup {Nobody},
          estado : Estados \cup {Nobody}]

ASSUME ReservationAssumption ==
  /\ Day \in Nat \ {0} /\ Duration \in 1 .. Day - 1 /\ Ahead \in Nat
  /\ Nobody \notin Tables \cup Requests \cup Jobs /\ Nobody \notin Hours /\ Nobody \notin Estados
  /\ IsFiniteSet(Requests) /\ Requests \cap Jobs = {}
  /\ Rank \in [Tables -> Nat] /\ IsInjective(Rank) /\ Capacity \in [Tables -> Nat]
  /\ MaxBookings \in Nat /\ MaxScans \in Nat /\ MaxFaults \in Nat
  /\ \A m \in Mixes : /\ m.wants \subseteq Wants /\ m.edits \subseteq Edits
                     /\ m.bookings \in 0 .. MaxBookings /\ m.changes \in Nat
                     /\ m.does \subseteq {"cancel", "remind"} /\ m.faults \subseteq {"send", "crash"}

VARIABLES
  mix,
  res,        \* reservaciones: the committed rows, in the order of their commits
  lock,       \* who has an uncommitted UPDATE of each row
  work, job,  \* what each request and each reminder job is doing
  edits, scans, faults,
  reminders,  \* history: reminders that reached the customer of each reservation
  raced,      \* history: reservations whose search missed a later commit
  moved,      \* history: reservations moved or revived without a search
  overlapped  \* history: two reminder jobs at once

vars == <<mix, res, lock, work, job, edits, scans, faults, reminders, raced, moved, overlapped>>

Idle == [at |-> "idle", want |-> Nobody, mesa |-> Nobody, saw |-> 0, row |-> 0, writes |-> <<>>]
NoJob == [at |-> "idle", todo |-> <<>>]
Ids == 1 .. MaxBookings

Init ==
  /\ mix \in Mixes
  /\ res = <<>> /\ lock = [i \in Ids |-> Nobody]
  /\ work = [r \in Requests |-> Idle] /\ job = [j \in Jobs |-> NoJob]
  /\ edits = 0 /\ scans = 0 /\ faults = 0
  /\ reminders = [i \in Ids |-> 0]
  /\ raced = {} /\ moved = {} /\ overlapped = FALSE

Fault(f) == f \in mix.faults /\ faults < MaxFaults /\ faults' = faults + 1

Release(who) == lock' = [i \in Ids |-> IF lock[i] = who THEN Nobody ELSE lock[i]]

-----------------------------------------------------------------------------
(* check_availability                                                      *)

\* Mutant: the time of day is not reduced.
EndOf_Sum(start) == start + Duration

\* _compute_hora_fin: a time of day, past midnight too.
EndOf(start) == (start + Duration) % Day

\* Mutant: only the beginnings are compared.
Occupies_Start(row, start) == row.estado # "CANCELADA" /\ row.start = start

\* hora_inicio < :hora_fin AND hora_fin > :hora_inicio
Occupies(row, start) ==
  row.estado # "CANCELADA" /\ row.start < EndOf(start) /\ row.fin > start

Available(want) ==
  { t \in Tables : Capacity[t] >= want.people /\
      ~ \E i \in DOMAIN res : res[i].mesa = t /\ Occupies(res[i], want.start) }

-----------------------------------------------------------------------------
(* create_reservacion, for the panel, the agent and its tool               *)

Room == Len(res) + Cardinality({ r \in Requests : work[r].at = "insert" }) < mix.bookings

\* The free places are known when the search is over; Nobody is "no table".
Search(r, want, mesa) ==
  work' = [work EXCEPT ![r] = [Idle EXCEPT !.at = "insert", !.want = want, !.mesa = mesa,
                                           !.saw = Len(res)]]

\* _verify_mesa_available; otherwise 409.
Choose(r, want) ==
  /\ want \in mix.wants /\ want.mesa # Nobody /\ work[r].at = "idle" /\ Room
  /\ want.mesa \in Available(want)
  /\ Search(r, want, want.mesa)
  /\ UNCHANGED <<mix, res, lock, job, edits, scans, faults, reminders, raced, moved, overlapped>>

\* _auto_assign_mesa: the smallest that is free, or none.
Assign(r, want) ==
  /\ want \in mix.wants /\ want.mesa = Nobody /\ work[r].at = "idle" /\ Room
  /\ \/ Available(want) = {} /\ Search(r, want, Nobody)
     \/ \E t \in Available(want) :
          /\ \A u \in Available(want) : Rank[t] <= Rank[u]
          /\ Search(r, want, t)
  /\ UNCHANGED <<mix, res, lock, job, edits, scans, faults, reminders, raced, moved, overlapped>>

\* _build_reservacion
Row(want, mesa) ==
  [mesa |-> mesa, start |-> want.start,
   fin |-> IF want.fin = Nobody THEN EndOf(want.start) ELSE want.fin,
   estado |-> "PENDIENTE", reminded |-> FALSE]

CommitNew(r) ==
  /\ work[r].at = "insert"
  /\ res' = Append(res, Row(work[r].want, work[r].mesa))
  /\ raced' = IF work[r].saw = Len(res) THEN raced ELSE raced \cup {Len(res) + 1}
  /\ work' = [work EXCEPT ![r] = Idle]
  /\ UNCHANGED <<mix, lock, job, edits, scans, faults, reminders, moved, overlapped>>

-----------------------------------------------------------------------------
(* update_reservacion and cancel_reservacion: the row is read, the object  *)
(* changed, and the columns that differ from what was read are written.    *)

Read(r, i, writes) ==
  /\ work[r].at = "idle" /\ edits < mix.changes /\ edits' = edits + 1
  /\ work' = [work EXCEPT ![r] = [Idle EXCEPT !.at = "write", !.row = i, !.writes = writes]]
  /\ UNCHANGED <<mix, res, lock, job, scans, faults, reminders, raced, moved, overlapped>>

\* None is left out; hora_fin stays when hora_inicio is moved.
Differs(row, edit) ==
  [c \in { c \in DOMAIN edit : edit[c] # Nobody /\ edit[c] # row[c] } |-> edit[c]]

Edit(r, i, e) == e \in mix.edits /\ Differs(res[i], e) # <<>> /\ Read(r, i, Differs(res[i], e))

\* 409 when it is cancelled already.
Cancel(r, i) == "cancel" \in mix.does /\ res[i].estado # "CANCELADA" /\ Read(r, i, [estado |-> "CANCELADA"])

\* UPDATE ... WHERE id: the columns that are not written stay.
Updated(row, writes) == [c \in DOMAIN row |-> IF c \in DOMAIN writes THEN writes[c] ELSE row[c]]

\* The lock of the row is waited for.
Write(r) ==
  /\ work[r].at = "write" /\ lock[work[r].row] = Nobody
  /\ lock' = [lock EXCEPT ![work[r].row] = r]
  /\ work' = [work EXCEPT ![r].at = "commit"]
  /\ UNCHANGED <<mix, res, job, edits, scans, faults, reminders, raced, moved, overlapped>>

\* It occupies a table at a time for which nobody looked.
Moves(old, new) ==
  \/ <<old.mesa, old.start, old.fin>> # <<new.mesa, new.start, new.fin>>
  \/ old.estado = "CANCELADA" /\ new.estado # "CANCELADA"

CommitEdit(r) ==
  /\ work[r].at = "commit"
  /\ LET i == work[r].row
         new == Updated(res[i], work[r].writes)
     IN  /\ res' = [res EXCEPT ![i] = new]
         /\ moved' = IF Moves(res[i], new) THEN moved \cup {i} ELSE moved
  /\ work' = [work EXCEPT ![r] = Idle]
  /\ Release(r)
  /\ UNCHANGED <<mix, job, edits, scans, faults, reminders, raced, overlapped>>

\* An exception or a crash: rolled back.
RequestFails(r) ==
  /\ work[r].at # "idle" /\ Fault("crash")
  /\ work' = [work EXCEPT ![r] = Idle]
  /\ Release(r)
  /\ UNCHANGED <<mix, res, job, edits, scans, reminders, raced, moved, overlapped>>

-----------------------------------------------------------------------------
(* send_reservation_reminders                                              *)

\* Neither over nor cancelled, not yet reminded, within an hour of the target.
Due(now) ==
  { i \in DOMAIN res : /\ res[i].estado \in {"CONFIRMADA", "PENDIENTE"} /\ ~res[i].reminded
                       /\ res[i].start - now \in Ahead - 1 .. Ahead + 1 }

\* ORDER BY hora_inicio leaves the order of equals open.
Sorted(ids) ==
  { s \in [1 .. Cardinality(ids) -> ids] :
      IsInjective(s) /\ \A a, b \in DOMAIN s : a < b => res[s[a]].start <= res[s[b]].start }

Scan(j, now) ==
  /\ "remind" \in mix.does /\ job[j].at = "idle" /\ scans < MaxScans
  /\ Due(now) # {}
  /\ \E todo \in Sorted(Due(now)) : job' = [job EXCEPT ![j] = [at |-> "send", todo |-> todo]]
  /\ scans' = scans + 1
  /\ overlapped' = (overlapped \/ \E k \in Jobs : job[k].at # "idle")
  /\ UNCHANGED <<mix, res, lock, work, edits, faults, reminders, raced, moved>>

First(j) == Head(job[j].todo)

Send(j) ==
  /\ job[j].at = "send" /\ job[j].todo # <<>>
  /\ reminders' = [reminders EXCEPT ![First(j)] = @ + 1]
  /\ job' = [job EXCEPT ![j].at = "mark"]
  /\ UNCHANGED <<mix, res, lock, work, edits, scans, faults, raced, moved, overlapped>>

\* A failed send is counted and not marked; the message may be out all the same.
SendFails(j) ==
  /\ job[j].at = "send" /\ job[j].todo # <<>> /\ Fault("send")
  /\ reminders' \in {reminders, [reminders EXCEPT ![First(j)] = @ + 1]}
  /\ job' = [job EXCEPT ![j].todo = Tail(@)]
  /\ UNCHANGED <<mix, res, lock, work, edits, scans, raced, moved, overlapped>>

\* UPDATE ... SET recordatorio_enviado = true, kept back until the commit.
Mark(j) ==
  /\ job[j].at = "mark" /\ lock[First(j)] \in {Nobody, j}
  /\ lock' = [lock EXCEPT ![First(j)] = j]
  /\ job' = [job EXCEPT ![j] = [at |-> "send", todo |-> Tail(job[j].todo)]]
  /\ UNCHANGED <<mix, res, work, edits, scans, faults, reminders, raced, moved, overlapped>>

\* Mutant: the flags are not stored.
CommitJob_Unmarked(j) ==
  /\ job[j].at = "send" /\ job[j].todo = <<>>
  /\ job' = [job EXCEPT ![j] = NoJob]
  /\ Release(j)
  /\ UNCHANGED <<mix, res, work, edits, scans, faults, reminders, raced, moved, overlapped>>

\* All flags are committed at the end.
CommitJob(j) ==
  /\ job[j].at = "send" /\ job[j].todo = <<>>
  /\ res' = [i \in DOMAIN res |-> IF lock[i] = j THEN [res[i] EXCEPT !.reminded = TRUE] ELSE res[i]]
  /\ job' = [job EXCEPT ![j] = NoJob]
  /\ Release(j)
  /\ UNCHANGED <<mix, work, edits, scans, faults, reminders, raced, moved, overlapped>>

\* Rolled back; what was sent is sent.
JobFails(j) ==
  /\ job[j].at # "idle" /\ Fault("crash")
  /\ job' = [job EXCEPT ![j] = NoJob]
  /\ Release(j)
  /\ UNCHANGED <<mix, res, work, edits, scans, reminders, raced, moved, overlapped>>

WaitsFor(j, k) == job[j].at = "mark" /\ lock[First(j)] = k

\* Mutant: the transaction of the job that is aborted stays open.
DeadlockAbort_KeepsLocks(j) ==
  /\ \E k \in Jobs \ {j} : WaitsFor(j, k) /\ WaitsFor(k, j)
  /\ job' = [job EXCEPT ![j] = NoJob]
  /\ UNCHANGED <<mix, res, lock, work, edits, scans, faults, reminders, raced, moved, overlapped>>

\* PostgreSQL breaks the deadlock of two jobs that took equals in another order.
DeadlockAbort(j) ==
  /\ \E k \in Jobs \ {j} : WaitsFor(j, k) /\ WaitsFor(k, j)
  /\ job' = [job EXCEPT ![j] = NoJob]
  /\ Release(j)
  /\ UNCHANGED <<mix, res, work, edits, scans, faults, reminders, raced, moved, overlapped>>

-----------------------------------------------------------------------------

Request(r) == CommitNew(r) \/ Write(r) \/ CommitEdit(r)
Remind(j) == Send(j) \/ Mark(j) \/ CommitJob(j) \/ DeadlockAbort(j)

Next ==
  \/ \E r \in Requests :
       \/ Request(r) \/ RequestFails(r)
       \/ \E want \in mix.wants : Choose(r, want) \/ Assign(r, want)
       \/ \E i \in DOMAIN res : Cancel(r, i) \/ \E e \in mix.edits : Edit(r, i, e)
  \/ \E j \in Jobs : Remind(j) \/ SendFails(j) \/ JobFails(j) \/ \E now \in Hours : Scan(j, now)

Spec == Init /\ [][Next]_vars

\* Requests and jobs that have begun go on.
FairSpec ==
  /\ Spec
  /\ \A r \in Requests : WF_vars(Request(r))
  /\ \A j \in Jobs : WF_vars(Remind(j))

-----------------------------------------------------------------------------
(* Properties.                                                             *)

TypeOK ==
  /\ mix \in Mixes
  /\ res \in Seq(Rows) /\ Len(res) <= mix.bookings
  /\ lock \in [Ids -> Requests \cup Jobs \cup {Nobody}]
  /\ DOMAIN work = Requests
  /\ \A r \in Requests :
       /\ work[r].at \in {"idle", "insert", "write", "commit"}
       /\ work[r].want \in Wants \cup {Nobody} /\ work[r].mesa \in Columns.mesa
       /\ work[r].saw \in Nat /\ work[r].row \in {0} \cup DOMAIN res
       /\ \A c \in DOMAIN work[r].writes : c \in DOMAIN Columns /\ work[r].writes[c] \in Columns[c]
  /\ job \in [Jobs -> [at : {"idle", "send", "mark"}, todo : Seq(Ids)]]
  /\ edits \in 0 .. mix.changes /\ scans \in 0 .. MaxScans /\ faults \in 0 .. MaxFaults
  /\ reminders \in [Ids -> Nat] /\ raced \subseteq Ids /\ moved \subseteq Ids
  /\ overlapped \in BOOLEAN

\* One that ends at or after midnight.
Ends(row) == IF row.fin > row.start THEN row.fin ELSE row.fin + Day

\* Two reservations are for one table, and their times meet.
Clash(a, b) ==
  /\ a.estado # "CANCELADA" /\ b.estado # "CANCELADA"
  /\ a.mesa # Nobody /\ a.mesa = b.mesa
  /\ a.start < Ends(b) /\ b.start < Ends(a)

\* It ends on its day, and no later than the search supposed; a search whose end
\* is past midnight finds nothing occupied.
Usual(row) == row.fin \in row.start + 1 .. EndOf(row.start)

\* create_reservacion: no table is given to two parties at once, however
\* reservations are cancelled and their state changed meanwhile, as long as
\* nothing was committed between the search and the insert, the times are the
\* usual ones and nobody moved a reservation by hand.
TablesBookedOnce ==
  \A i, k \in DOMAIN res \ (raced \cup moved) :
    i # k /\ Usual(res[i]) /\ Usual(res[k]) => ~Clash(res[i], res[k])

\* "Prevents double-sends by checking recordatorio_enviado flag": as long as no
\* two jobs overlap and no send or job fails.
RemindedOnce == ~overlapped /\ faults = 0 => \A i \in Ids : reminders[i] <= 1

\* Whoever waits for a row gets it or is aborted, and every request and job ends.
EveryRequestEnds ==
  /\ \A r \in Requests : work[r].at # "idle" ~> work[r].at = "idle"
  /\ \A j \in Jobs : job[j].at # "idle" ~> job[j].at = "idle"

-----------------------------------------------------------------------------
(* What the code says and does not do.                                     *)

\* "La mesa seleccionada no está disponible en ese horario"
\* (_verify_mesa_available): whoever asks for a taken table is refused.
NoClash == \A i, k \in DOMAIN res : i # k => ~Clash(res[i], res[k])

\* "Prevents double-sends by checking recordatorio_enviado flag"
\* (send_reservation_reminders), whatever else happens.
NeverRemindedTwice == \A i \in Ids : reminders[i] <= 1

-----------------------------------------------------------------------------
(* The inductive invariants behind the proofs.                             *)

Inserting == { r \in Requests : work[r].at = "insert" }
Active(j) == job[j].at # "idle"

\* Room is kept for every row that is about to be inserted, a request that
\* changes a row has one and leaves its flag alone, and a job marks what it sent.
RoomInv ==
  /\ Len(res) + Cardinality(Inserting) <= mix.bookings
  /\ \A r \in Requests :
       /\ DOMAIN work[r] = DOMAIN Idle /\ work[r].saw <= Len(res)
       /\ work[r].at = "insert" => work[r].want \in Wants
       /\ work[r].at \in {"write", "commit"} => work[r].row # 0
       /\ "reminded" \notin DOMAIN work[r].writes
  /\ \A j \in Jobs : job[j].at = "mark" => job[j].todo # <<>>

\* What a search found free is free still, if all rows were seen, but for rows
\* that were moved there.
FreeInv ==
  \A r \in Inserting : work[r].mesa # Nobody /\ work[r].saw = Len(res) =>
    \A i \in DOMAIN res \ moved :
      ~ (res[i].mesa = work[r].mesa /\ Occupies(res[i], work[r].want.start))

\* Whom a job has yet to remind.
Unsent(j) == { n \in DOMAIN job[j].todo : job[j].at = "mark" => n > 1 }

\* They are reservations, each named once, and were not reminded.
Listed(j) ==
  /\ IsInjective(job[j].todo)
  /\ \A n \in DOMAIN job[j].todo : job[j].todo[n] \in DOMAIN res
  /\ \A n \in Unsent(j) : reminders[job[j].todo[n]] = 0

\* It is flagged, or will be when the job that reminded of it commits.
Marked(i) ==
  /\ i \in DOMAIN res
  /\ \/ res[i].reminded
     \/ \E j \in Jobs : Active(j) /\ (lock[i] = j \/ (job[j].at = "mark" /\ First(j) = i))

\* There is one job, and who was reminded is marked.
RemindInv ==
  ~overlapped /\ faults = 0 =>
    /\ \A j, k \in Jobs : Active(j) /\ Active(k) => j = k
    /\ \A j \in Jobs : Active(j) => Listed(j)
    /\ \A i \in Ids : reminders[i] <= 1 /\ (reminders[i] = 1 => Marked(i))
=============================================================================
