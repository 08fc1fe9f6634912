-------------------------- MODULE RestaurantProofs --------------------------
(***************************************************************************)
(* Theorems about what a restaurant manages in the panel beside its        *)
(* orders: its tables (Reservations) and its menu (MenuImports).           *)
(*                                                                         *)
(* The first part is about Reservations, for any tables, requests, jobs    *)
(* and hours.  The second is about MenuImports, for any number of uploads, *)
(* calls and categories, whatever fails.  The components share nothing;    *)
(* each specification leaves the other's variables free.                   *)
(***************************************************************************)
EXTENDS Reservations, MenuImports, FiniteSetTheorems, TLAPS

-----------------------------------------------------------------------------
(* What is computed on a row.                                              *)

LEMMA ColumnNames ==
  /\ DOMAIN Columns = {"mesa", "start", "fin", "estado", "reminded"}
  /\ Columns["mesa"] = Tables \cup {Nobody} /\ Columns["start"] = Hours
  /\ Columns["fin"] = Hours /\ Columns["estado"] = Estados /\ Columns["reminded"] = BOOLEAN
BY DEF Columns

\* What a PATCH writes: columns of their types, but for the flag.
Writes(f) ==
  /\ DOMAIN f \subseteq DOMAIN Columns \ {"reminded"}
  /\ \A c \in DOMAIN f : f[c] \in Columns[c]

LEMMA NothingWritten == Writes(<<>>)
BY DEF Writes

LEMMA CancelWrites == Writes([estado |-> "CANCELADA"])
<1> DEFINE f == [estado |-> "CANCELADA"]
<1>1. DOMAIN f = {"estado"} /\ f["estado"] = "CANCELADA"
  OBVIOUS
<1>2. QED
  BY <1>1, ColumnNames DEF Writes, Estados

LEMMA EditWrites == ASSUME NEW row, NEW e \in Edits PROVE Writes(Differs(row, e))
<1> DEFINE f == Differs(row, e)
<1>1. DOMAIN e = {"mesa", "start", "fin", "estado"}
  BY DEF Edits
<1>2. /\ DOMAIN f \subseteq DOMAIN e
      /\ \A c \in DOMAIN f : e[c] # Nobody /\ f[c] = e[c]
  BY DEF Differs
<1>3. /\ e["mesa"] \in Tables \cup {Nobody} /\ e["start"] \in Hours \cup {Nobody}
      /\ e["fin"] \in Hours \cup {Nobody} /\ e["estado"] \in Estados \cup {Nobody}
  BY DEF Edits
<1>4. \A c \in DOMAIN f : f[c] \in Columns[c]
  BY <1>1, <1>2, <1>3, ColumnNames
<1>5. DOMAIN f \subseteq DOMAIN Columns \ {"reminded"}
  BY <1>1, <1>2, ColumnNames
<1>6. QED
  BY <1>4, <1>5 DEF Writes

\* An update leaves a row with its flag.
LEMMA UpdatedRow ==
  ASSUME NEW row \in Rows, NEW f, Writes(f)
  PROVE  Updated(row, f) \in Rows /\ Updated(row, f).reminded = row.reminded
<1> DEFINE new == Updated(row, f)
<1>1. DOMAIN row = {"mesa", "start", "fin", "estado", "reminded"}
  BY DEF Rows
<1>2. new = [c \in {"mesa", "start", "fin", "estado", "reminded"} |->
               IF c \in DOMAIN f THEN f[c] ELSE row[c]]
  BY <1>1 DEF Updated
<1>3. /\ row["mesa"] \in Tables \cup {Nobody} /\ row["start"] \in Hours /\ row["fin"] \in Hours
      /\ row["estado"] \in Estados /\ row["reminded"] \in BOOLEAN
  BY ColumnNames DEF Rows
<1>4. /\ "mesa" \in DOMAIN f => f["mesa"] \in Tables \cup {Nobody}
      /\ "start" \in DOMAIN f => f["start"] \in Hours
      /\ "fin" \in DOMAIN f => f["fin"] \in Hours
      /\ "estado" \in DOMAIN f => f["estado"] \in Estados
      /\ "reminded" \notin DOMAIN f
  BY ColumnNames DEF Writes
<1>5. /\ new["mesa"] \in Tables \cup {Nobody} /\ new["start"] \in Hours /\ new["fin"] \in Hours
      /\ new["estado"] \in Estados /\ new["reminded"] = row["reminded"]
  BY <1>2, <1>3, <1>4
<1>6. QED
  BY <1>2, <1>3, <1>5, ColumnNames DEF Rows

\* The end of a reservation is a time of day.
LEMMA EndOfHour == ASSUME NEW s \in Hours PROVE EndOf(s) \in Hours
<1>1. s + Duration \in Int /\ Day \in Nat \ {0}
  BY ReservationAssumption DEF Hours
<1>2. (s + Duration) % Day \in 0 .. Day - 1
  BY <1>1
<1>3. QED
  BY <1>2 DEF EndOf, Hours

LEMMA FlaggedRow == ASSUME NEW row \in Rows PROVE [row EXCEPT !.reminded = TRUE] \in Rows
<1> DEFINE new == [row EXCEPT !.reminded = TRUE]
<1>1. new = [c \in {"mesa", "start", "fin", "estado", "reminded"} |->
               IF c = "reminded" THEN TRUE ELSE row[c]]
  BY DEF Rows
<1>2. /\ row["mesa"] \in Tables \cup {Nobody} /\ row["start"] \in Hours /\ row["fin"] \in Hours
      /\ row["estado"] \in Estados
  BY ColumnNames DEF Rows
<1>3. /\ new["mesa"] \in Tables \cup {Nobody} /\ new["start"] \in Hours /\ new["fin"] \in Hours
      /\ new["estado"] \in Estados /\ new["reminded"] = TRUE
  BY <1>1, <1>2
<1>4. QED
  BY <1>1, <1>3, ColumnNames DEF Rows

LEMMA NewRow ==
  ASSUME NEW want \in Wants, NEW mesa \in Tables \cup {Nobody} PROVE Row(want, mesa) \in Rows
<1>1. want.start \in Hours /\ want.fin \in Hours \cup {Nobody} /\ EndOf(want.start) \in Hours
  BY EndOfHour DEF Wants
<1>2. QED
  BY <1>1, ColumnNames DEF Row, Rows, Estados

-----------------------------------------------------------------------------
(* Type correctness.                                                       *)

\* A request that changes a row has one, one that inserts knows what.
Shaped(w) ==
  /\ DOMAIN w = DOMAIN Idle
  /\ w.at \in {"idle", "insert", "write", "commit"}
  /\ w.want \in Wants \cup {Nobody} /\ w.mesa \in Tables \cup {Nobody}
  /\ w.saw \in 0 .. Len(res) /\ w.row \in {0} \cup DOMAIN res /\ Writes(w.writes)
  /\ w.at = "insert" => w.want \in Wants
  /\ w.at \in {"write", "commit"} => w.row \in DOMAIN res

WorkInv == DOMAIN work = Requests /\ \A r \in Requests : Shaped(work[r])

JobInv ==
  /\ job \in [Jobs -> [at : {"idle", "send", "mark"}, todo : Seq(Ids)]]
  /\ \A j \in Jobs : job[j].at = "mark" => job[j].todo # <<>>

TypeInv == TypeOK /\ RoomInv

\* TypeInv by its parts.
Rest ==
  /\ mix \in Mixes
  /\ lock \in [Ids -> Requests \cup Jobs \cup {Nobody}]
  /\ edits \in 0 .. mix.changes /\ scans \in 0 .. MaxScans /\ faults \in 0 .. MaxFaults
  /\ reminders \in [Ids -> Nat] /\ raced \subseteq Ids /\ moved \subseteq Ids
  /\ overlapped \in BOOLEAN

Room_ == res \in Seq(Rows) /\ Len(res) + Cardinality(Inserting) <= mix.bookings

LEMMA MixFacts ==
  ASSUME NEW m \in Mixes
  PROVE  /\ m.wants \subseteq Wants /\ m.edits \subseteq Edits /\ m.changes \in Nat
         /\ m.bookings \in 0 .. MaxBookings
BY ReservationAssumption

LEMMA InsertingIsFinite == IsFiniteSet(Inserting) /\ Cardinality(Inserting) \in Nat
<1>1. Inserting \subseteq Requests
  BY DEF Inserting
<1>2. QED
  BY <1>1, FS_Subset, FS_CardinalityType, ReservationAssumption

LEMMA Parts == TypeInv <=> Room_ /\ WorkInv /\ JobInv /\ Rest
<1>1. DOMAIN Idle = {"at", "want", "mesa", "saw", "row", "writes"}
  BY DEF Idle
<1>2. DOMAIN Columns = {"mesa", "start", "fin", "estado", "reminded"} /\ Columns.mesa = Tables \cup {Nobody}
  BY ColumnNames
<1>3. ASSUME TypeInv PROVE Room_ /\ WorkInv /\ JobInv /\ Rest
  <2>1. Room_ /\ JobInv /\ Rest /\ DOMAIN work = Requests
    BY <1>3 DEF TypeInv, TypeOK, RoomInv, Room_, JobInv, Rest
  <2>2. ASSUME NEW r \in Requests PROVE Shaped(work[r])
    <3>1. Len(res) \in Nat
      BY <2>1 DEF Room_
    <3>2. Writes(work[r].writes)
      BY <1>3 DEF TypeInv, TypeOK, RoomInv, Writes
    <3>3. QED
      BY <1>2, <1>3, <3>1, <3>2 DEF TypeInv, TypeOK, RoomInv, Shaped
  <2>3. QED
    BY <2>1, <2>2 DEF WorkInv
<1>4. ASSUME Room_, WorkInv, JobInv, Rest PROVE TypeInv
  <2>1. Len(res) \in Nat /\ mix.bookings \in Nat /\ Cardinality(Inserting) \in Nat
    BY <1>4, InsertingIsFinite, MixFacts, ReservationAssumption DEF Room_, Rest
  <2>2. Len(res) <= mix.bookings
    BY <1>4, <2>1 DEF Room_
  <2>3. \A r \in Requests : work[r].row \in DOMAIN res => work[r].row # 0
    BY <1>4 DEF Room_
  <2>4. ASSUME NEW r \in Requests
        PROVE  /\ work[r].at \in {"idle", "insert", "write", "commit"}
               /\ work[r].want \in Wants \cup {Nobody} /\ work[r].mesa \in Columns.mesa
               /\ work[r].saw \in Nat /\ work[r].row \in {0} \cup DOMAIN res
               /\ \A c \in DOMAIN work[r].writes : c \in DOMAIN Columns /\ work[r].writes[c] \in Columns[c]
               /\ DOMAIN work[r] = DOMAIN Idle /\ work[r].saw <= Len(res)
               /\ work[r].at = "insert" => work[r].want \in Wants
               /\ work[r].at \in {"write", "commit"} => work[r].row # 0
               /\ "reminded" \notin DOMAIN work[r].writes
    <3>1. Shaped(work[r])
      BY <1>4 DEF WorkInv
    <3>2. QED
      BY <1>2, <2>1, <2>3, <3>1 DEF Shaped, Writes
  <2>5. TypeOK
    BY <1>4, <2>2, <2>4 DEF TypeOK, Room_, WorkInv, JobInv, Rest
  <2>6. RoomInv
    BY <1>4, <2>4 DEF RoomInv, Room_, JobInv
  <2>7. QED
    BY <2>5, <2>6 DEF TypeInv
<1>5. QED
  BY <1>3, <1>4

LEMMA IdleShaped == ASSUME Len(res) \in Nat PROVE Shaped(Idle)
<1>1. DOMAIN <<>> = {}
  OBVIOUS
<1>2. QED
  BY <1>1, NothingWritten DEF Shaped, Idle

\* One request goes on, and no row is deleted.
LEMMA WorkMoves ==
  ASSUME WorkInv, NEW r \in Requests, NEW w, Shaped(w)', work' = [work EXCEPT ![r] = w],
         Len(res) \in Nat, Len(res') \in Nat, Len(res) <= Len(res'), DOMAIN res \subseteq DOMAIN res'
  PROVE  WorkInv'
<1>1. ASSUME NEW q \in Requests, q # r PROVE Shaped(work[q])'
  <2>1. work'[q] = work[q] /\ Shaped(work[q])
    BY <1>1 DEF WorkInv
  <2>2. QED
    BY <2>1 DEF Shaped, Writes
<1>2. work'[r] = w /\ DOMAIN work' = Requests
  BY DEF WorkInv
<1>3. QED
  BY <1>1, <1>2 DEF WorkInv

\* Rows are changed and none is added.
LEMMA WorkStays ==
  ASSUME WorkInv, Len(res) \in Nat, Len(res') = Len(res), DOMAIN res' = DOMAIN res, work' = work
  PROVE  WorkInv'
BY DEF WorkInv, Shaped, Writes

LEMMA Leaves ==
  ASSUME WorkInv, NEW r \in Requests, NEW w, w.at # "insert", work' = [work EXCEPT ![r] = w]
  PROVE  /\ Inserting' = Inserting \ {r}
         /\ Cardinality(Inserting') <= Cardinality(Inserting)
         /\ work[r].at = "insert" => Cardinality(Inserting') = Cardinality(Inserting) - 1
<1>1. Inserting' = Inserting \ {r}
  BY DEF Inserting, WorkInv
<1>2. work[r].at = "insert" <=> r \in Inserting
  BY DEF Inserting
<1>3. r \notin Inserting => Inserting' = Inserting
  BY <1>1
<1>4. r \in Inserting => Cardinality(Inserting') = Cardinality(Inserting) - 1
  BY <1>1, InsertingIsFinite, FS_RemoveElement
<1>5. QED
  BY <1>1, <1>2, <1>3, <1>4, InsertingIsFinite

LEMMA Enters ==
  ASSUME WorkInv, NEW r \in Requests, work[r].at = "idle", NEW w, w.at = "insert",
         work' = [work EXCEPT ![r] = w]
  PROVE  Inserting' = Inserting \cup {r} /\ Cardinality(Inserting') = Cardinality(Inserting) + 1
<1>1. Inserting' = Inserting \cup {r} /\ r \notin Inserting
  BY DEF Inserting, WorkInv
<1>2. QED
  BY <1>1, InsertingIsFinite, FS_AddElement

\* The fates of a request, as far as types go.
LEMMA RequestEnds ==
  ASSUME TypeInv, NEW r \in Requests, work' = [work EXCEPT ![r] = Idle],
         res' \in Seq(Rows), Len(res') = Len(res), mix' = mix
  PROVE  Room_' /\ WorkInv'
<1>1. Room_ /\ WorkInv /\ Rest
  BY Parts
<1>2. /\ Len(res) \in Nat /\ Len(res') \in Nat /\ Len(res) <= Len(res')
      /\ DOMAIN res \subseteq DOMAIN res' /\ DOMAIN res' = DOMAIN res
  BY <1>1 DEF Room_
<1>3. Shaped(Idle)'
  BY <1>2, IdleShaped DEF Shaped, Idle
<1>4. WorkInv'
  BY <1>1, <1>2, <1>3, WorkMoves
<1>5. Cardinality(Inserting') <= Cardinality(Inserting)
  BY <1>1, Leaves DEF Idle
<1>6. Cardinality(Inserting) \in Nat /\ Cardinality(Inserting') \in Nat /\ mix.bookings \in Nat
  <2>1. Inserting' \subseteq Inserting
    BY <1>1, Leaves DEF Idle
  <2>2. QED
    BY <2>1, <1>1, InsertingIsFinite, FS_Subset, FS_CardinalityType, MixFacts, ReservationAssumption DEF Rest
<1>7. QED
  BY <1>1, <1>2, <1>4, <1>5, <1>6 DEF Room_

\* A job goes on with the list it has.
LEMMA JobFields ==
  ASSUME JobInv, NEW j \in Jobs, NEW at, NEW todo
  PROVE  /\ [job EXCEPT ![j].at = at] = [job EXCEPT ![j] = [at |-> at, todo |-> job[j].todo]]
         /\ [job EXCEPT ![j].todo = todo] = [job EXCEPT ![j] = [at |-> job[j].at, todo |-> todo]]
<1>1. job[j] \in [at : {"idle", "send", "mark"}, todo : Seq(Ids)]
  BY DEF JobInv
<1>2. [job[j] EXCEPT !.at = at] = [at |-> at, todo |-> job[j].todo]
  BY <1>1
<1>3. [job[j] EXCEPT !.todo = todo] = [at |-> job[j].at, todo |-> todo]
  BY <1>1
<1>4. QED
  BY <1>2, <1>3

LEMMA JobMoves ==
  ASSUME JobInv, NEW j \in Jobs, NEW at \in {"idle", "send", "mark"}, NEW todo \in Seq(Ids),
         at = "mark" => todo # <<>>, job' = [job EXCEPT ![j] = [at |-> at, todo |-> todo]]
  PROVE  JobInv'
BY DEF JobInv

\* A search that is over, and a change that was read.
LEMMA SearchOver ==
  ASSUME TypeInv, NEW r \in Requests, NEW want \in mix.wants, NEW mesa \in Tables \cup {Nobody},
         work[r].at = "idle", Room, Search(r, want, mesa), UNCHANGED <<mix, res>>
  PROVE  Room_' /\ WorkInv'
<1> DEFINE w == [Idle EXCEPT !.at = "insert", !.want = want, !.mesa = mesa, !.saw = Len(res)]
<1>1. Room_ /\ WorkInv /\ Rest /\ work' = [work EXCEPT ![r] = w] /\ want \in Wants
  BY Parts, MixFacts DEF Search, Rest
<1>2. /\ Len(res) \in Nat /\ Len(res') = Len(res) /\ DOMAIN res' = DOMAIN res /\ mix.bookings \in Nat
      /\ Len(res') \in Nat /\ Len(res) <= Len(res') /\ DOMAIN res \subseteq DOMAIN res'
  BY <1>1, MixFacts, ReservationAssumption DEF Room_, Rest
<1>3. /\ DOMAIN w = DOMAIN Idle /\ w.at = "insert" /\ w.want = want /\ w.mesa = mesa
      /\ w.saw = Len(res) /\ w.row = 0 /\ w.writes = <<>>
  BY DEF Idle
<1>4. Shaped(w)'
  BY <1>1, <1>2, <1>3, NothingWritten DEF Shaped, Idle
<1>5. WorkInv'
  BY <1>1, <1>2, <1>4, WorkMoves
<1>6. Cardinality(Inserting') = Cardinality(Inserting) + 1
  BY <1>1, <1>3, Enters
<1>7. Len(res) + Cardinality(Inserting) < mix.bookings
  BY DEF Room, Inserting
<1>8. QED
  BY <1>1, <1>2, <1>5, <1>6, <1>7, InsertingIsFinite DEF Room_

LEMMA ReadOver ==
  ASSUME TypeInv, NEW r \in Requests, NEW i \in DOMAIN res, NEW f, Writes(f), Read(r, i, f)
  PROVE  Room_' /\ WorkInv' /\ JobInv' /\ Rest'
<1> DEFINE w == [Idle EXCEPT !.at = "write", !.row = i, !.writes = f]
<1>1. /\ Room_ /\ WorkInv /\ JobInv /\ Rest /\ work' = [work EXCEPT ![r] = w] /\ UNCHANGED <<mix, res>>
      /\ work[r].at = "idle"
  BY Parts DEF Read
<1>2. /\ Len(res) \in Nat /\ Len(res') = Len(res) /\ DOMAIN res' = DOMAIN res
      /\ Len(res') \in Nat /\ Len(res) <= Len(res') /\ DOMAIN res \subseteq DOMAIN res'
  BY <1>1 DEF Room_
<1>3. /\ DOMAIN w = DOMAIN Idle /\ w.at = "write" /\ w.want = Nobody /\ w.mesa = Nobody
      /\ w.saw = 0 /\ w.row = i /\ w.writes = f
  BY DEF Idle
<1>4. Shaped(w)'
  BY <1>1, <1>2, <1>3 DEF Shaped, Idle, Writes
<1>5. WorkInv'
  BY <1>1, <1>2, <1>4, WorkMoves
<1>6. Inserting' = Inserting
  BY <1>1, <1>3 DEF Inserting, WorkInv
<1>7. Room_'
  BY <1>1, <1>6 DEF Room_
<1>8. JobInv' /\ Rest'
  BY <1>1, MixFacts DEF Read, JobInv, Rest
<1>9. QED
  BY <1>5, <1>7, <1>8

LEMMA Released ==
  ASSUME NEW who, lock \in [Ids -> Requests \cup Jobs \cup {Nobody}], Release(who)
  PROVE  lock' \in [Ids -> Requests \cup Jobs \cup {Nobody}]
BY DEF Release

LEMMA Faulted == ASSUME NEW f, faults \in 0 .. MaxFaults, Fault(f) PROVE faults' \in 0 .. MaxFaults /\ faults' # 0
BY ReservationAssumption DEF Fault

\* What a job has left is a list of reservations.
LEMMA TodoList ==
  ASSUME TypeInv, NEW now \in Hours, NEW todo \in Sorted(Due(now))
  PROVE  /\ todo \in Seq(Ids) /\ IsInjective(todo)
         /\ \A n \in DOMAIN todo : todo[n] \in DOMAIN res /\ ~res[todo[n]].reminded
<1>1. Room_ /\ Rest
  BY Parts
<1>2. DOMAIN res \subseteq Ids /\ DOMAIN res = 1 .. Len(res) /\ Len(res) \in Nat
  <2>1. Len(res) \in Nat /\ Len(res) <= mix.bookings
    BY DEF TypeInv, TypeOK
  <2>2. QED
    BY <1>1, <2>1, MixFacts, ReservationAssumption DEF Ids, Rest, Room_
<1>3. Due(now) \subseteq DOMAIN res /\ \A i \in Due(now) : ~res[i].reminded
  BY DEF Due
<1>4. Cardinality(Due(now)) \in Nat
  <2>1. IsFiniteSet(1 .. Len(res))
    BY <1>2, FS_Interval
  <2>2. IsFiniteSet(Due(now))
    BY <1>2, <1>3, <2>1, FS_Subset
  <2>3. QED
    BY <2>2, FS_CardinalityType
<1>5. todo \in [1 .. Cardinality(Due(now)) -> Due(now)] /\ IsInjective(todo)
  BY DEF Sorted
<1>6. todo \in Seq(Due(now))
  BY <1>4, <1>5
<1>7. todo \in Seq(Ids)
  BY <1>2, <1>3, <1>4, <1>5
<1>8. QED
  BY <1>3, <1>5, <1>7

LEMMA TypeInit == Init => TypeInv
<1> SUFFICES ASSUME Init PROVE TypeInv
  OBVIOUS
<1>1. res = <<>> /\ Len(res) = 0 /\ DOMAIN res = {}
  BY DEF Init
<1>2. WorkInv
  BY <1>1, IdleShaped DEF Init, WorkInv
<1>3. Inserting = {}
  BY DEF Init, Inserting, Idle
<1>4. Room_
  BY <1>1, <1>3, FS_EmptySet, MixFacts, ReservationAssumption DEF Init, Room_
<1>5. JobInv
  BY DEF Init, JobInv, NoJob
<1>6. Rest
  <2>1. mix \in Mixes /\ mix.changes \in Nat /\ MaxScans \in Nat /\ MaxFaults \in Nat
    BY MixFacts, ReservationAssumption DEF Init
  <2>2. lock \in [Ids -> Requests \cup Jobs \cup {Nobody}] /\ reminders \in [Ids -> Nat]
    BY DEF Init
  <2>3. edits = 0 /\ scans = 0 /\ faults = 0 /\ raced = {} /\ moved = {} /\ overlapped = FALSE
    BY DEF Init
  <2>4. edits \in 0 .. mix.changes /\ scans \in 0 .. MaxScans /\ faults \in 0 .. MaxFaults
    BY <2>1, <2>3
  <2>5. raced \subseteq Ids /\ moved \subseteq Ids /\ overlapped \in BOOLEAN
    BY <2>3
  <2>6. QED
    BY <2>1, <2>2, <2>4, <2>5 DEF Rest
<1>7. QED
  BY <1>2, <1>4, <1>5, <1>6, Parts

LEMMA TypeStep == TypeInv /\ [Next]_vars => TypeInv'
<1> SUFFICES ASSUME TypeInv, [Next]_vars PROVE TypeInv'
  OBVIOUS
<1> SUFFICES Room_' /\ WorkInv' /\ JobInv' /\ Rest'
  BY Parts, PTL
<1>a. Room_ /\ WorkInv /\ JobInv /\ Rest
  BY Parts
<1>b. Len(res) \in Nat /\ DOMAIN res = 1 .. Len(res) /\ mix.bookings \in 0 .. MaxBookings
  BY <1>a, MixFacts DEF Room_, Rest
<1>c. DOMAIN res \subseteq Ids
  <2>1. Len(res) <= mix.bookings
    BY DEF TypeInv, TypeOK
  <2>2. QED
    BY <1>b, <2>1, ReservationAssumption DEF Ids
<1>1. ASSUME NEW r \in Requests, CommitNew(r) PROVE Room_' /\ WorkInv' /\ JobInv' /\ Rest'
  <2> DEFINE new == Row(work[r].want, work[r].mesa)
  <2>1. /\ work[r].at = "insert" /\ res' = Append(res, new) /\ work' = [work EXCEPT ![r] = Idle]
        /\ mix' = mix
    BY <1>1 DEF CommitNew
  <2>2. Shaped(work[r])
    BY <1>a DEF WorkInv
  <2>3. new \in Rows
    BY <2>1, <2>2, NewRow DEF Shaped
  <2>4. /\ res' \in Seq(Rows) /\ Len(res') = Len(res) + 1 /\ DOMAIN res' = 1 .. Len(res) + 1
    BY <1>a, <2>1, <2>3 DEF Room_
  <2>5. Cardinality(Inserting') = Cardinality(Inserting) - 1
    BY <1>a, <2>1, Leaves DEF Idle
  <2>6. Room_'
    BY <1>a, <1>b, <2>1, <2>4, <2>5, InsertingIsFinite DEF Room_
  <2>7. Len(res') \in Nat /\ Len(res) <= Len(res') /\ DOMAIN res \subseteq DOMAIN res'
    BY <1>b, <2>4
  <2>8. Shaped(Idle)'
    BY <2>7, IdleShaped DEF Shaped, Idle
  <2>9. WorkInv'
    BY <1>a, <1>b, <2>1, <2>7, <2>8, WorkMoves
  <2>10. Len(res) + 1 \in Ids
    <3>1. Cardinality(Inserting) \in Nat /\ Cardinality(Inserting') \in Nat
      <4>1. Inserting' \subseteq Inserting
        BY <1>a, <2>1, Leaves DEF Idle
      <4>2. QED
        BY <4>1, InsertingIsFinite, FS_Subset, FS_CardinalityType
    <3>2. QED
      BY <1>a, <1>b, <2>5, <3>1, ReservationAssumption DEF Room_, Ids
  <2>11. QED
    BY <1>1, <1>a, <2>6, <2>9, <2>10 DEF CommitNew, JobInv, Rest
<1>2. ASSUME NEW r \in Requests, Write(r) PROVE Room_' /\ WorkInv' /\ JobInv' /\ Rest'
  <2> DEFINE w == [work[r] EXCEPT !.at = "commit"]
  <2>1. work' = [work EXCEPT ![r] = w] /\ work[r].at = "write" /\ UNCHANGED <<mix, res>>
    BY <1>2 DEF Write
  <2>2. Shaped(work[r])
    BY <1>a DEF WorkInv
  <2>3. /\ DOMAIN w = DOMAIN Idle /\ w.at = "commit" /\ w.want = work[r].want /\ w.mesa = work[r].mesa
        /\ w.saw = work[r].saw /\ w.row = work[r].row /\ w.writes = work[r].writes
    BY <2>2 DEF Shaped, Idle
  <2>4. Shaped(w)'
    BY <2>1, <2>2, <2>3 DEF Shaped, Idle, Writes
  <2>5. WorkInv'
    <3>1. Len(res') \in Nat /\ Len(res) <= Len(res') /\ DOMAIN res \subseteq DOMAIN res'
      BY <1>b, <2>1
    <3>2. QED
      BY <1>a, <1>b, <2>1, <2>4, <3>1, WorkMoves
  <2>6. Inserting' = Inserting
    BY <1>a, <2>1, <2>3 DEF Inserting, WorkInv
  <2>7. work[r].row \in Ids
    BY <1>c, <2>1, <2>2 DEF Shaped
  <2>8. QED
    BY <1>2, <1>a, <2>5, <2>6 DEF Write, Room_, JobInv, Rest
<1>3. ASSUME NEW r \in Requests, CommitEdit(r) PROVE Room_' /\ WorkInv' /\ JobInv' /\ Rest'
  <2> DEFINE i == work[r].row
             new == Updated(res[i], work[r].writes)
  <2>1. /\ work[r].at = "commit" /\ res' = [res EXCEPT ![i] = new]
        /\ moved' \in {moved, moved \cup {i}} /\ work' = [work EXCEPT ![r] = Idle] /\ mix' = mix
    BY <1>3 DEF CommitEdit
  <2>2. Shaped(work[r])
    BY <1>a DEF WorkInv
  <2>3. i \in DOMAIN res /\ i \in Ids
    BY <1>c, <2>1, <2>2 DEF Shaped
  <2>4. new \in Rows
    BY <1>a, <2>2, <2>3, UpdatedRow DEF Shaped, Room_
  <2>5. res' \in Seq(Rows) /\ Len(res') = Len(res)
    BY <1>a, <2>1, <2>3, <2>4 DEF Room_
  <2>6. Room_' /\ WorkInv'
    BY <2>1, <2>5, RequestEnds
  <2>7. JobInv' /\ Rest'
    BY <1>3, <1>a, <2>1, <2>3, Released DEF CommitEdit, JobInv, Rest
  <2>8. QED
    BY <2>6, <2>7
<1>4. ASSUME NEW r \in Requests, RequestFails(r) PROVE Room_' /\ WorkInv' /\ JobInv' /\ Rest'
  <2>1. Room_' /\ WorkInv'
    BY <1>4, <1>a, RequestEnds DEF RequestFails, Room_
  <2>2. JobInv' /\ Rest'
    BY <1>4, <1>a, Released, Faulted DEF RequestFails, JobInv, Rest
  <2>3. QED
    BY <2>1, <2>2
<1>5. ASSUME NEW r \in Requests, NEW want \in mix.wants, Choose(r, want)
      PROVE  Room_' /\ WorkInv' /\ JobInv' /\ Rest'
  <2>1. want.mesa \in Tables
    BY <1>5 DEF Choose, Available
  <2>2. Room_' /\ WorkInv'
    BY <1>5, <2>1, SearchOver DEF Choose
  <2>3. QED
    BY <1>5, <1>a, <2>2 DEF Choose, JobInv, Rest
<1>6. ASSUME NEW r \in Requests, NEW want \in mix.wants, Assign(r, want)
      PROVE  Room_' /\ WorkInv' /\ JobInv' /\ Rest'
  <2>1. PICK mesa \in Tables \cup {Nobody} : Search(r, want, mesa)
    BY <1>6 DEF Assign, Available
  <2>2. Room_' /\ WorkInv'
    BY <1>6, <2>1, SearchOver DEF Assign
  <2>3. QED
    BY <1>6, <1>a, <2>2 DEF Assign, JobInv, Rest
<1>7. ASSUME NEW r \in Requests, NEW i \in DOMAIN res, Cancel(r, i)
      PROVE  Room_' /\ WorkInv' /\ JobInv' /\ Rest'
  BY <1>7, ReadOver, CancelWrites DEF Cancel
<1>8. ASSUME NEW r \in Requests, NEW i \in DOMAIN res, NEW e \in mix.edits, Edit(r, i, e)
      PROVE  Room_' /\ WorkInv' /\ JobInv' /\ Rest'
  <2>1. Writes(Differs(res[i], e))
    BY <1>a, EditWrites, MixFacts DEF Rest
  <2>2. QED
    BY <1>8, <2>1, ReadOver DEF Edit
<1>9. ASSUME NEW j \in Jobs, Remind(j) \/ SendFails(j) \/ JobFails(j) \/ \E now \in Hours : Scan(j, now)
      PROVE  Room_' /\ WorkInv' /\ JobInv' /\ Rest'
  <2>0. job[j].todo \in Seq(Ids)
    BY <1>a DEF JobInv
  <2>1. /\ job[j].at = "mark" \/ job[j].todo # <<>> => First(j) \in Ids /\ Tail(job[j].todo) \in Seq(Ids)
    BY <1>a, <2>0 DEF JobInv, First
  <2>2. CASE Send(j)
    <3>1. job' = [job EXCEPT ![j] = [at |-> "mark", todo |-> job[j].todo]] /\ job[j].todo # <<>>
      BY <1>a, <2>2, JobFields DEF Send
    <3>2. JobInv'
      BY <1>a, <2>0, <3>1, JobMoves
    <3>3. QED
      BY <1>a, <1>b, <2>1, <2>2, <3>1, <3>2 DEF Send, Room_, Inserting, WorkInv, Shaped, Writes, Rest
  <2>3. CASE Mark(j)
    <3>1. JobInv'
      BY <1>a, <2>1, <2>3, JobMoves DEF Mark
    <3>2. QED
      BY <1>a, <1>b, <2>1, <2>3, <3>1 DEF Mark, Room_, Inserting, WorkInv, Shaped, Writes, Rest
  <2>4. ASSUME job' = [job EXCEPT ![j] = NoJob] PROVE JobInv'
    BY <1>a, <2>4 DEF JobInv, NoJob
  <2>5. CASE CommitJob(j)
    <3>1. \A i \in DOMAIN res : [res[i] EXCEPT !.reminded = TRUE] \in Rows
      BY <1>a, FlaggedRow DEF Room_
    <3>2. res' \in Seq(Rows) /\ Len(res') = Len(res) /\ DOMAIN res' = DOMAIN res
      BY <1>a, <1>b, <2>5, <3>1 DEF CommitJob, Room_
    <3>3. work' = work /\ mix' = mix /\ Inserting' = Inserting
      BY <2>5 DEF CommitJob, Inserting
    <3>4. Room_' /\ WorkInv'
      BY <1>a, <1>b, <3>2, <3>3, WorkStays DEF Room_
    <3>5. QED
      BY <1>a, <2>4, <2>5, <3>4, Released DEF CommitJob, Rest
  <2>6. CASE DeadlockAbort(j)
    BY <1>a, <1>b, <2>4, <2>6, Released DEF DeadlockAbort, Room_, Inserting, WorkInv, Shaped, Writes, Rest
  <2>7. CASE JobFails(j)
    BY <1>a, <1>b, <2>4, <2>7, Released, Faulted DEF JobFails, Room_, Inserting, WorkInv, Shaped, Writes, Rest
  <2>8. CASE SendFails(j)
    <3>0. /\ job' = [job EXCEPT ![j].todo = Tail(job[j].todo)] /\ job[j].todo # <<>>
          /\ job[j].at = "send"
      BY <2>8 DEF SendFails
    <3>1. job' = [job EXCEPT ![j] = [at |-> "send", todo |-> Tail(job[j].todo)]]
      <4> DEFINE rest == Tail(job[j].todo)
      <4> HIDE DEF rest
      <4>1. job' = [job EXCEPT ![j].todo = rest]
        BY <3>0 DEF rest
      <4>2. job' = [job EXCEPT ![j] = [at |-> job[j].at, todo |-> rest]]
        BY <1>a, <4>1, JobFields
      <4>3. QED
        BY <3>0, <4>2 DEF rest
    <3>2. JobInv'
      BY <1>a, <2>1, <3>0, <3>1, JobMoves
    <3>3. reminders' \in [Ids -> Nat]
      <4>1. First(j) \in Ids /\ reminders \in [Ids -> Nat]
        BY <1>a, <2>1, <3>0 DEF Rest
      <4>2. [reminders EXCEPT ![First(j)] = @ + 1] \in [Ids -> Nat]
        BY <4>1
      <4>3. QED
        BY <2>8, <4>1, <4>2 DEF SendFails
    <3>4. QED
      BY <1>a, <1>b, <2>8, <3>2, <3>3, Faulted DEF SendFails, Room_, Inserting, WorkInv, Shaped, Writes, Rest
  <2>9. ASSUME NEW now \in Hours, Scan(j, now) PROVE Room_' /\ WorkInv' /\ JobInv' /\ Rest'
    <3>1. PICK todo \in Sorted(Due(now)) : job' = [job EXCEPT ![j] = [at |-> "send", todo |-> todo]]
      BY <2>9 DEF Scan
    <3>2. JobInv'
      BY <1>a, <3>1, TodoList, JobMoves
    <3>3. QED
      BY <1>a, <1>b, <2>9, <3>2, ReservationAssumption DEF Scan, Room_, Inserting, WorkInv, Shaped, Writes, Rest
  <2>10. QED
    BY <1>9, <2>2, <2>3, <2>5, <2>6, <2>7, <2>8, <2>9 DEF Remind
<1>10. CASE UNCHANGED vars
  BY <1>10, <1>a DEF vars, Room_, Inserting, WorkInv, Shaped, Writes, JobInv, Rest
<1>11. QED
  BY <1>1, <1>2, <1>3, <1>4, <1>5, <1>6, <1>7, <1>8, <1>9, <1>10 DEF Next, Request

\* The state is one of these: every row is a reservation with times of day, and
\* there is room for it.
THEOREM TypeCorrect == Spec => []TypeOK
<1>1. TypeInv => TypeOK
  BY DEF TypeInv
<1>2. QED
  BY <1>1, TypeInit, TypeStep, PTL DEF Spec

-----------------------------------------------------------------------------
(* TablesBookedOnce.                                                       *)

\* A step that adds no row, and moves none but those it notes.
Undisturbed ==
  /\ Len(res') = Len(res) /\ raced' = raced
  /\ \A i \in DOMAIN res' \ moved' :
       /\ i \in DOMAIN res \ moved
       /\ res'[i].mesa = res[i].mesa /\ res'[i].start = res[i].start /\ res'[i].fin = res[i].fin
       /\ res[i].estado = "CANCELADA" => res'[i].estado = "CANCELADA"
  /\ \A r \in Requests : work'[r].at = "insert" => work'[r] = work[r]

LEMMA StillBookedOnce ==
  ASSUME FreeInv, TablesBookedOnce, Undisturbed
  PROVE  FreeInv' /\ TablesBookedOnce'
<1>1. FreeInv'
  <2> SUFFICES ASSUME NEW r \in Inserting', work'[r].mesa # Nobody, work'[r].saw = Len(res'),
                      NEW i \in DOMAIN res' \ moved'
               PROVE  ~ (res'[i].mesa = work'[r].mesa /\ Occupies(res'[i], work'[r].want.start))
    BY DEF FreeInv
  <2>1. r \in Inserting /\ work'[r] = work[r]
    BY DEF Undisturbed, Inserting
  <2>2. i \in DOMAIN res \ moved /\ work[r].saw = Len(res) /\ work[r].mesa # Nobody
    BY <2>1 DEF Undisturbed
  <2>3. ~ (res[i].mesa = work[r].mesa /\ Occupies(res[i], work[r].want.start))
    BY <2>1, <2>2 DEF FreeInv
  <2>4. QED
    BY <2>1, <2>3 DEF Undisturbed, Occupies
<1>2. TablesBookedOnce'
  <2> SUFFICES ASSUME NEW i \in DOMAIN res' \ (raced' \cup moved'), NEW k \in DOMAIN res' \ (raced' \cup moved'),
                      i # k, Usual(res'[i]), Usual(res'[k])
               PROVE  ~Clash(res'[i], res'[k])
    BY DEF TablesBookedOnce
  <2>1. i \in DOMAIN res \ (raced \cup moved) /\ k \in DOMAIN res \ (raced \cup moved)
    BY DEF Undisturbed
  <2>2. Usual(res[i]) /\ Usual(res[k])
    BY DEF Undisturbed, Usual
  <2>3. ~Clash(res[i], res[k])
    BY <2>1, <2>2 DEF TablesBookedOnce
  <2>4. QED
    BY <2>3 DEF Undisturbed, Clash, Ends
<1>3. QED
  BY <1>1, <1>2

\* What a search finds free, no row that it saw occupies.
LEMMA FoundFree ==
  ASSUME TypeInv, FreeInv, TablesBookedOnce, NEW r \in Requests, NEW want \in mix.wants,
         NEW mesa \in Available(want) \cup {Nobody}, Search(r, want, mesa),
         UNCHANGED <<res, raced, moved>>
  PROVE  FreeInv' /\ TablesBookedOnce'
<1> DEFINE w == [Idle EXCEPT !.at = "insert", !.want = want, !.mesa = mesa, !.saw = Len(res)]
<1>1. WorkInv /\ work' = [work EXCEPT ![r] = w]
  BY Parts DEF Search
<1>2. w.at = "insert" /\ w.want = want /\ w.mesa = mesa
  BY DEF Idle
<1>3. work'[r] = w /\ \A q \in Requests : q # r => work'[q] = work[q]
  BY <1>1 DEF WorkInv
<1>4. FreeInv'
  <2> SUFFICES ASSUME NEW q \in Inserting', work'[q].mesa # Nobody, work'[q].saw = Len(res),
                      NEW i \in DOMAIN res \ moved
               PROVE  ~ (res[i].mesa = work'[q].mesa /\ Occupies(res[i], work'[q].want.start))
    BY DEF FreeInv, Inserting, Occupies, EndOf
  <2>1. CASE q = r
    <3>1. mesa \in Available(want) /\ work'[q].mesa = mesa /\ work'[q].want = want
      BY <1>2, <1>3, <2>1
    <3>2. QED
      BY <3>1 DEF Available
  <2>2. CASE q # r
    <3>1. q \in Inserting /\ work'[q] = work[q]
      BY <1>3, <2>2 DEF Inserting
    <3>2. QED
      BY <3>1 DEF FreeInv
  <2>3. QED
    BY <2>1, <2>2
<1>5. TablesBookedOnce'
  BY DEF TablesBookedOnce, Usual, EndOf, Clash, Ends
<1>6. QED
  BY <1>4, <1>5

\* Two reservations of the usual length that clash, and one of whose tables was
\* searched for: the other occupied it.
LEMMA ClashOccupies ==
  ASSUME NEW a \in Rows, NEW b \in Rows, Usual(a), Usual(b), Clash(a, b) \/ Clash(b, a)
  PROVE  a.mesa = b.mesa /\ b.mesa # Nobody /\ Occupies(a, b.start)
<1>1. a.start \in Int /\ a.fin \in Int /\ b.start \in Int /\ b.fin \in Int
  BY DEF Rows, Hours
<1>2. EndOf(a.start) \in Int /\ EndOf(b.start) \in Int
  BY EndOfHour DEF Rows, Hours
<1>3. a.fin > a.start /\ b.fin > b.start /\ b.fin <= EndOf(b.start)
  BY <1>1, <1>2 DEF Usual
<1>4. Ends(a) = a.fin /\ Ends(b) = b.fin
  BY <1>3 DEF Ends
<1>5. a.start < b.fin /\ b.start < a.fin
  BY <1>4 DEF Clash
<1>6. QED
  BY <1>1, <1>2, <1>3, <1>5 DEF Clash, Occupies

\* The row a request inserts is where nobody is, if it saw all rows.
LEMMA InsertedFree ==
  ASSUME TypeInv, FreeInv, TablesBookedOnce, NEW r \in Requests, CommitNew(r)
  PROVE  FreeInv' /\ TablesBookedOnce'
<1> DEFINE new == Row(work[r].want, work[r].mesa)
           n == Len(res) + 1
<1>1. /\ work[r].at = "insert" /\ res' = Append(res, new) /\ work' = [work EXCEPT ![r] = Idle]
      /\ raced' = (IF work[r].saw = Len(res) THEN raced ELSE raced \cup {n}) /\ moved' = moved
  BY DEF CommitNew
<1>2. Room_ /\ WorkInv /\ Shaped(work[r])
  BY Parts DEF WorkInv
<1>3. Len(res) \in Nat /\ DOMAIN res = 1 .. Len(res) /\ new \in Rows
  BY <1>1, <1>2, NewRow DEF Room_, Shaped
<1>4. /\ Len(res') = n /\ DOMAIN res' = DOMAIN res \cup {n} /\ res'[n] = new /\ n \notin DOMAIN res
      /\ \A i \in DOMAIN res : res'[i] = res[i]
  BY <1>1, <1>2, <1>3 DEF Room_
<1>5. FreeInv'
  <2>1. ASSUME NEW q \in Inserting' PROVE work'[q].saw # Len(res')
    <3>1. q \in Requests /\ q # r /\ work'[q] = work[q]
      BY <1>1, <1>2, <2>1 DEF Inserting, WorkInv, Idle
    <3>2. work[q].saw \in 0 .. Len(res)
      BY <1>2, <3>1 DEF WorkInv, Shaped
    <3>3. QED
      BY <1>3, <1>4, <3>1, <3>2
  <2>2. QED
    BY <2>1 DEF FreeInv
<1>6. ASSUME NEW i \in DOMAIN res \ moved, n \notin raced', Usual(res[i]), Usual(new)
      PROVE  ~Clash(res[i], new) /\ ~Clash(new, res[i])
  <2>1. work[r].saw = Len(res)
    BY <1>1, <1>6
  <2>2. r \in Inserting /\ new.mesa = work[r].mesa /\ new.start = work[r].want.start
    BY <1>1 DEF Inserting, Row
  <2>3. new.mesa # Nobody => ~ (res[i].mesa = new.mesa /\ Occupies(res[i], new.start))
    BY <2>1, <2>2 DEF FreeInv
  <2>4. res[i] \in Rows
    BY <1>2 DEF Room_
  <2>5. QED
    BY <1>3, <1>6, <2>3, <2>4, ClashOccupies
<1>7. TablesBookedOnce'
  <2> SUFFICES ASSUME NEW i \in DOMAIN res' \ (raced' \cup moved'), NEW k \in DOMAIN res' \ (raced' \cup moved'),
                      i # k, Usual(res'[i]), Usual(res'[k])
               PROVE  ~Clash(res'[i], res'[k])
    BY DEF TablesBookedOnce
  <2>1. raced \subseteq raced' /\ moved' = moved
    BY <1>1
  <2>2. CASE i = n
    BY <1>4, <1>6, <2>1, <2>2
  <2>3. CASE k = n
    BY <1>4, <1>6, <2>1, <2>3
  <2>4. CASE i # n /\ k # n
    <3>1. /\ i \in DOMAIN res \ (raced \cup moved) /\ k \in DOMAIN res \ (raced \cup moved)
          /\ res'[i] = res[i] /\ res'[k] = res[k]
      BY <1>4, <2>1, <2>4
    <3>2. QED
      BY <3>1 DEF TablesBookedOnce
  <2>5. QED
    BY <2>2, <2>3, <2>4
<1>8. QED
  BY <1>5, <1>7

LEMMA BookedStep ==
  TypeInv /\ FreeInv /\ TablesBookedOnce /\ [Next]_vars => FreeInv' /\ TablesBookedOnce'
<1> SUFFICES ASSUME TypeInv, FreeInv, TablesBookedOnce, [Next]_vars PROVE FreeInv' /\ TablesBookedOnce'
  OBVIOUS
<1>a. Room_ /\ WorkInv
  BY Parts
<1>b. ASSUME UNCHANGED <<res, raced, moved>>, \A r \in Requests : work'[r].at = "insert" => work'[r] = work[r]
      PROVE  Undisturbed
  BY <1>b DEF Undisturbed
<1>c. ASSUME NEW r \in Requests, work' = [work EXCEPT ![r] = Idle]
      PROVE  \A q \in Requests : work'[q].at = "insert" => work'[q] = work[q]
  BY <1>a, <1>c DEF WorkInv, Idle
<1>1. ASSUME NEW r \in Requests, CommitNew(r) PROVE FreeInv' /\ TablesBookedOnce'
  BY <1>1, InsertedFree
<1>2. ASSUME NEW r \in Requests, NEW want \in mix.wants, Choose(r, want) \/ Assign(r, want)
      PROVE  FreeInv' /\ TablesBookedOnce'
  <2>1. PICK mesa \in Available(want) \cup {Nobody} : Search(r, want, mesa)
    BY <1>2 DEF Choose, Assign
  <2>2. UNCHANGED <<res, raced, moved>>
    BY <1>2 DEF Choose, Assign
  <2>3. QED
    BY <2>1, <2>2, FoundFree
<1>3. ASSUME NEW r \in Requests, CommitEdit(r) PROVE Undisturbed
  <2> DEFINE i == work[r].row
             new == Updated(res[i], work[r].writes)
  <2>1. /\ work[r].at = "commit" /\ res' = [res EXCEPT ![i] = new] /\ raced' = raced
        /\ moved' = (IF Moves(res[i], new) THEN moved \cup {i} ELSE moved)
        /\ work' = [work EXCEPT ![r] = Idle]
    BY <1>3 DEF CommitEdit
  <2>2. Len(res') = Len(res) /\ DOMAIN res' = DOMAIN res
    BY <1>a, <2>1 DEF Room_
  <2>3. \A k \in DOMAIN res : res'[k] = IF k = i THEN new ELSE res[k]
    BY <1>a, <2>1 DEF Room_
  <2>4. i \notin moved' => /\ new.mesa = res[i].mesa /\ new.start = res[i].start /\ new.fin = res[i].fin
                           /\ res[i].estado = "CANCELADA" => new.estado = "CANCELADA"
    BY <2>1 DEF Moves
  <2>5. moved \subseteq moved'
    BY <2>1
  <2>6. QED
    BY <1>c, <2>1, <2>2, <2>3, <2>4, <2>5 DEF Undisturbed
<1>4. ASSUME NEW r \in Requests, RequestFails(r) PROVE Undisturbed
  BY <1>4, <1>b, <1>c DEF RequestFails
<1>5. ASSUME NEW r \in Requests, NEW i, NEW f, Read(r, i, f) PROVE Undisturbed
  BY <1>5, <1>a, <1>b DEF Read, WorkInv, Idle
<1>6. ASSUME NEW r \in Requests, Write(r) PROVE Undisturbed
  <2>1. Shaped(work[r])
    BY <1>a DEF WorkInv
  <2>2. work'[r].at = "commit" /\ \A q \in Requests : q # r => work'[q] = work[q]
    BY <1>6, <1>a, <2>1 DEF Write, WorkInv, Shaped, Idle
  <2>3. QED
    BY <1>6, <1>b, <2>2 DEF Write
<1>7. ASSUME NEW j \in Jobs, CommitJob(j) PROVE Undisturbed
  <2>1. UNCHANGED <<raced, moved, work>> /\ DOMAIN res' = DOMAIN res /\ Len(res') = Len(res)
    BY <1>7, <1>a DEF CommitJob, Room_
  <2>2. ASSUME NEW i \in DOMAIN res
        PROVE  /\ res'[i].mesa = res[i].mesa /\ res'[i].start = res[i].start /\ res'[i].fin = res[i].fin
               /\ res'[i].estado = res[i].estado
    <3>1. res[i] \in Rows /\ res'[i] \in {res[i], [res[i] EXCEPT !.reminded = TRUE]}
      BY <1>7, <1>a DEF CommitJob, Room_
    <3>2. QED
      BY <3>1 DEF Rows
  <2>3. QED
    BY <2>1, <2>2 DEF Undisturbed
<1>8. ASSUME NEW j \in Jobs,
             \/ Send(j) \/ Mark(j) \/ DeadlockAbort(j) \/ SendFails(j) \/ JobFails(j)
             \/ \E now \in Hours : Scan(j, now)
      PROVE  Undisturbed
  BY <1>8, <1>b DEF Send, Mark, DeadlockAbort, SendFails, JobFails, Scan
<1>9. CASE UNCHANGED vars
  BY <1>9, <1>b, StillBookedOnce DEF vars
<1>10. QED
  BY <1>1, <1>2, <1>3, <1>4, <1>5, <1>6, <1>7, <1>8, <1>9, StillBookedOnce
     DEF Next, Request, Remind, Edit, Cancel

\* create_reservacion: no table is given to two parties at once, whatever else
\* happens, but for reservations whose search missed a commit, that were moved or
\* revived by hand, or that do not end as the search supposed.
THEOREM BookedCorrect == Spec => []TablesBookedOnce
<1>1. Init => FreeInv /\ TablesBookedOnce
  <2> SUFFICES ASSUME Init PROVE FreeInv /\ TablesBookedOnce
    OBVIOUS
  <2>1. Inserting = {} /\ DOMAIN res = {}
    BY DEF Init, Inserting, Idle
  <2>2. QED
    BY <2>1 DEF FreeInv, TablesBookedOnce
<1>2. QED
  BY <1>1, TypeInit, TypeStep, BookedStep, PTL DEF Spec

-----------------------------------------------------------------------------
(* RemindedOnce.                                                           *)

OneJob == \A j, k \in Jobs : Active(j) /\ Active(k) => j = k

Counted == \A i \in Ids : reminders[i] <= 1 /\ (reminders[i] = 1 => Marked(i))

Reminding == OneJob /\ (\A j \in Jobs : Active(j) => Listed(j)) /\ Counted

LEMMA RemindParts == RemindInv <=> (~overlapped /\ faults = 0 => Reminding)
BY DEF RemindInv, Reminding, OneJob, Counted

\* What has nothing to do with reminders: no row or flag is lost, nor a lock of a job.
LEMMA OthersRemind ==
  ASSUME Reminding, UNCHANGED <<job, reminders>>, DOMAIN res \subseteq DOMAIN res',
         \A i \in DOMAIN res : res[i].reminded => res'[i].reminded,
         \A i \in Ids, j \in Jobs : lock[i] = j => lock'[i] = j
  PROVE  Reminding'
<1>1. OneJob'
  BY DEF Reminding, OneJob, Active
<1>2. \A j \in Jobs : Active(j)' => Listed(j)'
  BY DEF Reminding, Listed, Unsent, Active
<1>3. \A i \in Ids : Marked(i) => Marked(i)'
  BY DEF Marked, Active, First
<1>4. Counted'
  BY <1>3 DEF Reminding, Counted
<1>5. QED
  BY <1>1, <1>2, <1>4 DEF Reminding

\* A list and its rest.
LEMMA ListRest ==
  ASSUME NEW s \in Seq(Ids), s # <<>>, IsInjective(s)
  PROVE  /\ Head(s) = s[1] /\ 1 \in DOMAIN s
         /\ Tail(s) \in Seq(Ids) /\ IsInjective(Tail(s))
         /\ \A n \in DOMAIN Tail(s) : n + 1 \in DOMAIN s /\ n + 1 > 1 /\ Tail(s)[n] = s[n + 1]
         /\ \A n \in DOMAIN s : n > 1 => s[n] # s[1]
<1>1. Len(s) \in Nat /\ Len(s) > 0 /\ DOMAIN s = 1 .. Len(s)
  OBVIOUS
<1>2. /\ Tail(s) \in Seq(Ids) /\ Len(Tail(s)) = Len(s) - 1 /\ DOMAIN Tail(s) = 1 .. Len(s) - 1
      /\ \A n \in 1 .. Len(s) - 1 : Tail(s)[n] = s[n + 1]
  BY <1>1
<1>3. \A a, b \in DOMAIN s : s[a] = s[b] => a = b
  BY DEF IsInjective
<1>4. ASSUME NEW a \in DOMAIN Tail(s), NEW b \in DOMAIN Tail(s), Tail(s)[a] = Tail(s)[b] PROVE a = b
  <2>1. a + 1 \in DOMAIN s /\ b + 1 \in DOMAIN s /\ s[a + 1] = s[b + 1]
    BY <1>1, <1>2, <1>4
  <2>2. a \in Int /\ b \in Int
    BY <1>2
  <2>3. QED
    BY <1>3, <2>1, <2>2
<1>5. IsInjective(Tail(s))
  BY <1>4 DEF IsInjective
<1>6. Head(s) = s[1]
  BY <1>1
<1>7. QED
  BY <1>1, <1>2, <1>3, <1>5, <1>6

LEMMA EmptyInjective == IsInjective(<<>>)
BY DEF IsInjective

\* The first of a list is reminded: it was not, and its job marks it next.
LEMMA SendReminds ==
  ASSUME TypeInv, Reminding, NEW j \in Jobs, Send(j) PROVE Reminding'
<1> DEFINE s == job[j].todo
           i == s[1]
<1>1. JobInv /\ Rest
  BY Parts
<1>2. /\ job[j].at = "send" /\ s # <<>> /\ reminders' = [reminders EXCEPT ![First(j)] = @ + 1]
      /\ job' = [job EXCEPT ![j].at = "mark"] /\ UNCHANGED <<res, lock>>
  BY DEF Send
<1>3. job' = [job EXCEPT ![j] = [at |-> "mark", todo |-> s]]
  BY <1>1, <1>2, JobFields
<1>4. /\ job'[j].at = "mark" /\ job'[j].todo = s /\ \A k \in Jobs : k # j => job'[k] = job[k]
  BY <1>1, <1>3 DEF JobInv
<1>5. s \in Seq(Ids) /\ IsInjective(s) /\ Listed(j)
  BY <1>1, <1>2 DEF JobInv, Reminding, Listed, Active
<1>6. First(j) = i /\ 1 \in DOMAIN s /\ i \in Ids /\ i \in DOMAIN res /\ reminders[i] = 0
  <2>1. First(j) = i /\ 1 \in DOMAIN s
    BY <1>2, <1>5, ListRest DEF First
  <2>2. i \in Ids
    BY <1>5, <2>1
  <2>3. 1 \in Unsent(j)
    BY <1>2, <2>1 DEF Unsent
  <2>4. QED
    BY <1>5, <2>1, <2>2, <2>3 DEF Listed
<1>7. reminders' = [reminders EXCEPT ![i] = 1]
  BY <1>2, <1>6
<1>8. \A k \in Jobs : Active(k)' => Active(k)
  BY <1>2, <1>4 DEF Active
<1>9. OneJob'
  BY <1>8 DEF Reminding, OneJob
<1>10. Listed(j)'
  <2>1. \A n \in Unsent(j)' : n \in DOMAIN s /\ n > 1 /\ n \in Unsent(j)
    BY <1>2, <1>4 DEF Unsent
  <2>2. \A n \in Unsent(j)' : s[n] # i /\ s[n] \in Ids /\ reminders[s[n]] = 0
    BY <1>2, <1>5, <2>1, ListRest DEF Listed
  <2>3. \A n \in Unsent(j)' : reminders'[s[n]] = 0
    BY <1>1, <1>7, <2>2 DEF Rest
  <2>4. QED
    BY <1>2, <1>4, <1>5, <2>3 DEF Listed
<1>11. \A k \in Jobs : Active(k)' => k = j
  BY <1>2, <1>8 DEF Reminding, OneJob, Active
<1>12. ASSUME NEW k \in Ids PROVE reminders'[k] <= 1 /\ (reminders'[k] = 1 => Marked(k)')
  <2>1. CASE k = i
    <3>1. Marked(k)'
      BY <1>2, <1>4, <1>6, <2>1 DEF Marked, Active, First
    <3>2. QED
      BY <1>1, <1>7, <2>1, <3>1 DEF Rest
  <2>2. CASE k # i
    <3>1. reminders'[k] = reminders[k] /\ (Marked(k) => Marked(k)')
      <4>1. reminders'[k] = reminders[k]
        BY <1>1, <1>7, <2>2 DEF Rest
      <4>2. \A q \in Jobs : Active(q) => q = j /\ Active(q)'
        BY <1>2, <1>4 DEF Reminding, OneJob, Active
      <4>3. \A q \in Jobs : job[q].at = "mark" => Active(q) /\ q # j
        BY <1>2 DEF Active
      <4>4. QED
        BY <1>2, <4>1, <4>2, <4>3 DEF Marked
    <3>2. QED
      BY <3>1 DEF Reminding, Counted
  <2>3. QED
    BY <2>1, <2>2
<1>13. QED
  BY <1>9, <1>10, <1>11, <1>12 DEF Reminding, Counted

\* Its mark is kept back, and the lock tells.
LEMMA MarkReminds ==
  ASSUME TypeInv, Reminding, NEW j \in Jobs, Mark(j) PROVE Reminding'
<1> DEFINE s == job[j].todo
           i == s[1]
<1>1. JobInv /\ Rest
  BY Parts
<1>2. /\ job[j].at = "mark" /\ lock[First(j)] \in {Nobody, j} /\ lock' = [lock EXCEPT ![First(j)] = j]
      /\ job' = [job EXCEPT ![j] = [at |-> "send", todo |-> Tail(s)]] /\ UNCHANGED <<res, reminders>>
  BY DEF Mark
<1>3. s \in Seq(Ids) /\ s # <<>> /\ Listed(j) /\ IsInjective(s)
  BY <1>1, <1>2 DEF JobInv, Reminding, Listed, Active
<1>4. First(j) = i /\ 1 \in DOMAIN s /\ i \in Ids
  BY <1>3, ListRest DEF First
<1>5. /\ job'[j].at = "send" /\ job'[j].todo = Tail(s) /\ \A k \in Jobs : k # j => job'[k] = job[k]
  BY <1>1, <1>2 DEF JobInv
<1>6. \A k \in Jobs : Active(k)' <=> Active(k)
  BY <1>2, <1>5 DEF Active
<1>7. OneJob' /\ \A k \in Jobs : Active(k) => k = j
  BY <1>2, <1>6 DEF Reminding, OneJob, Active
<1>8. Listed(j)'
  <2>1. \A n \in DOMAIN Tail(s) : n + 1 \in Unsent(j) /\ Tail(s)[n] = s[n + 1]
    BY <1>3, ListRest DEF Unsent
  <2>2. \A n \in Unsent(j)' : n \in DOMAIN Tail(s)
    BY <1>5 DEF Unsent
  <2>3. \A n \in DOMAIN Tail(s) : Tail(s)[n] \in DOMAIN res /\ reminders[Tail(s)[n]] = 0
    BY <1>3, <2>1, ListRest DEF Listed
  <2>4. IsInjective(Tail(s))
    BY <1>3, ListRest
  <2>5. QED
    BY <1>2, <1>5, <2>2, <2>3, <2>4 DEF Listed
<1>9. ASSUME NEW k \in Ids, Marked(k) PROVE Marked(k)'
  <2>1. lock[k] = j \/ i = k => lock'[k] = j
    BY <1>1, <1>2, <1>4 DEF Rest
  <2>2. \A q \in Jobs : Active(q) => q = j
    BY <1>7
  <2>3. QED
    BY <1>2, <1>4, <1>6, <1>9, <2>1, <2>2 DEF Marked
<1>10. Counted'
  BY <1>2, <1>9 DEF Reminding, Counted
<1>11. QED
  BY <1>6, <1>7, <1>8, <1>10 DEF Reminding

\* What the job sent and marked is flagged; it was the only one.
LEMMA CommitReminds ==
  ASSUME TypeInv, Reminding, NEW j \in Jobs, CommitJob(j) PROVE Reminding'
<1>1. JobInv /\ Rest
  BY Parts
<1>2. /\ job[j].at = "send" /\ job' = [job EXCEPT ![j] = NoJob] /\ reminders' = reminders
      /\ res' = [i \in DOMAIN res |-> IF lock[i] = j THEN [res[i] EXCEPT !.reminded = TRUE] ELSE res[i]]
  BY DEF CommitJob
<1>3. \A k \in Jobs : Active(k) => k = j
  BY <1>2 DEF Reminding, OneJob, Active
<1>4. \A k \in Jobs : ~Active(k)'
  BY <1>1, <1>2, <1>3 DEF JobInv, Active, NoJob
<1>5. ASSUME NEW i \in Ids, Marked(i) PROVE Marked(i)'
  <2>1. i \in DOMAIN res /\ (res[i].reminded \/ lock[i] = j)
    BY <1>2, <1>3, <1>5 DEF Marked
  <2>2. res[i] \in Rows
    BY <2>1, Parts DEF Room_
  <2>3. res'[i].reminded
    BY <1>2, <2>1, <2>2 DEF Rows
  <2>4. QED
    BY <1>2, <2>1, <2>3 DEF Marked
<1>6. Counted'
  BY <1>2, <1>5 DEF Reminding, Counted
<1>7. QED
  BY <1>4, <1>6 DEF Reminding, OneJob

\* A job that starts alone lists whom nobody reminded: who was is flagged.
LEMMA ScanReminds ==
  ASSUME TypeInv, Reminding, NEW j \in Jobs, NEW now \in Hours, Scan(j, now), ~overlapped'
  PROVE  Reminding'
<1>1. JobInv /\ Rest
  BY Parts
<1>2. PICK todo \in Sorted(Due(now)) : job' = [job EXCEPT ![j] = [at |-> "send", todo |-> todo]]
  BY DEF Scan
<1>3. UNCHANGED <<res, lock, reminders>> /\ \A k \in Jobs : ~Active(k)
  BY DEF Scan, Active
<1>4. /\ job'[j].at = "send" /\ job'[j].todo = todo /\ \A k \in Jobs : k # j => job'[k] = job[k]
  BY <1>1, <1>2 DEF JobInv
<1>5. /\ todo \in Seq(Ids) /\ IsInjective(todo)
      /\ \A n \in DOMAIN todo : todo[n] \in DOMAIN res /\ ~res[todo[n]].reminded
  BY TodoList
<1>6. \A i \in Ids : reminders[i] = 1 => i \in DOMAIN res /\ res[i].reminded
  BY <1>3 DEF Reminding, Counted, Marked
<1>7. \A n \in DOMAIN todo : reminders[todo[n]] = 0
  <2>1. \A n \in DOMAIN todo : todo[n] \in Ids
    BY <1>5
  <2>2. \A i \in Ids : reminders[i] \in Nat /\ reminders[i] <= 1
    BY <1>1 DEF Rest, Reminding, Counted
  <2>3. QED
    BY <1>5, <1>6, <2>1, <2>2
<1>8. Listed(j)'
  BY <1>3, <1>4, <1>5, <1>7 DEF Listed, Unsent
<1>9. \A k \in Jobs : Active(k)' => k = j
  BY <1>3, <1>4 DEF Active
<1>10. Counted'
  BY <1>3, <1>6 DEF Reminding, Counted, Marked
<1>11. QED
  BY <1>8, <1>9, <1>10 DEF Reminding, OneJob

LEMMA RemindStep == TypeInv /\ RemindInv /\ [Next]_vars => RemindInv'
<1> SUFFICES ASSUME TypeInv, RemindInv, [Next]_vars PROVE RemindInv'
  OBVIOUS
<1> SUFFICES ASSUME ~overlapped', faults' = 0 PROVE Reminding'
  BY DEF RemindInv, Reminding, OneJob, Counted
<1>a. Room_ /\ WorkInv /\ JobInv /\ Rest
  BY Parts
<1>b. ~overlapped /\ faults = 0 /\ \A f : ~Fault(f)
  <2>1. faults \in Nat /\ \A f : ~Fault(f)
    BY <1>a, Faulted DEF Rest
  <2>2. overlapped => overlapped'
    BY DEF Next, Request, Remind, CommitNew, Write, CommitEdit, RequestFails, Choose, Assign, Cancel, Edit,
           Read, Send, Mark, CommitJob, DeadlockAbort, SendFails, JobFails, Scan, vars
  <2>3. faults' = faults
    BY <2>1 DEF Next, Request, Remind, CommitNew, Write, CommitEdit, RequestFails, Choose, Assign, Cancel, Edit,
           Read, Send, Mark, CommitJob, DeadlockAbort, SendFails, JobFails, Scan, vars
  <2>4. QED
    BY <2>1, <2>2, <2>3
<1>c. Reminding
  BY <1>b, RemindParts
<1>1. ASSUME NEW r \in Requests, CommitNew(r) PROVE Reminding'
  <2> DEFINE new == Row(work[r].want, work[r].mesa)
  <2>1. new \in Rows
    BY <1>a, <1>1, NewRow DEF CommitNew, WorkInv, Shaped
  <2>2. DOMAIN res \subseteq DOMAIN res' /\ \A i \in DOMAIN res : res'[i] = res[i]
    BY <1>a, <1>1, <2>1 DEF CommitNew, Room_
  <2>3. QED
    BY <1>1, <1>c, <2>2, OthersRemind DEF CommitNew
<1>2. ASSUME NEW r \in Requests, CommitEdit(r) PROVE Reminding'
  <2> DEFINE i == work[r].row
             new == Updated(res[i], work[r].writes)
  <2>1. work[r].at = "commit" /\ res' = [res EXCEPT ![i] = new] /\ Release(r) /\ UNCHANGED <<job, reminders>>
    BY <1>2 DEF CommitEdit
  <2>2. Shaped(work[r]) /\ i \in DOMAIN res
    BY <1>a, <2>1 DEF WorkInv, Shaped
  <2>3. new.reminded = res[i].reminded
    BY <1>a, <2>2, UpdatedRow DEF Shaped, Room_
  <2>4. DOMAIN res' = DOMAIN res /\ \A k \in DOMAIN res : res'[k].reminded = res[k].reminded
    BY <1>a, <2>1, <2>3 DEF Room_
  <2>5. \A k \in Ids, j \in Jobs : lock[k] = j => lock'[k] = j
    BY <2>1, ReservationAssumption DEF Release
  <2>6. QED
    BY <1>c, <2>1, <2>4, <2>5, OthersRemind
<1>3. ASSUME NEW r \in Requests, Write(r) PROVE Reminding'
  <2>1. lock[work[r].row] = Nobody /\ lock' = [lock EXCEPT ![work[r].row] = r] /\ UNCHANGED <<res, job, reminders>>
    BY <1>3 DEF Write
  <2>2. \A k \in Ids, j \in Jobs : lock[k] = j => lock'[k] = j
    BY <1>a, <2>1, ReservationAssumption DEF Rest
  <2>3. QED
    BY <1>c, <2>1, <2>2, OthersRemind
<1>4. ASSUME UNCHANGED <<res, lock, job, reminders>> PROVE Reminding'
  BY <1>4, <1>c, OthersRemind
<1>5. ASSUME NEW r \in Requests,
             \/ \E want \in mix.wants : Choose(r, want) \/ Assign(r, want)
             \/ \E i \in DOMAIN res : Cancel(r, i) \/ \E e \in mix.edits : Edit(r, i, e)
      PROVE  Reminding'
  BY <1>4, <1>5 DEF Choose, Assign, Cancel, Edit, Read
<1>6. ASSUME NEW j \in Jobs, NEW now \in Hours, Scan(j, now) PROVE Reminding'
  BY <1>6, <1>c, ScanReminds
<1>7. ASSUME NEW j \in Jobs, DeadlockAbort(j) PROVE FALSE
  <2>1. PICK k \in Jobs \ {j} : WaitsFor(j, k) /\ WaitsFor(k, j)
    BY <1>7 DEF DeadlockAbort
  <2>2. Active(j) /\ Active(k)
    BY <2>1 DEF WaitsFor, Active
  <2>3. QED
    BY <1>c, <2>1, <2>2 DEF Reminding, OneJob
<1>8. ASSUME NEW j \in Jobs, Remind(j) PROVE Reminding'
  BY <1>7, <1>8, <1>c, SendReminds, MarkReminds, CommitReminds DEF Remind
<1>9. CASE UNCHANGED vars
  BY <1>4, <1>9 DEF vars
<1>10. QED
  BY <1>b, <1>1, <1>2, <1>3, <1>5, <1>6, <1>8, <1>9 DEF Next, Request, RequestFails, SendFails, JobFails

\* A customer is reminded of a reservation once, as long as no two jobs overlap
\* and no send or job fails: the flags that are kept back until the commit are
\* those of rows the job has locked.
THEOREM RemindedCorrect == Spec => []RemindedOnce
<1>1. Init => RemindInv
  <2> SUFFICES ASSUME Init PROVE Reminding
    BY RemindParts
  <2>1. (\A j \in Jobs : ~Active(j)) /\ \A i \in Ids : reminders[i] = 0
    BY DEF Init, Active, NoJob
  <2>2. QED
    BY <2>1 DEF Reminding, OneJob, Counted
<1>2. RemindInv => RemindedOnce
  BY DEF RemindInv, RemindedOnce
<1>3. QED
  BY <1>1, <1>2, TypeInit, TypeStep, RemindStep, PTL DEF Spec

-----------------------------------------------------------------------------
(* Types of the menu.                                                      *)

\* The versions an upload may read are numbers.
LEMMA VersionsAreNumbers == Versions \subseteq Nat
  BY DEF Versions

\* A request that has ended is a request, and names no import.
LEMMA FinishedCall ==
  /\ Unbound("done", <<>>) \in Call
  /\ Unbound("done", <<>>).at = "done"
  /\ Unbound("done", <<>>).import = NoCall
<1>1. <<>> \in Seq(Categories)
  OBVIOUS
<1>2. QED
  BY <1>1 DEF Unbound, Call, Stages

\* A request changes its stage and its cat_map, and stays a request.
LEMMA MovedCall ==
  ASSUME NEW w \in [Calls -> Call], NEW r \in Calls, NEW stage \in Stages,
         NEW map \in SUBSET Categories
  PROVE  /\ [w EXCEPT ![r].at = stage] \in [Calls -> Call]
         /\ [w EXCEPT ![r].map = map] \in [Calls -> Call]
         /\ [w EXCEPT ![r].at = stage, ![r].map = map] \in [Calls -> Call]
<1>1. \A q \in Call : /\ [q EXCEPT !.at = stage] \in Call
                              /\ [q EXCEPT !.map = map] \in Call
  BY DEF Call
<1>2. [w EXCEPT ![r].at = stage] \in [Calls -> Call]
  BY <1>1
<1>3. QED
  BY <1>1, <1>2

\* What MoveTo and a new cat_map leave of the requests.
LEMMA MovedFields ==
  ASSUME NEW w \in [Calls -> Call], NEW r \in Calls, NEW stage \in Stages,
         NEW map \in SUBSET Categories, NEW q \in Calls
  PROVE  /\ [w EXCEPT ![r].at = stage][q].import = w[q].import
         /\ [w EXCEPT ![r].at = stage][q].at = IF q = r THEN stage ELSE w[q].at
         /\ [w EXCEPT ![r].map = map][q].import = w[q].import
         /\ [w EXCEPT ![r].map = map][q].at = w[q].at
         /\ [w EXCEPT ![r].at = stage, ![r].map = map][q].import = w[q].import
         /\ [w EXCEPT ![r].at = stage, ![r].map = map][q].at = IF q = r THEN stage ELSE w[q].at
  BY DEF Call

\* How the steps of a request move it: nobody else moves, and it keeps its
\* import until it has ended.
LEMMA LoadMoves ==
  \A r \in Calls : MenuTypeOK /\ LoadCategoryMap(r) =>
    \A q \in Calls : /\ calls'[q].import = calls[q].import
                       /\ calls'[q].at = IF q = r THEN "items" ELSE calls[q].at
<1> SUFFICES ASSUME NEW r \in Calls, MenuTypeOK, LoadCategoryMap(r), NEW q \in Calls
             PROVE  /\ calls'[q].import = calls[q].import
                    /\ calls'[q].at = IF q = r THEN "items" ELSE calls[q].at
  OBVIOUS
<1>1. "items" \in Stages /\ calls \in [Calls -> Call]
  BY DEF Stages, MenuTypeOK
<1>2. QED
  BY <1>1, MovedFields DEF LoadCategoryMap

LEMMA EnsureMoves ==
  \A r \in Calls : MenuTypeOK /\ EnsureCategory(r) =>
    \A q \in Calls : calls'[q].import = calls[q].import /\ calls'[q].at = calls[q].at
<1> SUFFICES ASSUME NEW r \in Calls, MenuTypeOK, EnsureCategory(r), NEW q \in Calls
             PROVE  calls'[q].import = calls[q].import /\ calls'[q].at = calls[q].at
  OBVIOUS
<1>1. PICK c \in Categories : calls' = [calls EXCEPT ![r].map = @ \cup {c}]
  BY DEF EnsureCategory, Wanted
<1>2. /\ calls \in [Calls -> Call] /\ "items" \in Stages
      /\ calls[r].map \cup {c} \in SUBSET Categories
  BY DEF MenuTypeOK, Call, Stages
<1>3. QED
  BY <1>1, <1>2, MovedFields

LEMMA CommitMoves ==
  \A r \in Calls : MenuTypeOK /\ CommitItems(r) =>
    \A q \in Calls :
      /\ calls'[q].import = calls[q].import
      /\ calls'[q].at = IF q # r THEN calls[q].at
                        ELSE IF calls[r].import = NoCall THEN "done" ELSE "mark"
<1> SUFFICES ASSUME NEW r \in Calls, MenuTypeOK, CommitItems(r), NEW q \in Calls
             PROVE  /\ calls'[q].import = calls[q].import
                    /\ calls'[q].at = IF q # r THEN calls[q].at
                                      ELSE IF calls[r].import = NoCall THEN "done" ELSE "mark"
  OBVIOUS
<1>1. calls \in [Calls -> Call] /\ "mark" \in Stages /\ {} \in SUBSET Categories
  BY DEF MenuTypeOK, Stages
<1>2. CASE calls[r].import = NoCall
  BY <1>1, <1>2, FinishedCall DEF CommitItems, Finish
<1>3. CASE calls[r].import # NoCall
  <2>1. calls' = [calls EXCEPT ![r].at = "mark"]
    BY <1>3 DEF CommitItems, MoveTo
  <2>2. QED
    BY <1>1, <1>3, <2>1, MovedFields
<1>4. QED
  BY <1>2, <1>3

LEMMA MarkMoves ==
  \A r \in Calls : MenuTypeOK /\ MarkConfirmed(r) =>
    /\ \A q \in Calls \ {r} : calls'[q] = calls[q]
    /\ \/ /\ calls'[r].at = "point" /\ calls'[r].import = calls[r].import
          /\ calls[r].import \in Files
       \/ calls'[r].at = "done" /\ calls'[r].import = NoCall
<1> SUFFICES ASSUME NEW r \in Calls, MenuTypeOK, MarkConfirmed(r)
             PROVE  /\ \A q \in Calls \ {r} : calls'[q] = calls[q]
                    /\ \/ /\ calls'[r].at = "point" /\ calls'[r].import = calls[r].import
                          /\ calls[r].import \in Files
                       \/ calls'[r].at = "done" /\ calls'[r].import = NoCall
  OBVIOUS
<1>1. calls \in [Calls -> Call] /\ "point" \in Stages /\ {} \in SUBSET Categories
  BY DEF MenuTypeOK, Stages
<1>2. CASE calls' = [calls EXCEPT ![r].at = "point"] /\ calls[r].import \in Files
  BY <1>1, <1>2, MovedFields
<1>3. CASE Finish(r)
  BY <1>1, <1>3, FinishedCall DEF Finish
<1>4. QED
  BY <1>2, <1>3 DEF MarkConfirmed, MoveTo

\* Every row, request and pointer keeps its domain; the official file is one
\* that was kept.
THEOREM MenuTypeCorrect == MenuSpec => [](MenuTypeOK /\ CallInv)
<1> USE NoCallAssumption, MenusAssumption
    DEF NoCallAssumption, MenusAssumption, MenuRow, At
<1>1. MenuInit => MenuTypeOK /\ CallInv
  BY DEF MenuInit, MenuTypeOK, CallInv, Unbound, Call, Stages
<1>2. MenuTypeOK /\ CallInv /\ [MenuNext]_menuVars => MenuTypeOK'
  <2> SUFFICES ASSUME MenuTypeOK, CallInv, [MenuNext]_menuVars PROVE MenuTypeOK'
    OBVIOUS
  <2> USE FinishedCall DEF MenuTypeOK, MoveTo, Finish, Rollback
  <2>1. ASSUME NEW i \in Imports, ReadVersion(i) PROVE MenuTypeOK'
    BY <2>1, VersionsAreNumbers DEF ReadVersion, Recorded
  <2>2. ASSUME NEW i \in Imports, CommitPreview(i) PROVE MenuTypeOK'
    BY <2>2 DEF CommitPreview
  <2>3. ASSUME NEW r \in Calls, NEW i \in Imports, NEW menu \in Menus, NEW o \in BOOLEAN,
               Confirm(r, i, menu, o)
        PROVE  MenuTypeOK'
    BY <2>3 DEF Confirm, Call, Stages
  <2>4. ASSUME NEW r \in Calls, NEW i \in Imports, Refuse(r, i) PROVE MenuTypeOK'
    BY <2>4 DEF Refuse
  <2>5. ASSUME NEW r \in Calls, NEW menu \in Menus, ImportDirectly(r, menu) PROVE MenuTypeOK'
    BY <2>5 DEF ImportDirectly, Call, Stages, Unbound
  <2>6. ASSUME NEW r \in Calls, LoadCategoryMap(r) PROVE MenuTypeOK'
    <3>1. "items" \in Stages
      BY DEF Stages
    <3>2. calls' \in [Calls -> Call]
      BY <2>6, <3>1, MovedCall DEF LoadCategoryMap
    <3>3. QED
      BY <2>6, <3>2 DEF LoadCategoryMap
  <2>7. ASSUME NEW r \in Calls, EnsureCategory(r) PROVE MenuTypeOK'
    <3>1. PICK c \in Categories : /\ inserted' = [inserted EXCEPT ![c] = r]
                                  /\ calls' = [calls EXCEPT ![r].map = @ \cup {c}]
      BY <2>7 DEF EnsureCategory, Wanted
    <3>2. calls[r].map \cup {c} \in SUBSET Categories /\ "items" \in Stages
      BY DEF Call, Stages
    <3>3. calls' \in [Calls -> Call]
      BY <3>1, <3>2, MovedCall
    <3>4. QED
      BY <2>7, <3>1, <3>3 DEF EnsureCategory
  <2>8. ASSUME NEW r \in Calls, DuplicateCategory(r) \/ CategoryDeadlock(r) PROVE MenuTypeOK'
    <3>1. /\ Finish(r) /\ Rollback(r)
          /\ UNCHANGED <<category, import, official, created, earlier, doubtful>>
      BY <2>8, Zenon DEF DuplicateCategory, CategoryDeadlock
    <3>2. QED
      BY <3>1
  <2>9. ASSUME NEW r \in Calls, CommitItems(r) PROVE MenuTypeOK'
    <3>1. calls[r].import \in Imports \cup {NoCall}
      BY DEF Call
    <3>2. calls' \in [Calls -> Call]
      <4>1. "mark" \in Stages /\ {} \in SUBSET Categories
        BY DEF Stages
      <4>2. [calls EXCEPT ![r].at = "mark"] \in [Calls -> Call]
        BY <4>1, MovedCall
      <4>3. QED
        BY <2>9, <4>2 DEF CommitItems
    <3>3. created' \in [Imports -> Nat]
      BY <2>9, <3>1 DEF CommitItems
    <3>4. QED
      BY <2>9, <3>2, <3>3 DEF CommitItems
  <2>10. ASSUME NEW r \in Calls, MarkConfirmed(r) PROVE MenuTypeOK'
    <3>1. calls[r].import \in Imports
      BY <2>10 DEF MarkConfirmed, CallInv
    <3>2. calls' \in [Calls -> Call]
      <4>1. "point" \in Stages /\ {} \in SUBSET Categories
        BY DEF Stages
      <4>2. [calls EXCEPT ![r].at = "point"] \in [Calls -> Call]
        BY <4>1, MovedCall
      <4>3. QED
        BY <2>10, <4>2 DEF MarkConfirmed
    <3>3. QED
      BY <2>10, <3>1, <3>2 DEF MarkConfirmed
  <2>11. ASSUME NEW r \in Calls, UpdateOfficialMenuPdf(r) PROVE MenuTypeOK'
    BY <2>11 DEF UpdateOfficialMenuPdf, CallInv
  <2>12. ASSUME NEW r \in Calls, Crash(r) PROVE MenuTypeOK'
    <3>1. doubtful' \subseteq Imports
      BY <2>12 DEF Crash, CallInv
    <3>2. QED
      BY <2>12, <3>1 DEF Crash
  <2>13. ASSUME NEW c \in Categories, AddCategory(c) \/ DeleteCategory(c) PROVE MenuTypeOK'
    BY <2>13 DEF AddCategory, DeleteCategory
  <2>14. CASE ClearOfficial \/ UNCHANGED menuVars
    BY <2>14 DEF ClearOfficial, menuVars
  <2>15. QED
    BY <2>1, <2>2, <2>3, <2>4, <2>5, <2>6, <2>7, <2>8, <2>9, <2>10, <2>11, <2>12, <2>13,
       <2>14 DEF MenuNext, CallStep
<1>3. MenuTypeOK /\ CallInv /\ [MenuNext]_menuVars => CallInv'
  <2> SUFFICES ASSUME MenuTypeOK, CallInv, [MenuNext]_menuVars PROVE CallInv'
    OBVIOUS
  <2> USE FinishedCall DEF MenuTypeOK, CallInv, MoveTo, Finish,
                              Recorded, Confirmed
  <2>1. ASSUME NEW i \in Imports, ReadVersion(i) PROVE CallInv'
    BY <2>1 DEF ReadVersion
  <2>2. ASSUME NEW i \in Imports, CommitPreview(i) PROVE CallInv'
    BY <2>2 DEF CommitPreview
  <2>3. ASSUME NEW r \in Calls, NEW i \in Imports, NEW menu \in Menus, NEW o \in BOOLEAN,
               Confirm(r, i, menu, o)
        PROVE  CallInv'
    BY <2>3 DEF Confirm
  <2>4. ASSUME NEW r \in Calls, NEW i \in Imports, Refuse(r, i) PROVE CallInv'
    BY <2>4 DEF Refuse
  <2>5. ASSUME NEW r \in Calls, NEW menu \in Menus, ImportDirectly(r, menu)
        PROVE  CallInv'
    BY <2>5 DEF ImportDirectly, Unbound
  <2>6. ASSUME NEW r \in Calls, LoadCategoryMap(r) \/ EnsureCategory(r) PROVE CallInv'
    <3>1. UNCHANGED import
      BY <2>6 DEF LoadCategoryMap, EnsureCategory
    <3>2. \A q \in Calls : /\ calls'[q].import = calls[q].import
                             /\ calls'[q].at \in {calls[q].at, "items"}
      <4>1. CASE LoadCategoryMap(r)
        BY <4>1, LoadMoves
      <4>2. CASE EnsureCategory(r)
        BY <4>2, EnsureMoves
      <4>3. QED
        BY <2>6, <4>1, <4>2
    <3>3. QED
      BY <3>1, <3>2
  <2>8. ASSUME NEW r \in Calls,
               DuplicateCategory(r) \/ CategoryDeadlock(r) \/ UpdateOfficialMenuPdf(r) \/ Crash(r)
        PROVE  CallInv'
    <3>1. Finish(r) /\ UNCHANGED import
      BY <2>8 DEF DuplicateCategory, CategoryDeadlock, UpdateOfficialMenuPdf, Crash
    <3>2. QED
      BY <3>1
  <2>9. ASSUME NEW r \in Calls, CommitItems(r) PROVE CallInv'
    <3>1. UNCHANGED import
      BY <2>9 DEF CommitItems
    <3>2. calls[r].import \in Imports \cup {NoCall}
      BY DEF Call
    <3>3. QED
      BY <2>9, <3>1, <3>2, CommitMoves
  <2>10. ASSUME NEW r \in Calls, MarkConfirmed(r) PROVE CallInv'
    <3>1. /\ calls[r].import \in Imports
          /\ import' = [import EXCEPT ![calls[r].import].status = "CONFIRMED"]
      BY <2>10 DEF MarkConfirmed
    <3>2. /\ \A q \in Calls \ {r} : calls'[q] = calls[q]
          /\ calls'[r].at \in {"point", "done"}
          /\ calls'[r].import \in {calls[r].import, NoCall}
          /\ calls'[r].at = "point" => calls'[r].import = calls[r].import /\ calls[r].import \in Files
      BY <2>10, MarkMoves
    <3>3. \A i \in Recorded : i \in Recorded'
      BY <3>1
    <3>4. \A i \in Confirmed \cup {calls[r].import} : i \in Confirmed'
      BY <3>1
    <3>5. QED
      BY <3>1, <3>2, <3>3, <3>4
  <2>11. ASSUME NEW c \in Categories, AddCategory(c) \/ DeleteCategory(c) PROVE CallInv'
    BY <2>11 DEF AddCategory, DeleteCategory
  <2>12. CASE ClearOfficial \/ UNCHANGED menuVars
    BY <2>12 DEF ClearOfficial, menuVars
  <2>13. QED
    BY <2>1, <2>2, <2>3, <2>4, <2>5, <2>6, <2>8, <2>9, <2>10, <2>11, <2>12
       DEF MenuNext, CallStep
<1>4. QED
  BY <1>1, <1>2, <1>3, PTL DEF MenuSpec

-----------------------------------------------------------------------------
(* Products are created once.                                              *)

\* CreateInv is inductive: the check of a second confirm makes the import
\* doubtful, and so does the end of a confirm between its first two commits.
LEMMA CreateCorrect == MenuSpec => []CreateInv
<1> USE NoCallAssumption
    DEF NoCallAssumption, Stages, MenuRow, Call, Unbound, At,
        Recorded, Confirmed, Confirming
<1>1. MenuInit => CreateInv
  BY DEF MenuInit, CreateInv
<1>2. MenuTypeOK /\ CallInv /\ CreateInv /\ [MenuNext]_menuVars => CreateInv'
  <2> SUFFICES ASSUME MenuTypeOK, CallInv, CreateInv, [MenuNext]_menuVars PROVE CreateInv'
    OBVIOUS
  <2> USE DEF MenuTypeOK, CallInv, CreateInv, MoveTo, Finish
  <2>1. ASSUME NEW i \in Imports, ReadVersion(i) PROVE CreateInv'
    BY <2>1 DEF ReadVersion
  <2>2. ASSUME NEW i \in Imports, CommitPreview(i) PROVE CreateInv'
    BY <2>2 DEF CommitPreview
  <2>3. ASSUME NEW r \in Calls, NEW i \in Imports, NEW menu \in Menus, NEW o \in BOOLEAN,
               Confirm(r, i, menu, o)
        PROVE  CreateInv'
    BY <2>3 DEF Confirm
  <2>4. ASSUME NEW r \in Calls, NEW i \in Imports, Refuse(r, i) PROVE CreateInv'
    BY <2>4 DEF Refuse
  <2>5. ASSUME NEW r \in Calls, NEW menu \in Menus, ImportDirectly(r, menu)
        PROVE  CreateInv'
    BY <2>5 DEF ImportDirectly
  <2>6. ASSUME NEW r \in Calls, LoadCategoryMap(r) \/ EnsureCategory(r) PROVE CreateInv'
    <3>1. UNCHANGED <<import, created, doubtful>>
      BY <2>6 DEF LoadCategoryMap, EnsureCategory
    <3>2. \A i \in Imports : Confirming(i)' = Confirming(i)
      <4>1. \A q \in Calls : /\ calls'[q].import = calls[q].import
                            /\ \/ calls'[q].at = calls[q].at
                               \/ calls'[q].at = "items" /\ calls[q].at = "load"
        <5>1. CASE LoadCategoryMap(r)
          BY <5>1, LoadMoves DEF LoadCategoryMap
        <5>2. CASE EnsureCategory(r)
          BY <5>2, EnsureMoves
        <5>3. QED
          BY <2>6, <5>1, <5>2
      <4>2. QED
        BY <4>1
    <3>3. \A q \in Calls : At(q, "mark")' <=> At(q, "mark")
      BY <2>6, LoadMoves, EnsureMoves DEF LoadCategoryMap, EnsureCategory
    <3>4. QED
      BY <3>1, <3>2, <3>3
  <2>7. ASSUME NEW r \in Calls, DuplicateCategory(r) PROVE CreateInv'
    BY <2>7 DEF DuplicateCategory
  <2>8. ASSUME NEW r \in Calls, CategoryDeadlock(r) PROVE CreateInv'
    <3>1. calls[r].at = "items"
      BY <2>8 DEF CategoryDeadlock, Waits
    <3>2. Finish(r) /\ UNCHANGED <<import, created, doubtful>>
      BY <2>8, Zenon DEF CategoryDeadlock
    <3>3. QED
      BY <3>1, <3>2
  <2>9. ASSUME NEW r \in Calls, CommitItems(r) PROVE CreateInv'
    <3>1. CASE calls[r].import = NoCall
      <4>1. Finish(r) /\ UNCHANGED <<import, created, doubtful>> /\ calls[r].at = "items"
        BY <2>9, <3>1 DEF CommitItems
      <4>2. QED
        BY <3>1, <4>1
    <3>2. CASE calls[r].import # NoCall
      <4>1. calls[r].import \in Imports
        BY <3>2 DEF Call
      <4>2. /\ created' = [created EXCEPT ![calls[r].import] = @ + 1]
            /\ UNCHANGED <<import, doubtful>> /\ calls[r].at = "items"
        BY <2>9, <3>2 DEF CommitItems
      <4>3. \A i \in Imports : Confirming(i)' = Confirming(i)
        <5>1. \A q \in Calls : /\ calls'[q].import = calls[q].import
                                 /\ calls'[q].at = IF q # r THEN calls[q].at ELSE "mark"
          BY <2>9, <3>2, CommitMoves
        <5>2. QED
          BY <4>2, <5>1
      <4>4. \A q \in Calls : At(q, "mark")' <=> q = r \/ At(q, "mark")
        BY <2>9, <3>2, CommitMoves
      <4>5. r \in Confirming(calls[r].import)
        BY <4>2
      <4>6. QED
        BY <4>1, <4>2, <4>3, <4>4, <4>5
    <3>3. QED
      BY <3>1, <3>2
  <2>10. ASSUME NEW r \in Calls, MarkConfirmed(r) PROVE CreateInv'
    <3>1. /\ calls[r].import \in Imports /\ calls[r].at = "mark"
          /\ import' = [import EXCEPT ![calls[r].import].status = "CONFIRMED"]
          /\ UNCHANGED <<created, doubtful>>
      BY <2>10 DEF MarkConfirmed
    <3>2. \A i \in Imports : Confirming(i)' = Confirming(i) \ {r}
      <4>1. /\ \A q \in Calls \ {r} : calls'[q] = calls[q]
            /\ calls'[r].at \in {"point", "done"}
        BY <2>10, MarkMoves
      <4>2. QED
        BY <4>1
    <3>3. \A q \in Calls \ {r} : At(q, "mark")' <=> At(q, "mark")
      BY <2>10, MarkMoves
    <3>4. r \in Confirming(calls[r].import)
      BY <3>1
    <3>5. QED
      BY <3>1, <3>2, <3>3, <3>4
  <2>11. ASSUME NEW r \in Calls, UpdateOfficialMenuPdf(r) PROVE CreateInv'
    BY <2>11 DEF UpdateOfficialMenuPdf
  <2>12. ASSUME NEW r \in Calls, Crash(r) PROVE CreateInv'
    BY <2>12 DEF Crash
  <2>13. ASSUME (\E c \in Categories : AddCategory(c) \/ DeleteCategory(c)) \/ ClearOfficial
         PROVE  CreateInv'
    BY <2>13 DEF AddCategory, DeleteCategory, ClearOfficial
  <2>14. CASE UNCHANGED menuVars
    BY <2>14 DEF menuVars
  <2>15. QED
    BY <2>1, <2>2, <2>3, <2>4, <2>5, <2>6, <2>7, <2>8, <2>9, <2>10, <2>11, <2>12, <2>13,
       <2>14 DEF MenuNext, CallStep
<1>3. QED
  BY <1>1, <1>2, MenuTypeCorrect, PTL DEF MenuSpec

\* The products of an import are created exactly once, by the confirm that
\* marks it, for any number of requests and crossing categories
\* (confirm_import, _bulk_create).
THEOREM ProductsCreatedOnce == MenuSpec => []CreatedOnce
<1>1. MenuTypeOK /\ CreateInv => CreatedOnce
  <2> SUFFICES ASSUME MenuTypeOK, CreateInv, NEW i \in Imports \ doubtful
                PROVE  created[i] = IF i \in Confirmed
                                         \/ \E r \in Calls : calls[r].import = i /\ At(r, "mark")
                                    THEN 1 ELSE 0
    BY DEF CreatedOnce
  <2> USE DEF CreateInv, Confirming, At, Confirmed
  <2>1. CASE Confirming(i) = {}
    BY <2>1
  <2>2. CASE Confirming(i) # {}
    BY <2>2
  <2>3. QED
    BY <2>1, <2>2
<1>2. QED
  BY <1>1, MenuTypeCorrect, CreateCorrect, PTL

-----------------------------------------------------------------------------
(* The menu that is sent.                                                  *)

\* VersionInv is inductive: a version is read once and a row, once on record,
\* stays there; the pointer is moved by confirms that have been marked.
LEMMA VersionCorrect == MenuSpec => []VersionInv
<1> USE NoCallAssumption, MenusAssumption
    DEF NoCallAssumption, MenusAssumption, Stages, MenuRow, Call,
        Unbound, At, Recorded, Confirmed
<1>1. MenuInit => VersionInv
  BY DEF MenuInit, VersionInv
<1>2. MenuTypeOK /\ CallInv /\ VersionInv /\ [MenuNext]_menuVars => VersionInv'
  <2> SUFFICES ASSUME MenuTypeOK, CallInv, VersionInv, [MenuNext]_menuVars PROVE VersionInv'
    OBVIOUS
  <2> USE DEF MenuTypeOK, CallInv, VersionInv
  <2>1. ASSUME NEW i \in Imports, ReadVersion(i) PROVE VersionInv'
    BY <2>1, VersionsAreNumbers DEF ReadVersion, NextVersion
  <2>2. ASSUME NEW i \in Imports, CommitPreview(i) PROVE VersionInv'
    BY <2>2 DEF CommitPreview
  <2>3. ASSUME NEW r \in Calls, MarkConfirmed(r) PROVE VersionInv'
    BY <2>3 DEF MarkConfirmed
  <2>4. ASSUME NEW r \in Calls, UpdateOfficialMenuPdf(r) PROVE VersionInv'
    BY <2>4 DEF UpdateOfficialMenuPdf
  <2>5. ASSUME ClearOfficial PROVE VersionInv'
    BY <2>5 DEF ClearOfficial
  <2>6. ASSUME UNCHANGED <<import, official, earlier>> PROVE VersionInv'
    BY <2>6
  <2>7. ASSUME NEW r \in Calls, NEW i \in Imports,
               Refuse(r, i) \/ \E menu \in Menus, o \in BOOLEAN : Confirm(r, i, menu, o)
        PROVE  UNCHANGED <<import, official, earlier>>
    BY <2>7 DEF Refuse, Confirm
  <2>8. ASSUME NEW r \in Calls,
               \/ \E menu \in Menus : ImportDirectly(r, menu)
               \/ LoadCategoryMap(r) \/ EnsureCategory(r) \/ DuplicateCategory(r)
               \/ CategoryDeadlock(r) \/ CommitItems(r) \/ Crash(r)
        PROVE  UNCHANGED <<import, official, earlier>>
    BY <2>8 DEF ImportDirectly, LoadCategoryMap, EnsureCategory, DuplicateCategory,
       CategoryDeadlock, CommitItems, Crash
  <2>9. ASSUME NEW c \in Categories, AddCategory(c) \/ DeleteCategory(c)
        PROVE  UNCHANGED <<import, official, earlier>>
    BY <2>9 DEF AddCategory, DeleteCategory
  <2>10. CASE UNCHANGED menuVars
    BY <2>10, <2>6 DEF menuVars
  <2>11. QED
    BY <2>1, <2>2, <2>3, <2>4, <2>5, <2>6, <2>7, <2>8, <2>9, <2>10 DEF MenuNext, CallStep
<1>3. QED
  BY <1>1, <1>2, MenuTypeCorrect, PTL DEF MenuSpec

\* The agent never sends a file that is not confirmed, nor, with none set as
\* official, one that a later upload has replaced (_get_uploaded_menu_url).
THEOREM ConfirmedMenuServed == MenuSpec => []MenuIsServed
<1>1. MenuTypeOK /\ VersionInv => MenuIsServed
  BY DEF MenuTypeOK, MenuRow, VersionInv, MenuIsServed, MenuSent,
         UploadedMenu, Confirmed, Recorded
<1>2. QED
  BY <1>1, MenuTypeCorrect, VersionCorrect, PTL
=============================================================================
