------------------------- MODULE RubroManifestProofs -------------------------
(***************************************************************************)
(* Theorems about RubroManifest, for every set of processes, editors and   *)
(* turns, every size of the window and every number of faults.             *)
(***************************************************************************)
EXTENDS RubroManifest, TLAPS

-----------------------------------------------------------------------------
(* The versions a process keeps.                                           *)

\* What With returns: sequences no longer than the window, that hold the new
\* snapshot and otherwise only old ones.
LEMMA Keeping ==
  ASSUME NEW s \in Seq(Snapshot), Len(s) <= Window, NEW snap \in Snapshot
  PROVE  /\ With(s, snap) \in Seq(Snapshot) /\ Len(With(s, snap)) <= Window
         /\ snap \in ToSet(With(s, snap))
         /\ ToSet(With(s, snap)) \subseteq ToSet(s) \cup {snap}
<1>1. CASE \E i \in DOMAIN s : s[i].version = snap.version
  <2> DEFINE u == [i \in DOMAIN s |-> IF s[i].version = snap.version THEN snap ELSE s[i]]
  <2>1. With(s, snap) = u
    BY <1>1 DEF With
  <2>2. u \in Seq(Snapshot) /\ Len(u) = Len(s) /\ DOMAIN u = DOMAIN s
    OBVIOUS
  <2>3. PICK i \in DOMAIN s : s[i].version = snap.version
    BY <1>1
  <2>4. u[i] = snap
    BY <2>3
  <2>5. \A k \in DOMAIN s : u[k] \in {snap, s[k]}
    OBVIOUS
  <2> HIDE DEF u
  <2>6. QED
    BY <2>1, <2>2, <2>4, <2>5 DEF ToSet
<1>2. CASE ~ \E i \in DOMAIN s : s[i].version = snap.version
  <2> DEFINE t == Append(s, snap)
  <2>1. With(s, snap) = Kept(t)
    BY <1>2 DEF With
  <2>2. /\ t \in Seq(Snapshot) /\ Len(t) = Len(s) + 1 /\ t[Len(t)] = snap
        /\ \A i \in DOMAIN t : t[i] \in ToSet(s) \cup {snap}
    BY DEF ToSet
  <2> HIDE DEF t
  <2>3. CASE Len(t) <= Window
    <3>1. Kept(t) = t
      BY <2>2, <2>3, ManifestAssumption DEF Kept
    <3>2. QED
      BY <2>1, <2>2, <2>3, <3>1 DEF ToSet
  <2>4. CASE Len(t) > Window
    <3> DEFINE u == SubSeq(t, Len(t) - Window + 1, Len(t))
    <3>1. Kept(t) = u
      BY <2>4 DEF Kept
    <3>2. /\ u \in Seq(Snapshot) /\ Len(u) = Window
          /\ \A i \in 1 .. Window : u[i] = t[Len(t) - Window + i]
      BY <2>2, <2>4, ManifestAssumption
    <3>3. u[Window] = snap
      <4>1. Len(t) \in Nat /\ Len(t) - Window + Window = Len(t) /\ Window \in 1 .. Window
        BY <2>2, ManifestAssumption
      <4>2. QED
        BY <2>2, <3>2, <4>1
    <3>4. \A i \in 1 .. Window : Len(t) - Window + i \in DOMAIN t
      BY <2>2, <2>4, ManifestAssumption
    <3> HIDE DEF u
    <3>5. DOMAIN u = 1 .. Window /\ Window \in DOMAIN u
      BY <3>2, ManifestAssumption
    <3>6. \A i \in DOMAIN u : u[i] \in ToSet(s) \cup {snap}
      BY <2>2, <3>2, <3>4, <3>5
    <3>7. snap \in ToSet(u) /\ ToSet(u) \subseteq ToSet(s) \cup {snap}
      BY <3>3, <3>5, <3>6 DEF ToSet
    <3>8. QED
      BY <2>1, <3>1, <3>2, <3>7, ManifestAssumption
  <2>5. QED
    BY <2>2, <2>3, <2>4, ManifestAssumption
<1>3. QED
  BY <1>1, <1>2
-----------------------------------------------------------------------------
(* Type correctness.                                                       *)

LEMMA MixUsed == ASSUME mix \in Mixes PROVE mix.processes \subseteq Processes
BY ManifestAssumption

LEMMA LoadMoves ==
  ASSUME NEW l \in LoadState, NEW a \in {"idle", "rows", "version"}, NEW n \in Nat
  PROVE  [l EXCEPT !.at = a, !.edition = n] \in LoadState /\ NoLoad \in LoadState
BY DEF LoadState, NoLoad

LEMMA EditMoves ==
  ASSUME NEW e \in EditState, NEW a \in {"idle", "done"} \cup Writing
  PROVE  /\ [e EXCEPT !.at = a] \in EditState
         /\ \A n \in Nat : /\ [e EXCEPT !.at = a, !.read = n] \in EditState
                           /\ [e EXCEPT !.at = a, !.edition = n] \in EditState
         /\ \A p \in Processes : [e EXCEPT !.at = a, !.process = p] \in EditState
BY DEF EditState

LEMMA TurnMoves ==
  ASSUME NEW t \in TurnState,
         NEW a \in {"idle", "begun", "anchored", "composed", "ruled", "saved", "done"}
  PROVE  /\ [t EXCEPT !.at = a] \in TurnState
         /\ \A n \in Nat : [t EXCEPT !.at = a, !.anchor = n] \in TurnState
         /\ \A p \in Processes, n \in Nat :
              [t EXCEPT !.at = a, !.process = p, !.start = n] \in TurnState
         /\ \A S \in SUBSET Nat : [t EXCEPT !.at = a, !.served = S] \in TurnState
BY DEF TurnState

\* What a process has cached is among what it keeps.
Copies ==
  /\ DOMAIN cache = Processes /\ DOMAIN snaps = Processes
  /\ \A p \in Processes :
       /\ cache[p] \in Cached /\ snaps[p] \in Seq(Snapshot) /\ Len(snaps[p]) <= Window
       /\ cache[p].loaded =>
            [version |-> cache[p].version, edition |-> cache[p].edition] \in ToSet(snaps[p])

LEMMA EmptyCopy == Empty \in Cached /\ ~Empty.loaded
BY DEF Empty, Cached

\* What a turn is served are editions.
LEMMA ServedEditions ==
  ASSUME TypeOK, NEW p \in Processes, NEW a PROVE Served(p, a) \in SUBSET Nat
<1>1. cache[p].edition \in Nat
  BY DEF TypeOK, Cached
<1>2. \A s \in ToSet(snaps[p]) : s.edition \in Nat
  <2>1. snaps[p] \in Seq(Snapshot)
    BY DEF TypeOK
  <2>2. ToSet(snaps[p]) \subseteq Snapshot
    BY <2>1 DEF ToSet
  <2>3. QED
    BY <2>2 DEF Snapshot
<1>3. QED
  BY <1>1, <1>2 DEF Served

\* Every process that turns and refreshes name is one.
Named ==
  /\ \A x \in Loaders : load[x].at # "idle" => load[x].process \in Processes
  /\ \A e \in Editors : edit[e].at \in Writing => edit[e].process \in Processes
  /\ \A t \in Turns : turn[t].at \in {"begun", "anchored", "composed", "ruled"} =>
                        turn[t].process \in Processes

TypeInv == TypeOK /\ Named

\* A refresh ends: the process has a copy of the table, under whatever version,
\* or none.
LEMMA CopiesLoaded ==
  ASSUME TypeInv, NEW x \in Loaders, load[x].at # "idle", NEW v \in Nat, Install(x, v)
  PROVE  Copies'
<1> DEFINE p == load[x].process
           snap == [version |-> v, edition |-> load[x].edition]
<1>1. p \in Processes /\ load[x] \in LoadState
  BY DEF TypeInv, Named, TypeOK
<1>2. snap \in Snapshot
  BY <1>1 DEF Snapshot, LoadState
<1>3. /\ cache' = [cache EXCEPT ![p] = [loaded |-> TRUE, version |-> v,
                                        edition |-> load[x].edition]]
      /\ snaps' = [snaps EXCEPT ![p] = With(@, snap)]
  BY DEF Install
<1>4. /\ DOMAIN cache = Processes /\ DOMAIN snaps = Processes
      /\ snaps[p] \in Seq(Snapshot) /\ Len(snaps[p]) <= Window
  BY <1>1 DEF TypeInv, TypeOK
<1>5. /\ With(snaps[p], snap) \in Seq(Snapshot) /\ Len(With(snaps[p], snap)) <= Window
      /\ snap \in ToSet(With(snaps[p], snap))
  BY <1>2, <1>4, Keeping
<1>6. [loaded |-> TRUE, version |-> v, edition |-> load[x].edition] \in Cached
  BY <1>1 DEF Cached, LoadState
<1>7. snaps'[p] = With(snaps[p], snap) /\ \A q \in Processes \ {p} : snaps'[q] = snaps[q]
  BY <1>1, <1>3, <1>4
<1>8. /\ cache'[p].version = v /\ cache'[p].edition = load[x].edition /\ cache'[p] \in Cached
      /\ \A q \in Processes \ {p} : cache'[q] = cache[q]
  BY <1>1, <1>3, <1>4, <1>6
<1>9. DOMAIN cache' = Processes /\ DOMAIN snaps' = Processes
  BY <1>3, <1>4
<1>10. ASSUME NEW q \in Processes
       PROVE  /\ cache'[q] \in Cached /\ snaps'[q] \in Seq(Snapshot) /\ Len(snaps'[q]) <= Window
              /\ cache'[q].loaded =>
                   [version |-> cache'[q].version, edition |-> cache'[q].edition] \in ToSet(snaps'[q])
  <2>1. CASE q = p
    BY <2>1, <1>5, <1>7, <1>8
  <2>2. CASE q # p
    <3>1. cache'[q] = cache[q] /\ snaps'[q] = snaps[q]
      BY <2>2, <1>7, <1>8
    <3>2. QED
      BY <3>1 DEF TypeInv, TypeOK
  <2>3. QED
    BY <2>1, <2>2
<1>11. QED
  BY <1>9, <1>10 DEF Copies

LEMMA CopiesDropped ==
  ASSUME TypeInv, NEW p \in Processes, cache' = [cache EXCEPT ![p] = Empty],
         snaps' = snaps \/ snaps' = [snaps EXCEPT ![p] = <<>>]
  PROVE  Copies'
<1>1. <<>> \in Seq(Snapshot) /\ Len(<<>>) <= Window
  BY ManifestAssumption
<1>2. DOMAIN cache = Processes /\ DOMAIN snaps = Processes
  BY DEF TypeInv, TypeOK
<1>3. cache'[p] = Empty /\ \A q \in Processes \ {p} : cache'[q] = cache[q] /\ snaps'[q] = snaps[q]
  BY <1>2
<1>4. snaps'[p] \in Seq(Snapshot) /\ Len(snaps'[p]) <= Window
  BY <1>1, <1>2 DEF TypeInv, TypeOK
<1>5. ASSUME NEW q \in Processes
      PROVE  /\ cache'[q] \in Cached /\ snaps'[q] \in Seq(Snapshot) /\ Len(snaps'[q]) <= Window
             /\ cache'[q].loaded =>
                  [version |-> cache'[q].version, edition |-> cache'[q].edition] \in ToSet(snaps'[q])
  <2>1. CASE q = p
    BY <2>1, <1>3, <1>4, EmptyCopy
  <2>2. CASE q # p
    BY <2>2, <1>3 DEF TypeInv, TypeOK
  <2>3. QED
    BY <2>1, <2>2
<1>6. QED
  BY <1>2, <1>5 DEF Copies
\* The tables are left alone, and so are the copies.
LEMMA CopiesKept == ASSUME TypeInv, UNCHANGED <<cache, snaps>> PROVE Copies'
BY DEF TypeInv, TypeOK, Copies

LEMMA FaultCounted == ASSUME TypeOK, NEW f, Fault(f) PROVE faults' \in 0 .. MaxFaults
BY ManifestAssumption DEF Fault, TypeOK

\* The parts of the state, and that each keeps its type.
Tables == rows \in Nat /\ version \in Nat /\ raced \in BOOLEAN /\ guessed \in BOOLEAN
Edits == DOMAIN edit = Editors /\ \A e \in Editors :
           edit[e] \in EditState /\ (edit[e].at \in Writing => edit[e].process \in Processes)
Loads == DOMAIN load = Loaders /\ \A x \in Loaders :
           load[x] \in LoadState /\ (load[x].at # "idle" => load[x].process \in Processes)
Serving == {"begun", "anchored", "composed", "ruled"}
Chats ==
  /\ DOMAIN turn = Turns
  /\ \A t \in Turns : turn[t] \in TurnState /\ (turn[t].at \in Serving => turn[t].process \in Processes)
  /\ stored \subseteq [start : Nat, version : Nat \ {None}] /\ clock \in Nat /\ overlapped \in BOOLEAN
Setting == mix \in Mixes /\ faults \in 0 .. MaxFaults

LEMMA Parts == TypeInv <=> Tables /\ Edits /\ Loads /\ Copies /\ Chats /\ Setting
BY DEF TypeInv, TypeOK, Named, Tables, Edits, Loads, Copies, Chats, Setting, Serving

LEMMA PartsAfter ==
  ASSUME Tables', Edits', Loads', Copies', Chats', Setting' PROVE TypeInv'
BY DEF TypeInv, TypeOK, Named, Tables, Edits, Loads, Copies, Chats, Setting, Serving

\* One refresh, one edit, one turn moves on.
LEMMA OneLoad ==
  ASSUME Loads, NEW x \in Loaders, NEW n \in LoadState, n.at # "idle" => n.process \in Processes,
         load' = [load EXCEPT ![x] = n]
  PROVE  Loads'
BY DEF Loads

LEMMA OneEdit ==
  ASSUME Edits, NEW e \in Editors, NEW n \in EditState, n.at \in Writing => n.process \in Processes,
         edit' = [edit EXCEPT ![e] = n]
  PROVE  Edits'
BY DEF Edits

LEMMA OneTurn ==
  ASSUME Chats, NEW t \in Turns, NEW n \in TurnState, n.at \in Serving => n.process \in Processes,
         turn' = [turn EXCEPT ![t] = n], clock' \in Nat, overlapped' \in BOOLEAN,
         stored' \subseteq [start : Nat, version : Nat \ {None}]
  PROVE  Chats'
BY DEF Chats

\* TypeInv is inductive.
THEOREM TypesCorrect == Spec => []TypeInv
<1>1. Init => TypeInv
  <2> SUFFICES ASSUME Init PROVE TypeInv
    OBVIOUS
  <2>1. Tables /\ Setting
    <3>1. rows \in Nat /\ version \in Nat /\ faults \in 0 .. MaxFaults
      <4>1. rows = 0 /\ version = 1 /\ faults = 0
        BY DEF Init
      <4>2. QED
        BY <4>1, ManifestAssumption
    <3>2. raced \in BOOLEAN /\ guessed \in BOOLEAN /\ mix \in Mixes
      BY Zenon DEF Init
    <3>3. QED
      BY <3>1, <3>2 DEF Tables, Setting
  <2>2. Edits
    BY DEF Init, Edits, EditState, NoEdit, Writing
  <2>3. Loads
    <3>1. mix.processes \subseteq Processes
      BY MixUsed DEF Init
    <3>2. QED
      BY <3>1 DEF Init, Loads, LoadState, NoLoad, Loaders
  <2>4. Copies
    <3>1. <<>> \in Seq(Snapshot) /\ Len(<<>>) <= Window
      BY ManifestAssumption
    <3>2. QED
      BY <3>1, EmptyCopy DEF Init, Copies
  <2>5. Chats
    BY DEF Init, Chats, TurnState, NoTurn, None, Serving
  <2>6. QED
    BY <2>1, <2>2, <2>3, <2>4, <2>5, Parts
<1>2. TypeInv /\ [Next]_vars => TypeInv'
  <2> SUFFICES ASSUME TypeInv, [Next]_vars PROVE TypeInv'
    OBVIOUS
  <2> Tables /\ Edits /\ Loads /\ Copies /\ Chats /\ Setting /\ TypeOK
    BY Parts DEF TypeInv
  <2>1. ASSUME NEW x \in Loaders, LoadRows(x) PROVE TypeInv'
    <3>1. Loads'
      <4> DEFINE n == [load[x] EXCEPT !.at = "version", !.edition = rows]
      <4>1. load' = [load EXCEPT ![x] = n]
        BY <2>1 DEF LoadRows, Loads
      <4>2. n \in LoadState
        BY LoadMoves DEF Loads, Tables
      <4>3. n.process \in Processes
        BY <2>1 DEF LoadRows, Loads
      <4> HIDE DEF n
      <4>4. QED
        BY <4>1, <4>2, <4>3, OneLoad
    <3>2. QED
      BY <2>1, <3>1, CopiesKept, PartsAfter DEF LoadRows, tables, conversation, Tables, Edits, Chats, Setting
  <2>2. ASSUME NEW x \in Loaders, LoadVersion(x) PROVE TypeInv'
    <3>1. Loads'
      BY <2>2, LoadMoves DEF LoadVersion, Install, Loads, NoLoad
    <3>2. Copies'
      BY <2>2, CopiesLoaded DEF LoadVersion, Tables
    <3>3. QED
      BY <2>2, <3>1, <3>2, PartsAfter DEF LoadVersion, tables, conversation, Tables, Edits, Chats, Setting
  <2>3. ASSUME NEW x \in Loaders, LoadFails(x) \/ GuessVersion(x) PROVE TypeInv'
    <3>1. CASE LoadFails(x)
      <4>1. Loads'
        BY <3>1, LoadMoves DEF LoadFails, Loads, NoLoad
      <4>2. Copies'
        BY <3>1, CopiesDropped DEF LoadFails, Loads
      <4>3. QED
        BY <3>1, <4>1, <4>2, FaultCounted, PartsAfter
           DEF LoadFails, tables, conversation, Tables, Edits, Chats, Setting
    <3>2. CASE GuessVersion(x)
      <4>1. Loads'
        BY <3>2, LoadMoves DEF GuessVersion, Install, Loads, NoLoad
      <4>2. Copies'
        BY <3>2, CopiesLoaded DEF GuessVersion
      <4>3. QED
        BY <3>2, <4>1, <4>2, FaultCounted, PartsAfter
           DEF GuessVersion, conversation, Tables, Edits, Chats, Setting
    <3>3. QED
      BY <2>3, <3>1, <3>2
  <2>4. ASSUME NEW e \in Editors, NEW p \in Processes, UpdateRow(e, p) PROVE TypeInv'
    <3>1. Edits'
      <4>1. edit' = [edit EXCEPT ![e] = [edit[e] EXCEPT !.at = "updated", !.process = p]]
        BY <2>4 DEF UpdateRow, Edits
      <4>2. [edit[e] EXCEPT !.at = "updated", !.process = p] \in EditState
        BY EditMoves DEF Edits, Writing
      <4>3. [edit[e] EXCEPT !.at = "updated", !.process = p].process = p
        BY DEF Edits, EditState
      <4>4. QED
        BY <4>1, <4>2, <4>3 DEF Edits
    <3>2. QED
      BY <2>4, <3>1, CopiesKept, PartsAfter
         DEF UpdateRow, tables, registry, conversation, Tables, Loads, Chats, Setting
  <2>5. ASSUME NEW e \in Editors, ReadCounter(e) \/ Bump(e) PROVE TypeInv'
    <3>1. Edits'
      <4>1. CASE ReadCounter(e)
        <5> DEFINE n == [edit[e] EXCEPT !.at = "counted", !.read = version]
        <5>1. edit' = [edit EXCEPT ![e] = n]
          BY <4>1 DEF ReadCounter, Edits
        <5>2. n \in EditState
          BY EditMoves DEF Edits, Tables, Writing
        <5>3. n.process \in Processes
          BY <4>1 DEF ReadCounter, Edits, Writing
        <5> HIDE DEF n
        <5>4. QED
          BY <5>1, <5>2, <5>3, OneEdit
      <4>2. CASE Bump(e)
        <5> DEFINE n == [edit[e] EXCEPT !.at = "bumped"]
        <5>1. edit' = [edit EXCEPT ![e] = n]
          BY <4>2 DEF Bump, Edits
        <5>2. n \in EditState
          BY EditMoves DEF Edits, Writing
        <5>3. n.process \in Processes
          BY <4>2 DEF Bump, Edits, Writing
        <5> HIDE DEF n
        <5>4. QED
          BY <5>1, <5>2, <5>3, OneEdit
      <4>3. QED
        BY <2>5, <4>1, <4>2
    <3>2. QED
      BY <2>5, <3>1, CopiesKept, PartsAfter
         DEF ReadCounter, Bump, tables, registry, conversation, Tables, Loads, Chats, Setting
  <2>6. ASSUME NEW e \in Editors, Commit(e) PROVE TypeInv'
    <3>1. Tables'
      BY <2>6 DEF Commit, Bumped, Tables, Edits, EditState
    <3>2. Edits'
      <4> DEFINE n == [edit[e] EXCEPT !.at = "done", !.edition = rows + 1]
      <4>1. edit' = [edit EXCEPT ![e] = n]
        BY <2>6 DEF Commit, Edits
      <4>2. n \in EditState
        <5>1. rows + 1 \in Nat /\ edit[e] \in EditState
          BY DEF Edits, Tables
        <5>2. QED
          BY <5>1, EditMoves
      <4>3. n.at = "done"
        BY DEF Edits, EditState
      <4> HIDE DEF n
      <4>4. QED
        BY <4>1, <4>2, <4>3, OneEdit DEF Writing
    <3>3. Loads'
      BY <2>6 DEF Commit, Loads, Edits, LoadState, NoLoad, Loaders, Writing
    <3>4. QED
      BY <2>6, <3>1, <3>2, <3>3, CopiesKept, PartsAfter DEF Commit, conversation, Chats, Setting
  <2>7. ASSUME NEW t \in Turns, NEW p \in Processes, Begin(t, p) PROVE TypeInv'
    <3>1. Chats'
      <4> DEFINE n == [turn[t] EXCEPT !.at = "begun", !.process = p, !.start = clock + 1]
      <4>1. turn' = [turn EXCEPT ![t] = n] /\ clock' = clock + 1 /\ UNCHANGED <<stored, overlapped>>
        BY <2>7 DEF Begin, Chats
      <4>2. n \in TurnState
        <5>1. clock + 1 \in Nat /\ turn[t] \in TurnState
          BY DEF Chats
        <5>2. QED
          BY <5>1, TurnMoves
      <4>3. n.process = p
        BY DEF Chats, TurnState
      <4> HIDE DEF n
      <4>4. QED
        BY <4>1, <4>2, <4>3, OneTurn DEF Chats
    <3>2. QED
      BY <2>7, <3>1, CopiesKept, PartsAfter DEF Begin, tables, registry, Tables, Loads, Edits, Setting
  <2>8. ASSUME NEW t \in Turns, Resolve(t) PROVE TypeInv'
    <3>1. Chats'
      <4>1. \A a \in Anchors(turn[t].process) : a \in Nat
        <5>1. cache[turn[t].process].version \in Nat
          BY <2>8 DEF Resolve, Chats, Copies, Cached, Serving
        <5>2. \A r \in stored : r.version \in Nat
          BY DEF Chats
        <5>3. QED
          BY <5>1, <5>2 DEF Anchors, Oldest
      <4>2. PICK a \in Anchors(turn[t].process) :
              turn' = [turn EXCEPT ![t] = [turn[t] EXCEPT !.at = "anchored", !.anchor = a]]
        BY <2>8 DEF Resolve, Chats
      <4>3. [turn[t] EXCEPT !.at = "anchored", !.anchor = a] \in TurnState
        BY <4>1, TurnMoves DEF Chats
      <4>4. [turn[t] EXCEPT !.at = "anchored", !.anchor = a].process = turn[t].process
        OBVIOUS
      <4>5. turn[t].process \in Processes
        BY <2>8 DEF Resolve, Chats, Serving
      <4>6. UNCHANGED <<stored, clock>> /\ overlapped' \in BOOLEAN
        BY <2>8 DEF Resolve, Chats
      <4>7. QED
        BY <4>2, <4>3, <4>4, <4>5, <4>6 DEF Chats
    <3>2. QED
      BY <2>8, <3>1, CopiesKept, PartsAfter DEF Resolve, tables, registry, Tables, Loads, Edits, Setting
  <2>9. ASSUME NEW t \in Turns, Compose(t) \/ AddRules(t) PROVE TypeInv'
    <3>1. Chats'
      <4>1. turn[t].process \in Processes /\ turn[t].served \in SUBSET Nat
        BY <2>9 DEF Compose, AddRules, Chats, Serving, TurnState
      <4>2. Served(turn[t].process, turn[t].anchor) \in SUBSET Nat
        BY <4>1, ServedEditions
      <4>3. PICK a \in {"composed", "ruled"}, S \in SUBSET Nat :
              turn' = [turn EXCEPT ![t] = [turn[t] EXCEPT !.at = a, !.served = S]]
        <5>1. CASE Compose(t)
          BY <5>1, <4>2 DEF Compose, Chats
        <5>2. CASE AddRules(t)
          BY <5>2, <4>1, <4>2 DEF AddRules, Chats
        <5>3. QED
          BY <2>9, <5>1, <5>2
      <4>4. [turn[t] EXCEPT !.at = a, !.served = S] \in TurnState
        BY TurnMoves DEF Chats
      <4>5. [turn[t] EXCEPT !.at = a, !.served = S].process = turn[t].process
        OBVIOUS
      <4>6. UNCHANGED <<stored, clock, overlapped>>
        BY <2>9 DEF Compose, AddRules
      <4>7. QED
        BY <4>1, <4>3, <4>4, <4>5, <4>6 DEF Chats
    <3>2. QED
      BY <2>9, <3>1, CopiesKept, PartsAfter DEF Compose, AddRules, tables, registry, Tables, Loads, Edits, Setting
  <2>10. ASSUME NEW t \in Turns, SaveUser(t) \/ SaveAssistant(t) \/ AgentFails(t) PROVE TypeInv'
    <3>1. Chats'
      <4>1. PICK a \in {"saved", "done"} : turn' = [turn EXCEPT ![t].at = a]
        BY <2>10 DEF SaveUser, SaveAssistant, AgentFails
      <4>2. \A u \in Turns :
              turn'[u] \in TurnState /\ (turn'[u].at \in Serving => turn'[u] = turn[u])
        <5>1. [turn[t] EXCEPT !.at = a] \in TurnState
          BY TurnMoves DEF Chats
        <5>2. [turn[t] EXCEPT !.at = a].at = a
          BY DEF Chats, TurnState
        <5>3. QED
          BY <4>1, <5>1, <5>2 DEF Chats, Serving
      <4>3. clock' \in Nat /\ UNCHANGED overlapped /\ DOMAIN turn' = Turns
        BY <2>10 DEF SaveUser, SaveAssistant, AgentFails, Chats
      <4>4. \A n \in Nat : Stamped(n, turn[t].anchor) \subseteq [start : Nat, version : Nat \ {None}]
        BY DEF Stamped, Chats, TurnState
      <4>5. turn[t].start \in Nat
        BY DEF Chats, TurnState
      <4>6. stored' \subseteq [start : Nat, version : Nat \ {None}]
        BY <2>10, <4>3, <4>4, <4>5 DEF SaveUser, SaveAssistant, AgentFails, Chats
      <4>7. QED
        BY <4>2, <4>3, <4>6 DEF Chats
    <3>2. Setting'
      BY <2>10, FaultCounted DEF SaveUser, SaveAssistant, AgentFails, Setting
    <3>3. QED
      BY <2>10, <3>1, <3>2, CopiesKept, PartsAfter
         DEF SaveUser, SaveAssistant, AgentFails, tables, registry, Tables, Loads, Edits
  <2>11. ASSUME NEW p \in Processes, Restart(p) PROVE TypeInv'
    <3>1. Copies'
      BY <2>11, CopiesDropped DEF Restart, Copies
    <3>2. Loads'
      BY <2>11 DEF Restart, Loads, LoadState, NoLoad
    <3>3. Edits'
      <4>1. \A e \in Editors : [edit[e] EXCEPT !.at = "done"] \in EditState
        BY EditMoves DEF Edits
      <4>2. \A e \in Editors : [edit[e] EXCEPT !.at = "done"].at = "done"
        BY DEF Edits, EditState
      <4>3. QED
        BY <2>11, <4>1, <4>2 DEF Restart, Edits, Writing
    <3>4. Chats'
      <4>1. \A t \in Turns : [turn[t] EXCEPT !.at = "done"] \in TurnState
        BY TurnMoves DEF Chats
      <4>2. \A t \in Turns : [turn[t] EXCEPT !.at = "done"].at = "done"
        BY DEF Chats, TurnState
      <4>3. QED
        BY <2>11, <4>1, <4>2 DEF Restart, Chats, Serving
    <3>5. QED
      BY <2>11, <3>1, <3>2, <3>3, <3>4, FaultCounted, PartsAfter DEF Restart, tables, Tables, Setting
  <2>12. CASE UNCHANGED vars
    BY <2>12, CopiesKept, PartsAfter
       DEF vars, tables, registry, conversation, Tables, Loads, Edits, Chats, Setting
  <2>13. QED
    BY <2>1, <2>2, <2>3, <2>4, <2>5, <2>6, <2>7, <2>8, <2>9, <2>10, <2>11, <2>12
       DEF Next, Refresh, Edit, Turn
<1>3. QED
  BY <1>1, <1>2, PTL DEF Spec

\* Every variable keeps its type; no process keeps more versions than the window,
\* and what it serves is always among them.
THEOREM TypeCorrect == Spec => []TypeOK
<1>1. TypeInv => TypeOK
  BY DEF TypeInv
<1>2. QED
  BY <1>1, TypesCorrect, PTL
-----------------------------------------------------------------------------
(* What a version means.                                                   *)

\* A copy bears the version of its edition, or version 1 for want of it.
Labelled(s) == s.version = s.edition + 1 \/ (guessed /\ s.version = 1)

\* As long as no edit or refresh had to share the tables, the counter is one
\* ahead of the edition, what a refresh or an edit has read is still so, and
\* every copy is labelled rightly.
ContentInv ==
  ~raced =>
    /\ version = rows + 1
    /\ \A x \in Loaders : load[x].at = "version" => load[x].edition = rows
    /\ \A e \in Editors : edit[e].at \in {"counted", "bumped"} => edit[e].read = version
    /\ \A p \in Processes : \A s \in ToSet(snaps[p]) : Labelled(s)

\* A refresh installs what it has read under a version that is right for it.
LEMMA ContentInstalled ==
  ASSUME TypeInv, ContentInv, NEW x \in Loaders, load[x].at = "version", NEW v \in Nat,
         Install(x, v), v = version \/ (v = 1 /\ guessed'), guessed => guessed',
         UNCHANGED <<rows, version, raced, edit>>
  PROVE  ContentInv'
<1> /\ Loads /\ Copies /\ Tables
  BY Parts
<1> DEFINE p == load[x].process
           snap == [version |-> v, edition |-> load[x].edition]
<1>1. p \in Processes /\ snap \in Snapshot
  BY DEF Loads, LoadState, Snapshot
<1>2. ToSet(With(snaps[p], snap)) \subseteq ToSet(snaps[p]) \cup {snap}
  <2>1. snaps[p] \in Seq(Snapshot) /\ Len(snaps[p]) <= Window
    BY <1>1 DEF Copies
  <2>2. QED
    BY <1>1, <2>1, Keeping
<1>3. snaps' = [snaps EXCEPT ![p] = With(@, snap)] /\ load' = [load EXCEPT ![x] = NoLoad]
  BY DEF Install
<1>4. ASSUME ~raced, NEW q \in Processes, NEW s \in ToSet(snaps'[q]) PROVE Labelled(s)'
  <2>1. CASE q = p /\ s = snap
    <3>1. (v = 1 /\ guessed') \/ (v = load[x].edition + 1)
      BY <1>4 DEF ContentInv
    <3>2. s.version = v /\ s.edition = load[x].edition
      BY <2>1
    <3>3. QED
      BY <3>1, <3>2 DEF Labelled
  <2>2. CASE ~(q = p /\ s = snap)
    <3>1. s \in ToSet(snaps[q])
      BY <2>2, <1>1, <1>2, <1>3, <1>4 DEF Copies
    <3>2. Labelled(s)
      BY <3>1, <1>4 DEF ContentInv
    <3>3. QED
      BY <3>2 DEF Labelled
  <2>3. QED
    BY <2>1, <2>2
<1>5. \A y \in Loaders : load'[y].at = "version" => load'[y] = load[y]
  BY <1>3 DEF Loads, NoLoad
<1>6. QED
  BY <1>4, <1>5 DEF ContentInv

\* ContentInv is inductive: an edit commits the successor of the version it has
\* read, and only the history variable raced says that another did so before.
THEOREM ContentCorrect == Spec => []ContentInv
<1>1. Init => ContentInv
  <2> SUFFICES ASSUME Init PROVE ContentInv
    OBVIOUS
  <2>1. \A x \in Loaders : load[x].at # "version"
    BY DEF Init, NoLoad
  <2>2. \A e \in Editors : edit[e].at = "idle"
    BY DEF Init, NoEdit
  <2>3. \A p \in Processes : ToSet(snaps[p]) = {}
    <3>1. DOMAIN <<>> = {}
      OBVIOUS
    <3>2. \A p \in Processes : snaps[p] = <<>>
      BY DEF Init
    <3>3. QED
      BY <3>1, <3>2 DEF ToSet
  <2>4. rows = 0 /\ version = 1
    BY DEF Init
  <2>5. QED
    BY <2>1, <2>2, <2>3, <2>4 DEF ContentInv
<1>2. TypeInv /\ ContentInv /\ [Next]_vars => ContentInv'
  <2> SUFFICES ASSUME TypeInv, ContentInv, [Next]_vars PROVE ContentInv'
    OBVIOUS
  <2> /\ Tables /\ Edits /\ Loads /\ Copies /\ Chats /\ Setting
    BY Parts
  <2>1. ASSUME NEW x \in Loaders, LoadRows(x) PROVE ContentInv'
    BY <2>1 DEF LoadRows, tables, ContentInv, Labelled, Loads, LoadState
  <2>2. ASSUME NEW x \in Loaders, LoadVersion(x) PROVE ContentInv'
    BY <2>2, ContentInstalled DEF LoadVersion, tables, Tables
  <2>3. ASSUME NEW x \in Loaders, LoadFails(x) \/ GuessVersion(x) PROVE ContentInv'
    <3>1. CASE LoadFails(x)
      BY <3>1 DEF LoadFails, tables, ContentInv, Labelled, Loads, NoLoad
    <3>2. CASE GuessVersion(x)
      BY <3>2, ContentInstalled DEF GuessVersion
    <3>3. QED
      BY <2>3, <3>1, <3>2
  <2>4. ASSUME NEW e \in Editors, NEW p \in Processes, UpdateRow(e, p) PROVE ContentInv'
    <3>1. \A f \in Editors : edit'[f].at \in {"counted", "bumped"} => edit'[f] = edit[f]
      BY <2>4 DEF UpdateRow, Edits, EditState
    <3>2. QED
      BY <2>4, <3>1 DEF UpdateRow, tables, registry, ContentInv, Labelled
  <2>5. ASSUME NEW e \in Editors, ReadCounter(e) PROVE ContentInv'
    BY <2>5 DEF ReadCounter, tables, registry, ContentInv, Labelled, Edits, EditState
  <2>6. ASSUME NEW e \in Editors, Bump(e) PROVE ContentInv'
    BY <2>6 DEF Bump, tables, registry, ContentInv, Labelled, Edits, EditState
  <2>7. ASSUME NEW e \in Editors, Commit(e) PROVE ContentInv'
    <3> SUFFICES ASSUME ~raced' PROVE ContentInv'
      BY DEF ContentInv
    <3>1. ~raced /\ ~Disturbs(e) /\ version' = Bumped(edit[e].read) /\ rows' = rows + 1
      BY <2>7 DEF Commit
    <3>2. edit[e].read = version /\ version = rows + 1
      BY <2>7, <3>1 DEF Commit, ContentInv
    <3>3. version' = rows' + 1
      BY <3>1, <3>2 DEF Bumped, Tables
    <3>4. \A x \in Loaders : load'[x].at # "version"
      BY <2>7, <3>1 DEF Commit, Disturbs, Loads, NoLoad
    <3>5. \A f \in Editors : edit'[f].at \notin {"counted", "bumped"}
      BY <2>7, <3>1 DEF Commit, Disturbs, Edits, EditState
    <3>6. QED
      BY <2>7, <3>1, <3>3, <3>4, <3>5 DEF Commit, ContentInv, Labelled
  <2>8. ASSUME NEW p \in Processes, Restart(p) PROVE ContentInv'
    <3>1. \A x \in Loaders : load'[x].at = "version" => load'[x] = load[x]
      BY <2>8 DEF Restart, NoLoad
    <3>2. \A e \in Editors : edit'[e].at \in {"counted", "bumped"} => edit'[e] = edit[e]
      BY <2>8 DEF Restart, Edits, EditState
    <3>3. \A q \in Processes : ToSet(snaps'[q]) \subseteq ToSet(snaps[q])
      BY <2>8 DEF Restart, ToSet, Copies
    <3>4. QED
      BY <2>8, <3>1, <3>2, <3>3 DEF Restart, tables, ContentInv, Labelled
  <2>9. CASE UNCHANGED <<tables, registry, edit>>
    BY <2>9 DEF tables, registry, ContentInv, Labelled
  <2>10. QED
    BY <2>1, <2>2, <2>3, <2>4, <2>5, <2>6, <2>7, <2>8, <2>9
       DEF Next, Refresh, Edit, Turn, Begin, Resolve, Compose, AddRules, SaveUser, SaveAssistant,
           AgentFails, vars, tables, registry
<1>3. QED
  BY <1>1, <1>2, TypesCorrect, PTL DEF Spec

\* A version means one edition in all processes, for any number of processes,
\* edits, refreshes and crashes, unless edits or refreshes overlapped or it is
\* version 1 and a refresh could not read the counter.
THEOREM OneContent == Spec => []OneContentPerVersion
<1>1. TypeInv /\ ContentInv => OneContentPerVersion
  <2> SUFFICES ASSUME TypeInv, ContentInv, ~raced,
                      NEW p \in Processes, NEW q \in Processes,
                      NEW s \in ToSet(snaps[p]), NEW u \in ToSet(snaps[q]), s.version = u.version,
                      s.version = 1 => ~guessed
               PROVE  s.edition = u.edition
    BY DEF OneContentPerVersion
  <2>1. s \in Snapshot /\ u \in Snapshot
    <3>1. snaps[p] \in Seq(Snapshot) /\ snaps[q] \in Seq(Snapshot)
      BY DEF TypeInv, TypeOK
    <3>2. QED
      BY <3>1 DEF ToSet
  <2>2. s.version = s.edition + 1 /\ u.version = u.edition + 1
    BY DEF ContentInv, Labelled
  <2>3. s.edition \in Nat /\ u.edition \in Nat
    BY <2>1 DEF Snapshot
  <2>4. s.edition + 1 = u.edition + 1
    BY <2>2
  <2>5. QED
    BY <2>3, <2>4
<1>2. QED
  BY <1>1, TypesCorrect, ContentCorrect, PTL

-----------------------------------------------------------------------------
(* The anchor of a conversation.                                           *)

\* As long as no turn looked for the anchor beside an unsaved one, there is at
\* most one unsaved turn, every row bears one version, and so will the rows that
\* the turns under way will add.
AnchorInv ==
  ~overlapped =>
    /\ \A r, q \in stored : r.version = q.version
    /\ \A t, u \in Turns : Unsaved(t) /\ Unsaved(u) => t = u
    /\ \A t \in Turns : turn[t].anchor # None =>
         /\ Unsaved(t) => \A r \in stored : r.version = turn[t].anchor
         /\ turn[t].at = "saved" => stored # {} /\ \A r \in stored : r.version = turn[t].anchor

\* AnchorInv is kept by a step that stores nothing and leaves the anchors alone,
\* at turns that are saved or unsaved as before or over.
LEMMA AnchorsKept ==
  ASSUME AnchorInv, UNCHANGED <<stored, overlapped>>,
         \A t \in Turns : \/ turn'[t].at \in {"begun", "done"}
                          \/ /\ turn'[t].anchor = turn[t].anchor
                             /\ Unsaved(t)' = Unsaved(t)
                             /\ (turn'[t].at = "saved") = (turn[t].at = "saved")
  PROVE  AnchorInv'
BY DEF AnchorInv, Unsaved

\* AnchorInv is inductive: whoever looks for the anchor when every turn is saved
\* finds the version of all rows, or is the first.
THEOREM AnchorCorrect == Spec => []AnchorInv
<1>1. Init => AnchorInv
  <2> SUFFICES ASSUME Init PROVE AnchorInv
    OBVIOUS
  <2>1. stored = {} /\ \A t \in Turns : turn[t].at = "idle"
    BY DEF Init, NoTurn
  <2>2. QED
    BY <2>1 DEF AnchorInv, Unsaved
<1>2. TypeInv /\ AnchorInv /\ [Next]_vars => AnchorInv'
  <2> SUFFICES ASSUME TypeInv, AnchorInv, [Next]_vars PROVE AnchorInv'
    OBVIOUS
  <2> Chats
    BY Parts
  <2>1. ASSUME NEW t \in Turns, NEW p \in Processes, Begin(t, p) PROVE AnchorInv'
    <3>1. /\ UNCHANGED <<stored, overlapped>> /\ turn'[t].at = "begun"
          /\ \A u \in Turns \ {t} : turn'[u] = turn[u]
      BY <2>1 DEF Begin, Chats, TurnState
    <3>2. QED
      BY <3>1, AnchorsKept DEF Unsaved
  <2>2. ASSUME NEW t \in Turns, Resolve(t) PROVE AnchorInv'
    <3> SUFFICES ASSUME ~overlapped' PROVE AnchorInv'
      BY DEF AnchorInv
    <3>1. /\ ~overlapped /\ \A u \in Turns : ~Unsaved(u)
          /\ UNCHANGED stored /\ \A u \in Turns \ {t} : turn'[u] = turn[u]
      BY <2>2 DEF Resolve, Chats
    <3>2. turn'[t].anchor \in Anchors(turn[t].process) /\ turn'[t].at = "anchored"
      BY <2>2 DEF Resolve, Chats, TurnState
    <3>3. \A r \in stored : r.version = turn'[t].anchor
      BY <3>1, <3>2 DEF Anchors, Oldest, AnchorInv
    <3>4. QED
      BY <3>1, <3>2, <3>3 DEF AnchorInv, Unsaved
  <2>3. ASSUME NEW t \in Turns, Compose(t) \/ AddRules(t) PROVE AnchorInv'
    <3>1. /\ UNCHANGED <<stored, overlapped>> /\ Unsaved(t) /\ Unsaved(t)'
          /\ turn'[t].anchor = turn[t].anchor /\ \A u \in Turns \ {t} : turn'[u] = turn[u]
      <4>1. CASE Compose(t)
        BY <4>1 DEF Compose, Chats, TurnState, Unsaved
      <4>2. CASE AddRules(t)
        BY <4>2 DEF AddRules, Chats, TurnState, Unsaved
      <4>3. QED
        BY <2>3, <4>1, <4>2
    <3>2. QED
      BY <3>1, AnchorsKept DEF Unsaved
  <2>4. ASSUME NEW t \in Turns, SaveUser(t) PROVE AnchorInv'
    <3> SUFFICES ASSUME ~overlapped' PROVE AnchorInv'
      BY DEF AnchorInv
    <3>1. /\ ~overlapped /\ Unsaved(t) /\ turn'[t].at = "saved" /\ turn'[t].anchor = turn[t].anchor
          /\ \A u \in Turns \ {t} : turn'[u] = turn[u]
          /\ stored' = stored \cup Stamped(turn[t].start, turn[t].anchor)
      BY <2>4 DEF SaveUser, Chats, TurnState, Unsaved
    <3>2. \A u \in Turns \ {t} : ~Unsaved(u) /\ ~Unsaved(u)'
      BY <3>1 DEF AnchorInv, Unsaved
    <3>3. CASE turn[t].anchor = None
      BY <3>1, <3>2, <3>3 DEF Stamped, AnchorInv, Unsaved
    <3>4. CASE turn[t].anchor # None
      <4>1. stored' # {} /\ \A r \in stored' : r.version = turn[t].anchor
        <5> DEFINE row == [start |-> turn[t].start, version |-> turn[t].anchor]
        <5>1. stored' = stored \cup {row} /\ row.version = turn[t].anchor
          BY <3>1, <3>4 DEF Stamped
        <5> HIDE DEF row
        <5>2. \A r \in stored : r.version = turn[t].anchor
          BY <3>1, <3>4 DEF AnchorInv
        <5>3. QED
          BY <5>1, <5>2
      <4>2. \A u \in Turns \ {t} : turn[u].at = "saved" /\ turn[u].anchor # None =>
              turn[u].anchor = turn[t].anchor
        BY <3>1, <3>4 DEF AnchorInv
      <4>3. QED
        BY <3>1, <3>2, <4>1, <4>2 DEF AnchorInv, Unsaved
    <3>5. QED
      BY <3>3, <3>4
  <2>5. ASSUME NEW t \in Turns, SaveAssistant(t) PROVE AnchorInv'
    <3> SUFFICES ASSUME ~overlapped' PROVE AnchorInv'
      BY DEF AnchorInv
    <3>1. /\ ~overlapped /\ turn[t].at = "saved" /\ turn'[t].at = "done"
          /\ \A u \in Turns \ {t} : turn'[u] = turn[u]
          /\ stored' = stored \cup Stamped(clock', turn[t].anchor)
      BY <2>5 DEF SaveAssistant, Chats, TurnState
    <3>2. turn[t].anchor = None => stored' = stored
      BY <3>1 DEF Stamped
    <3>3. turn[t].anchor # None => /\ stored # {} /\ \A r \in stored' : r.version = turn[t].anchor
                                   /\ \A r \in stored : r.version = turn[t].anchor
      BY <3>1 DEF Stamped, AnchorInv
    <3>4. QED
      BY <3>1, <3>2, <3>3 DEF AnchorInv, Unsaved
  <2>6. ASSUME NEW t \in Turns, AgentFails(t) PROVE AnchorInv'
    <3>1. /\ UNCHANGED <<stored, overlapped>> /\ turn'[t].at = "done"
          /\ \A u \in Turns \ {t} : turn'[u] = turn[u]
      BY <2>6 DEF AgentFails, Chats, TurnState
    <3>2. QED
      BY <3>1, AnchorsKept DEF Unsaved
  <2>7. ASSUME NEW p \in Processes, Restart(p) PROVE AnchorInv'
    <3>1. /\ UNCHANGED <<stored, overlapped>>
          /\ \A t \in Turns : turn'[t].at = "done" \/ turn'[t] = turn[t]
      BY <2>7 DEF Restart, Chats, TurnState
    <3>2. QED
      BY <3>1, AnchorsKept DEF Unsaved
  <2>8. CASE UNCHANGED conversation
    <3>1. UNCHANGED <<turn, stored, overlapped>>
      BY <2>8 DEF conversation
    <3>2. QED
      BY <3>1 DEF AnchorInv, Unsaved
  <2>9. QED
    BY <2>1, <2>2, <2>3, <2>4, <2>5, <2>6, <2>7, <2>8
       DEF Next, Refresh, LoadRows, LoadVersion, LoadFails, GuessVersion, Edit, UpdateRow,
           ReadCounter, Bump, Commit, Turn, vars, conversation
<1>3. QED
  BY <1>1, <1>2, TypesCorrect, PTL DEF Spec

\* All rows of a conversation bear one version, whichever processes serve its
\* turns and whatever is edited, refreshed or restarted meanwhile, unless a turn
\* looked for the anchor beside an unsaved one.
THEOREM OneAnchorKept == Spec => []OneAnchor
<1>1. AnchorInv => OneAnchor
  BY DEF AnchorInv, OneAnchor
<1>2. QED
  BY <1>1, AnchorCorrect, PTL
=============================================================================
