--------------------------- MODULE RubroManifest ---------------------------
(***************************************************************************)
(* The manifest of business types (rubros): a table with one version       *)
(* counter, which the platform's staff edits; a copy of it in every        *)
(* process of api_execute, with the last few versions; and the turns of    *)
(* one conversation, which ask for the version their conversation is       *)
(* anchored to.                                                            *)
(*                                                                         *)
(* What the table says is identified with the number of the commit that    *)
(* said it, its edition.  Transactions are READ COMMITTED: each statement  *)
(* reads what is committed when it runs.                                   *)
(***************************************************************************)
EXTENDS Integers, Sequences, FiniteSets, SequencesExt

CONSTANTS
  Processes,  \* processes of api_execute
  Editors,    \* requests that edit, create, activate or deactivate a rubro
  KeyOf,      \* the rubro that each of them is about
  Turns,      \* requests of one conversation
  Window,     \* _MAX_SNAPSHOTS
  Mixes,      \* what is mixed in one behaviour: which of these, and which faults
  MaxFaults,
  Nobody

ASSUME ManifestAssumption ==
  /\ Window \in Nat \ {0} /\ MaxFaults \in Nat
  /\ DOMAIN KeyOf = Editors /\ Nobody \notin Editors
  /\ Editors \cap Processes = {}
  /\ Mixes \subseteq [processes : SUBSET Processes, editors : SUBSET Editors, turns : SUBSET Turns,
                      faults : SUBSET {"load", "restart", "agent"}]

VARIABLES
  rows, version,  \* committed: the edition of the table, the counter
  edit,           \* how far each editor is, and what it has read
  cache, snaps,   \* of each process: what it serves, the versions it keeps
  load,           \* refreshes in progress, of editors and of starting processes
  turn,           \* how far each turn is
  stored,         \* ai_conversations: the rows of the conversation that bear a version
  clock,          \* transactions of the conversation begun so far
  mix, faults,
  raced,          \* history: an edit or a refresh did not have the tables to itself
  guessed,        \* history: a refresh could not read the counter
  overlapped      \* history: a turn looked for the anchor beside an unsaved one

vars == <<rows, version, edit, cache, snaps, load, turn, stored, clock, mix, faults,
          raced, guessed, overlapped>>
tables == <<rows, version, raced, guessed>>
registry == <<cache, snaps, load>>
conversation == <<turn, stored, clock, overlapped>>

None == 0
Empty == [loaded |-> FALSE, version |-> 0, edition |-> 0]
Loaders == Editors \cup Processes
NoLoad == [at |-> "idle", process |-> Nobody, edition |-> 0]
NoEdit == [at |-> "idle", process |-> Nobody, read |-> 0, edition |-> 0]
NoTurn == [at |-> "idle", process |-> Nobody, start |-> 0, anchor |-> None, served |-> {}]

Init ==
  /\ mix \in Mixes
  /\ rows = 0 /\ version = 1
  /\ edit = [e \in Editors |-> NoEdit]
  /\ cache = [p \in Processes |-> Empty] /\ snaps = [p \in Processes |-> <<>>]
  /\ load = [x \in Loaders |->
               IF x \in mix.processes THEN [NoLoad EXCEPT !.at = "rows", !.process = x] ELSE NoLoad]
  /\ turn = [t \in Turns |-> NoTurn] /\ stored = {} /\ clock = 0
  /\ faults = 0 /\ raced = FALSE /\ guessed = FALSE /\ overlapped = FALSE

\* A process serves nothing before its lifespan has tried to load.
Up(p) == p \in mix.processes /\ load[p].at = "idle"

Fault(f) == f \in mix.faults /\ faults < MaxFaults /\ faults' = faults + 1

-----------------------------------------------------------------------------
(* refresh                                                                 *)

LoadRows(x) ==
  /\ load[x].at = "rows"
  /\ load' = [load EXCEPT ![x].at = "version", ![x].edition = rows]
  /\ UNCHANGED <<tables, edit, cache, snaps, conversation, mix, faults>>

\* Mutant: the newest version is evicted.
Kept_Oldest(s) == IF Len(s) > Window THEN SubSeq(s, 1, Window) ELSE s

\* An OrderedDict: a known version keeps its place, and the first go.
Kept(s) == IF Len(s) > Window THEN SubSeq(s, Len(s) - Window + 1, Len(s)) ELSE s

With(s, snap) ==
  IF \E i \in DOMAIN s : s[i].version = snap.version
  THEN [i \in DOMAIN s |-> IF s[i].version = snap.version THEN snap ELSE s[i]]
  ELSE Kept(Append(s, snap))

\* Mutant: after an edit the process goes on with what it had.
LoadVersion_Ignored(x) ==
  /\ load[x].at = "version"
  /\ load' = [load EXCEPT ![x] = NoLoad]
  /\ UNCHANGED <<tables, edit, cache, snaps, conversation, mix, faults>>

\* The rows that were read are served from now on, as version v.
Install(x, v) ==
  /\ LET p == load[x].process
         snap == [version |-> v, edition |-> load[x].edition]
     IN  /\ cache' = [cache EXCEPT ![p] =
                        [loaded |-> TRUE, version |-> v, edition |-> snap.edition]]
         /\ snaps' = [snaps EXCEPT ![p] = With(@, snap)]
  /\ load' = [load EXCEPT ![x] = NoLoad]

LoadVersion(x) ==
  /\ load[x].at = "version"
  /\ Install(x, version)
  /\ UNCHANGED <<tables, edit, conversation, mix, faults>>

\* _load_version answers 1 when its query fails.
GuessVersion(x) ==
  /\ load[x].at = "version" /\ Fault("load")
  /\ Install(x, 1) /\ guessed' = TRUE
  /\ UNCHANGED <<rows, version, raced, edit, conversation, mix>>

\* The rows cannot be read: fall back to the code's own dictionary.
LoadFails(x) ==
  /\ load[x].at = "rows" /\ Fault("load")
  /\ cache' = [cache EXCEPT ![load[x].process] = Empty]
  /\ load' = [load EXCEPT ![x] = NoLoad]
  /\ UNCHANGED <<tables, edit, snaps, conversation, mix>>

-----------------------------------------------------------------------------
(* update_rubro, create_rubro, set_rubro_activo                            *)

Writing == {"updated", "counted", "bumped"}

\* The rubro's own row is locked until the commit.
UpdateRow(e, p) ==
  /\ edit[e].at = "idle" /\ e \in mix.editors /\ Up(p)
  /\ \A f \in Editors \ {e} : edit[f].at \in Writing => KeyOf[f] # KeyOf[e]
  /\ edit' = [edit EXCEPT ![e].at = "updated", ![e].process = p]
  /\ UNCHANGED <<tables, registry, conversation, mix, faults>>

\* _bump_manifest_version: a SELECT without a lock,
ReadCounter(e) ==
  /\ edit[e].at = "updated"
  /\ edit' = [edit EXCEPT ![e].at = "counted", ![e].read = version]
  /\ UNCHANGED <<tables, registry, conversation, mix, faults>>

\* Mutant: the counter stays as it is.
Bumped_Not(read) == read

Bumped(read) == read + 1

\* and an upsert, which locks the counter until the commit.
Bump(e) ==
  /\ edit[e].at = "counted" /\ \A f \in Editors : edit[f].at # "bumped"
  /\ edit' = [edit EXCEPT ![e].at = "bumped"]
  /\ UNCHANGED <<tables, registry, conversation, mix, faults>>

\* Someone else has read what this commit changes, and will go on from it.
Disturbs(e) ==
  \/ \E x \in Loaders : load[x].at = "version"
  \/ \E f \in Editors \ {e} : edit[f].at \in {"counted", "bumped"}

Commit(e) ==
  /\ edit[e].at = "bumped"
  /\ rows' = rows + 1 /\ version' = Bumped(edit[e].read)
  /\ raced' = (raced \/ Disturbs(e))
  /\ edit' = [edit EXCEPT ![e].at = "done", ![e].edition = rows']
  /\ load' = [load EXCEPT ![e] = [NoLoad EXCEPT !.at = "rows", !.process = edit[e].process]]
  /\ UNCHANGED <<cache, snaps, guessed, conversation, mix, faults>>

-----------------------------------------------------------------------------
(* orchestrate_chat, as far as the manifest is concerned                   *)

\* created_at defaults to now(), the time at which the transaction began; the
\* request's first transaction begins when it gets its session.
Begin(t, p) ==
  /\ turn[t].at = "idle" /\ t \in mix.turns /\ Up(p)
  /\ clock' = clock + 1
  /\ turn' = [turn EXCEPT ![t].at = "begun", ![t].process = p, ![t].start = clock']
  /\ UNCHANGED <<tables, registry, edit, stored, mix, faults, overlapped>>

Oldest == { r \in stored : \A q \in stored : r.start <= q.start }

\* Mutant: every turn is anchored to the version in force.
Anchors_Current(p) == {cache[p].version}

\* _resolve_manifest_anchor: ORDER BY created_at, LIMIT 1
Anchors(p) == IF stored # {} THEN { r.version : r \in Oldest } ELSE {cache[p].version}

Unsaved(t) == turn[t].at \in {"anchored", "composed", "ruled"}

Resolve(t) ==
  /\ turn[t].at = "begun"
  /\ \E a \in Anchors(turn[t].process) :
       turn' = [turn EXCEPT ![t].at = "anchored", ![t].anchor = a]
  /\ overlapped' = (overlapped \/ \E u \in Turns : Unsaved(u))
  /\ UNCHANGED <<tables, registry, edit, stored, clock, mix, faults>>

\* _active_cache; no edition stands for the dictionary in the code.
Served(p, anchor) ==
  LET kept == { s \in ToSet(snaps[p]) : s.version = anchor } IN
  IF ~cache[p].loaded THEN {}
  ELSE IF anchor \in {None, cache[p].version} \/ kept = {} THEN {cache[p].edition}
  ELSE { s.edition : s \in kept }

Compose(t) ==
  /\ turn[t].at = "anchored"
  /\ turn' = [turn EXCEPT ![t].at = "composed", ![t].served = Served(turn[t].process, turn[t].anchor)]
  /\ UNCHANGED <<tables, registry, edit, stored, clock, mix, faults, overlapped>>

\* The welcome rules are resolved after more queries.
AddRules(t) ==
  /\ turn[t].at = "composed"
  /\ turn' = [turn EXCEPT ![t].at = "ruled", ![t].served = @ \cup Served(turn[t].process, turn[t].anchor)]
  /\ UNCHANGED <<tables, registry, edit, stored, clock, mix, faults, overlapped>>

Stamped(start, anchor) == IF anchor = None THEN {} ELSE {[start |-> start, version |-> anchor]}

SaveUser(t) ==
  /\ turn[t].at = "ruled"
  /\ stored' = stored \cup Stamped(turn[t].start, turn[t].anchor)
  /\ turn' = [turn EXCEPT ![t].at = "saved"]
  /\ UNCHANGED <<tables, registry, edit, clock, mix, faults, overlapped>>

\* The answer's transaction begins when open_agent has answered.
SaveAssistant(t) ==
  /\ turn[t].at = "saved"
  /\ clock' = clock + 1
  /\ stored' = stored \cup Stamped(clock', turn[t].anchor)
  /\ turn' = [turn EXCEPT ![t].at = "done"]
  /\ UNCHANGED <<tables, registry, edit, mix, faults, overlapped>>

AgentFails(t) ==
  /\ turn[t].at = "saved" /\ Fault("agent")
  /\ turn' = [turn EXCEPT ![t].at = "done"]
  /\ UNCHANGED <<tables, registry, edit, stored, clock, mix, overlapped>>

-----------------------------------------------------------------------------

\* A process dies: what it was doing is rolled back or over, its copies are gone.
Restart(p) ==
  /\ Up(p) /\ Fault("restart")
  /\ cache' = [cache EXCEPT ![p] = Empty] /\ snaps' = [snaps EXCEPT ![p] = <<>>]
  /\ load' = [x \in Loaders |->
                IF x = p THEN [NoLoad EXCEPT !.at = "rows", !.process = p]
                ELSE IF load[x].process = p THEN NoLoad ELSE load[x]]
  /\ edit' = [e \in Editors |->
                IF edit[e].process = p THEN [edit[e] EXCEPT !.at = "done"] ELSE edit[e]]
  /\ turn' = [t \in Turns |->
                IF turn[t].process = p THEN [turn[t] EXCEPT !.at = "done"] ELSE turn[t]]
  /\ UNCHANGED <<tables, stored, clock, overlapped, mix>>

Refresh(x) == LoadRows(x) \/ LoadVersion(x)
Edit(e) == ReadCounter(e) \/ Bump(e) \/ Commit(e)
Turn(t) == Resolve(t) \/ Compose(t) \/ AddRules(t) \/ SaveUser(t) \/ SaveAssistant(t)

Next ==
  \/ \E x \in Loaders : Refresh(x) \/ LoadFails(x) \/ GuessVersion(x)
  \/ \E e \in Editors : Edit(e) \/ \E p \in Processes : UpdateRow(e, p)
  \/ \E t \in Turns : Turn(t) \/ AgentFails(t) \/ \E p \in Processes : Begin(t, p)
  \/ \E p \in Processes : Restart(p)

Spec == Init /\ [][Next]_vars

\* Statements return.
FairSpec ==
  /\ Spec
  /\ \A x \in Loaders : WF_vars(Refresh(x))
  /\ \A e \in Editors : WF_vars(Edit(e))

-----------------------------------------------------------------------------
(* Properties.                                                             *)

Snapshot == [version : Nat, edition : Nat]
Cached == [loaded : BOOLEAN, version : Nat, edition : Nat]
EditState == [at : {"idle", "done"} \cup Writing, process : Processes \cup {Nobody},
              read : Nat, edition : Nat]
LoadState == [at : {"idle", "rows", "version"}, process : Processes \cup {Nobody}, edition : Nat]
TurnState == [at : {"idle", "begun", "anchored", "composed", "ruled", "saved", "done"},
              process : Processes \cup {Nobody}, start : Nat, anchor : Nat, served : SUBSET Nat]

TypeOK ==
  /\ rows \in Nat /\ version \in Nat
  /\ DOMAIN edit = Editors /\ \A e \in Editors : edit[e] \in EditState
  /\ DOMAIN load = Loaders /\ \A x \in Loaders : load[x] \in LoadState
  /\ DOMAIN turn = Turns /\ \A t \in Turns : turn[t] \in TurnState
  /\ DOMAIN cache = Processes /\ DOMAIN snaps = Processes
  /\ \A p \in Processes :
       /\ cache[p] \in Cached /\ snaps[p] \in Seq(Snapshot) /\ Len(snaps[p]) <= Window
       /\ cache[p].loaded =>
            [version |-> cache[p].version, edition |-> cache[p].edition] \in ToSet(snaps[p])
  /\ stored \subseteq [start : Nat, version : Nat \ {None}] /\ clock \in Nat
  /\ mix \in Mixes /\ faults \in 0 .. MaxFaults /\ raced \in BOOLEAN /\ guessed \in BOOLEAN
  /\ overlapped \in BOOLEAN

\* A version means one edition of the manifest, in whatever process and after
\* whatever crash, unless edits or refreshes overlapped; version 1, which is also
\* what a refresh makes of a counter it cannot read, does only as long as every
\* refresh has read it (_bump_manifest_version, refresh, _load_version).
OneContentPerVersion ==
  ~raced => \A p, q \in Processes : \A s \in ToSet(snaps[p]), u \in ToSet(snaps[q]) :
              s.version = u.version /\ (s.version = 1 => ~guessed) => s.edition = u.edition

\* All turns of a conversation bear the version of its first, whichever
\* processes serve them, unless one looked for the anchor while another had
\* still to store it (_resolve_manifest_anchor).
OneAnchor == ~overlapped => \A r, q \in stored : r.version = q.version

\* An edit that was committed is served by its process in the end, if no fault
\* intervened and no other edit or refresh overlapped it.
EditIsServed ==
  \A e \in Editors :
    edit[e].edition # 0 ~>
      \/ \E p \in Processes : edit[e].process = p /\ cache[p].edition >= edit[e].edition
      \/ raced \/ faults > 0

-----------------------------------------------------------------------------
(* What the documentation says and the code does not do.                   *)

\* "Una conversación ve un manifiesto estable durante toda su vida: una edición
\* de admin en vuelo no la altera" (_resolve_manifest_anchor).
StableManifest ==
  \A t, u \in Turns : Cardinality(turn[t].served \cup turn[u].served) <= 1

\* "el registro guarda un caché acotado de las últimas versiones y sirve el
\* snapshot anclado" (rubro_registry): no version is kept with the content of
\* another.
SnapshotsAreVersions ==
  ~raced => \A p \in Processes : \A s \in ToSet(snaps[p]) : s.version = s.edition + 1
=============================================================================
