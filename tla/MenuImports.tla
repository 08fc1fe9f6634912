----------------------------- MODULE MenuImports -----------------------------
(***************************************************************************)
(* The menu of one tenant, imported from a file (menu_import_svc).         *)
(*                                                                         *)
(* A file is uploaded and kept, its items are extracted for a preview, and *)
(* a row of menu_imports waits as PENDING with the next version number.    *)
(* The administrator confirms the reviewed items: products and categories  *)
(* are created and committed, the row becomes CONFIRMED in a second        *)
(* transaction, and a third one points the agent's configuration at the    *)
(* file if it was marked as official.  /menu/import and /menu/import-url   *)
(* create the items without a preview.                                     *)
(*                                                                         *)
(* PostgreSQL is at READ COMMITTED.  A category that a transaction has     *)
(* inserted and not committed is seen by nobody else, but another insert   *)
(* of its name waits for that transaction (UNIQUE(tenant_id, nombre)); a   *)
(* cycle of such waits is broken by aborting one of them.                  *)
(*                                                                         *)
(* RestaurantProofs extends this module together with Reservations, hence  *)
(* no name here is one of Reservations.                                    *)
(***************************************************************************)
EXTENDS Naturals, Sequences, FiniteSets

CONSTANTS
  Categories,  \* names of categories, up to upper and lower case
  Imports,     \* uploads
  Files,       \* the uploads whose file is kept: PDF and images, not CSV
  Calls,       \* requests to /menu/import/confirm, /menu/import and /menu/import-url
  Menus,       \* the categories of the items of a call, in order of first mention
  Faults,      \* what the environment may do, see FaultKinds
  NoCall       \* no import, no call

FaultKinds == { "crash",  \* an api_execute process dies, or its commit fails
                "update", \* the update of agente_config fails
                "edit" }  \* an administrator clears menu_pdf_url

ASSUME NoCallAssumption == NoCall \notin Imports /\ NoCall \notin Calls
ASSUME MenusAssumption  == Files \subseteq Imports /\ Menus \subseteq Seq(Categories)

Stages   == {"idle", "load", "items", "mark", "point", "done"}
Versions == 1 .. Cardinality(Imports)

VARIABLES
  category,  \* the committed rows of categorias
  inserted,  \* the request whose open transaction has inserted the category
  import,    \* the rows of menu_imports
  official,  \* the upload that agente_config.menu_pdf_url names
  calls,     \* each call: its stage, its arguments, and cat_map
  created,   \* history: how often the products of an import were created
  earlier,   \* history: the uploads on record when an upload read its version
  doubtful   \* history: imports confirmed while another confirm of theirs was under
             \* way, or whose confirm died between its first two commits

menuVars == <<category, inserted, import, official, calls, created, earlier, doubtful>>

-----------------------------------------------------------------------------
MenuRow == [status : {"none", "numbered", "PENDING", "CONFIRMED"}, version : Nat]
Call    == [at : Stages, import : Imports \cup {NoCall}, official : BOOLEAN,
            menu : Seq(Categories), map : SUBSET Categories]

\* A request that confirms no import.
Unbound(stage, menu) ==
  [at |-> stage, import |-> NoCall, official |-> FALSE, menu |-> menu, map |-> {}]

MenuTypeOK ==
  /\ category \in [Categories -> {"none", "active", "inactive"}]
  /\ inserted \in [Categories -> Calls \cup {NoCall}]
  /\ import \in [Imports -> MenuRow]
  /\ official \in Files \cup {NoCall}
  /\ calls \in [Calls -> Call]
  /\ created \in [Imports -> Nat]
  /\ earlier \in [Imports -> SUBSET Imports]
  /\ doubtful \subseteq Imports

MenuInit ==
  /\ category = [c \in Categories |-> "none"]
  /\ inserted = [c \in Categories |-> NoCall]
  /\ import = [i \in Imports |-> [status |-> "none", version |-> 0]]
  /\ official = NoCall
  /\ calls = [r \in Calls |-> Unbound("idle", <<>>)]
  /\ created = [i \in Imports |-> 0]
  /\ earlier = [i \in Imports |-> {}]
  /\ doubtful = {}

At(r, stage)     == calls[r].at = stage
MoveTo(r, stage) == calls' = [calls EXCEPT ![r].at = stage]
Finish(r)        == calls' = [calls EXCEPT ![r] = Unbound("done", <<>>)]

\* The rows that other transactions see.
Recorded  == {i \in Imports : import[i].status \in {"PENDING", "CONFIRMED"}}
Confirmed == {i \in Imports : import[i].status = "CONFIRMED"}

\* The confirms of an import that are past the check and have not marked it.
Confirming(i) == {r \in Calls : calls[r].import = i /\ calls[r].at \in {"load", "items", "mark"}}

-----------------------------------------------------------------------------
(* Preview.                                                                *)

\* Mutant: only confirmed imports count.
NextVersion_Confirmed(v) ==
  /\ \A i \in Confirmed : import[i].version < v
  /\ v = 1 \/ \E i \in Confirmed : import[i].version + 1 = v

\* _next_version: one more than the highest version on record.
NextVersion(v) ==
  /\ \A i \in Recorded : import[i].version < v
  /\ v = 1 \/ \E i \in Recorded : import[i].version + 1 = v

\* extract_preview, extract_preview_csv: the file is stored and the items are
\* extracted; then the version is read without a lock.
ReadVersion(i) ==
  /\ import[i].status = "none"
  /\ \E v \in Versions :
       /\ NextVersion(v)
       /\ import' = [import EXCEPT ![i] = [status |-> "numbered", version |-> v]]
  /\ earlier' = [earlier EXCEPT ![i] = Recorded]
  /\ UNCHANGED <<category, inserted, official, calls, created, doubtful>>

\* The row is inserted and committed; no constraint keeps versions apart.
CommitPreview(i) ==
  /\ import[i].status = "numbered"
  /\ import' = [import EXCEPT ![i].status = "PENDING"]
  /\ UNCHANGED <<category, inserted, official, calls, created, earlier, doubtful>>

-----------------------------------------------------------------------------
(* Confirm, and import without a preview.                                  *)

\* confirm_import: the row is read without a lock and must be PENDING.  The
\* items come from the request, as the administrator has edited them.
Confirm(r, i, menu, asOfficial) ==
  /\ At(r, "idle")
  /\ import[i].status = "PENDING"
  /\ calls' = [calls EXCEPT ![r] = [at |-> "load", import |-> i, official |-> asOfficial,
                                    menu |-> menu, map |-> {}]]
  /\ doubtful' = IF Confirming(i) = {} THEN doubtful ELSE doubtful \cup {i}
  /\ UNCHANGED <<category, inserted, import, official, created, earlier>>

\* "Import not found", "Import already confirmed": HTTP 422.
Refuse(r, i) ==
  /\ At(r, "idle")
  /\ import[i].status # "PENDING"
  /\ Finish(r)
  /\ UNCHANGED <<category, inserted, import, official, created, earlier, doubtful>>

\* import_from_csv, import_from_ai, import_from_url.
ImportDirectly(r, menu) ==
  /\ At(r, "idle")
  /\ calls' = [calls EXCEPT ![r] = Unbound("load", menu)]
  /\ UNCHANGED <<category, inserted, import, official, created, earlier, doubtful>>

\* _load_category_map: the active categories only.
LoadCategoryMap(r) ==
  /\ At(r, "load")
  /\ calls' = [calls EXCEPT ![r].at = "items",
                            ![r].map = {c \in Categories : category[c] = "active"}]
  /\ UNCHANGED <<category, inserted, import, official, created, earlier, doubtful>>

\* The category the loop over the items has come to: the first one that is not
\* in cat_map.  None, when the loop is over.
Wanted(r) ==
  {c \in Categories :
     /\ c \notin calls[r].map
     /\ \E k \in 1 .. Len(calls[r].menu) :
          /\ calls[r].menu[k] = c
          /\ \A l \in 1 .. k-1 : calls[r].menu[l] \in calls[r].map}

\* _ensure_category: the category is inserted and flushed.
EnsureCategory(r) ==
  /\ At(r, "items")
  /\ \E c \in Wanted(r) :
       /\ category[c] = "none"
       /\ inserted[c] = NoCall
       /\ inserted' = [inserted EXCEPT ![c] = r]
       /\ calls' = [calls EXCEPT ![r].map = @ \cup {c}]
  /\ UNCHANGED <<category, import, official, created, earlier, doubtful>>

\* get_db: what the transaction has inserted is undone.
Rollback(r) == inserted' = [c \in Categories |-> IF inserted[c] = r THEN NoCall ELSE inserted[c]]

\* Mutant: the session of the failed request is left open.
DuplicateCategory_NoRollback(r) ==
  /\ At(r, "items")
  /\ \E c \in Wanted(r) : category[c] # "none"
  /\ Finish(r)
  /\ UNCHANGED <<category, inserted, import, official, created, earlier, doubtful>>

\* The name is taken, by a category committed since cat_map was loaded or by
\* one that was soft-deleted: IntegrityError, the whole request fails.
DuplicateCategory(r) ==
  /\ At(r, "items")
  /\ \E c \in Wanted(r) : category[c] # "none"
  /\ Rollback(r)
  /\ Finish(r)
  /\ UNCHANGED <<category, import, official, created, earlier, doubtful>>

\* The insert of p waits for the transaction of q.
Waits(p, q) == At(p, "items") /\ \E c \in Wanted(p) : inserted[c] = q

\* PostgreSQL aborts a transaction of a cycle of waits.
CategoryDeadlock(r) ==
  /\ \E cycle \in SUBSET Calls :
       /\ r \in cycle
       /\ \A p \in cycle : /\ \E q \in cycle : Waits(p, q)
                           /\ \E q \in cycle : Waits(q, p)
  /\ Rollback(r)
  /\ Finish(r)
  /\ UNCHANGED <<category, import, official, created, earlier, doubtful>>

\* The end of _bulk_create: the products are inserted and everything commits.
CommitItems(r) ==
  /\ At(r, "items")
  /\ Wanted(r) = {}
  /\ category' = [c \in Categories |-> IF inserted[c] = r THEN "active" ELSE category[c]]
  /\ Rollback(r)
  /\ IF calls[r].import = NoCall
     THEN Finish(r) /\ UNCHANGED created
     ELSE /\ MoveTo(r, "mark")
          /\ created' = [created EXCEPT ![calls[r].import] = @ + 1]
  /\ UNCHANGED <<import, official, earlier, doubtful>>

\* Mutant: the tenant is not set again after the commit of _bulk_create, so
\* that the update matches no row (StaleDataError).
MarkConfirmed_NoTenant(r) ==
  /\ At(r, "mark")
  /\ Finish(r)
  /\ UNCHANGED <<category, inserted, import, official, created, earlier, doubtful>>

\* confirm_import: a transaction of its own, by primary key.
MarkConfirmed(r) ==
  /\ At(r, "mark")
  /\ import' = [import EXCEPT ![calls[r].import].status = "CONFIRMED"]
  /\ IF calls[r].official /\ calls[r].import \in Files THEN MoveTo(r, "point") ELSE Finish(r)
  /\ UNCHANGED <<category, inserted, official, created, earlier, doubtful>>

\* _update_official_menu_pdf: a failure is logged, and the request succeeds.
UpdateOfficialMenuPdf(r) ==
  /\ At(r, "point")
  /\ \/ official' = calls[r].import
     \/ "update" \in Faults /\ UNCHANGED official
  /\ Finish(r)
  /\ UNCHANGED <<category, inserted, import, created, earlier, doubtful>>

\* The process dies, or a commit fails: the open transaction is rolled back.
Crash(r) ==
  /\ "crash" \in Faults
  /\ calls[r].at \notin {"idle", "done"}
  /\ Rollback(r)
  /\ Finish(r)
  /\ doubtful' = IF At(r, "mark") THEN doubtful \cup {calls[r].import} ELSE doubtful
  /\ UNCHANGED <<category, import, official, created, earlier>>

-----------------------------------------------------------------------------
(* The administrator's other requests.                                     *)

\* create_categoria, and soft_delete_categoria; a name that is taken is an error.
AddCategory(c) ==
  /\ category[c] = "none"
  /\ inserted[c] = NoCall
  /\ category' = [category EXCEPT ![c] = "active"]
  /\ UNCHANGED <<inserted, import, official, calls, created, earlier, doubtful>>

DeleteCategory(c) ==
  /\ category[c] = "active"
  /\ category' = [category EXCEPT ![c] = "inactive"]
  /\ UNCHANGED <<inserted, import, official, calls, created, earlier, doubtful>>

\* update_agente_config, with an empty menu_pdf_url.
ClearOfficial ==
  /\ "edit" \in Faults
  /\ official # NoCall
  /\ official' = NoCall
  /\ UNCHANGED <<category, inserted, import, calls, created, earlier, doubtful>>

CallStep(r) ==
  \/ LoadCategoryMap(r) \/ EnsureCategory(r) \/ DuplicateCategory(r) \/ CategoryDeadlock(r)
  \/ CommitItems(r) \/ MarkConfirmed(r) \/ UpdateOfficialMenuPdf(r)

MenuNext ==
  \/ \E i \in Imports : ReadVersion(i) \/ CommitPreview(i)
  \/ \E r \in Calls :
       \/ \E i \in Imports :
            \/ \E menu \in Menus, asOfficial \in BOOLEAN : Confirm(r, i, menu, asOfficial)
            \/ Refuse(r, i)
       \/ \E menu \in Menus : ImportDirectly(r, menu)
       \/ CallStep(r)
       \/ Crash(r)
  \/ \E c \in Categories : AddCategory(c) \/ DeleteCategory(c)
  \/ ClearOfficial

MenuSpec == MenuInit /\ [][MenuNext]_menuVars

\* A request that has started is carried on, a wait for a lock ends when the
\* lock is free, and the database looks for deadlocks.
FairMenuSpec == MenuSpec /\ \A r \in Calls : WF_menuVars(CallStep(r))

-----------------------------------------------------------------------------
(* What the agent sends when the menu is asked for.                        *)

\* _get_uploaded_menu_url: a confirmed file of the highest version.
UploadedMenu ==
  {i \in Confirmed \cap Files :
     \A j \in Confirmed \cap Files : import[j].version <= import[i].version}

\* _resolve_menu_url: the configured URL first; with none the menu is generated.
MenuSent == IF official # NoCall THEN {official} ELSE UploadedMenu

-----------------------------------------------------------------------------
(* Properties.                                                             *)

\* Although the check, the products and the status are three transactions, the
\* products of an import are created exactly once when it is confirmed, and
\* not at all before (confirm_import), unless two confirms of it overlapped or
\* one died between its commits: a confirm that fails on a category leaves
\* nothing behind, and can be repeated.
CreatedOnce ==
  \A i \in Imports \ doubtful :
    created[i] = IF i \in Confirmed \/ \E r \in Calls : calls[r].import = i /\ At(r, "mark")
                 THEN 1 ELSE 0

\* The agent sends only a file that was confirmed; and as long as none is set
\* as official, never one that a file uploaded after it, and confirmed too,
\* has replaced (_get_uploaded_menu_url, _next_version), however uploads and
\* confirms overlap.
MenuIsServed ==
  \A i \in MenuSent :
    /\ i \in Confirmed
    /\ official = NoCall => \A j \in Confirmed \cap Files : i \notin earlier[j]

\* Every import that has started ends: inserts that wait for each other's
\* categories do not wait for ever (_ensure_category, get_db).
EveryCallEnds == \A r \in Calls : ~At(r, "idle") ~> At(r, "done")

-----------------------------------------------------------------------------
(* What the documentation says and the code does not do.                   *)

\* "Return category ID, creating the category if it doesn't exist."
\* (_ensure_category): an import does not fail over a category that is not on
\* the menu any more.  A soft-deleted one keeps its name for ever.
DeletedCategoryIsCreated ==
  [][\A r \in Calls : DuplicateCategory(r) =>
       \A c \in Wanted(r) : category[c] # "inactive"]_menuVars

\* "Import already confirmed" (confirm_import): once an import is confirmed, no
\* confirm of it creates products any more.
ConfirmedIsClosed ==
  [][\A i \in Imports : i \in Confirmed => created'[i] = created[i]]_menuVars

\* "The tenant's most recently confirmed uploaded menu PDF"
\* (_get_uploaded_menu_url): confirming a file makes it the one that is sent.
LatestConfirmedIsServed ==
  [][\A r \in Calls, i \in Files :
       MarkConfirmed(r) /\ calls[r].import = i => i \in UploadedMenu']_menuVars
-----------------------------------------------------------------------------
(* The inductive invariants behind the proofs.                             *)

\* A request that confirms an import has one that is on record.
CallInv ==
  \A r \in Calls :
    /\ calls[r].at \in {"mark", "point"} => calls[r].import \in Imports
    /\ calls[r].import \in Imports => calls[r].import \in Recorded
    /\ At(r, "point") => calls[r].import \in Confirmed \cap Files

\* Of an import that is not doubtful, one confirm at most is past the check,
\* and it is the only one that may have created its products.
CreateInv ==
  \A i \in Imports \ doubtful :
    /\ \A p, q \in Confirming(i) : p = q
    /\ \A p \in Confirming(i) :
         /\ import[i].status = "PENDING"
         /\ created[i] = IF At(p, "mark") THEN 1 ELSE 0
    /\ Confirming(i) = {} => created[i] = IF i \in Confirmed THEN 1 ELSE 0

\* What was on record when a version was read has a lower version.
VersionInv ==
  /\ official # NoCall => official \in Confirmed
  /\ \A j \in Imports : \A i \in earlier[j] :
       i \in Recorded /\ import[i].version < import[j].version
=============================================================================
