----------------------------- MODULE IncidentTypes -----------------------------
(***************************************************************************)
(* The types of incidents (incident-types) and the incidents that name     *)
(* them.  An edit reads a row and, after an await, writes the whole row;   *)
(* a type can be deleted, and an incident filed, in between.  The database *)
(* keeps slugs unique, and every type that an incident names.              *)
(* The entity computes the slug from its name whenever it is built, also   *)
(* when it is built from a row: an edit writes the slug of the old name.   *)
(***************************************************************************)
CONSTANTS
    TypeIds,        \* given out once each
    TypeNames,
    SlugOf,         \* [TypeNames -> slugs]
    TypeEdits,      \* requests that edit a type
    Reports,        \* requests that file an incident
    Keep            \* the body of an edit has no name

ASSUME SlugsAssumption == DOMAIN SlugOf = TypeNames

VARIABLES
    typeRow,        \* [TypeIds -> state, and name and slug of the row]
    edit,           \* per request: step, type, name in the body, entity in memory, row read
    lastEdit,       \* history: per type, the edit that was written last
    incident        \* per request: step and type

incidentTypeVars == <<typeRow, edit, lastEdit, incident>>

-----------------------------------------------------------------------------
TypeExists(t) == typeRow[t].state = "stored"

\* new IncidentType(props): whatever slug is passed, generateSlug(props.name) replaces it.
Entity(name) == [name |-> name, slug |-> SlugOf[name]]

\* Mutant of FromRow: the entity keeps the slug it is given.
FromRowWhole(row) == row

\* IncidentTypeAssembler.fromPrisma: built anew, with the slug of the row's name.
FromRow(row) == Entity(row.name)

\* The unique index on the slug.
Duplicate(t, e) == \E u \in TypeIds \ {t} : TypeExists(u) /\ typeRow[u].row.slug = e.slug

\* The body's fields over those of the entity; the slug stays as it was built.
Edited(e, body) == IF body = Keep THEN e ELSE [e EXCEPT !.name = body]

\* An incident names the type.
Named(t) == \E i \in Reports : incident[i].step = "stored" /\ incident[i].type = t

-----------------------------------------------------------------------------
CreateType(t, name) ==
    /\ typeRow[t].state = "unused"
    /\ ~Duplicate(t, Entity(name))
    /\ typeRow' = [typeRow EXCEPT ![t] = [state |-> "stored", row |-> Entity(name)]]
    /\ UNCHANGED <<edit, lastEdit, incident>>

\* PUT: findById, and the fields that are in the body.
ReadType(r, t, body) ==
    /\ edit[r].step = "none" /\ TypeExists(t)
    /\ edit' = [edit EXCEPT ![r] = [step |-> "write", type |-> t, body |-> body,
                                     read |-> typeRow[t].row,
                                     held |-> Edited(FromRow(typeRow[t].row), body)]]
    /\ UNCHANGED <<typeRow, lastEdit, incident>>

\* update where id: of a row that is still there, and no other has the slug.
WriteType(r) ==
    LET t == edit[r].type
    IN  /\ edit[r].step = "write"
        /\ TypeExists(t) /\ ~Duplicate(t, edit[r].held)
        /\ typeRow' = [typeRow EXCEPT ![t].row = edit[r].held]
        /\ edit' = [edit EXCEPT ![r].step = "done"]
        /\ lastEdit' = [lastEdit EXCEPT ![t] = {r}]
        /\ UNCHANGED incident

\* No row, the slug or the internal id of another row, or the query fails.
EditFails(r) ==
    /\ edit[r].step = "write"
    /\ edit' = [edit EXCEPT ![r].step = "failed"]
    /\ UNCHANGED <<typeRow, lastEdit, incident>>

\* The delete fails like the findById before it when there is no row.
DeleteType(t) ==
    /\ TypeExists(t) /\ ~Named(t)
    /\ typeRow' = [typeRow EXCEPT ![t].state = "deleted"]
    /\ UNCHANGED <<edit, lastEdit, incident>>

\* IncidentsService.create: findById of the type, then add.
FindIncidentType(i, t) ==
    /\ incident[i].step = "none" /\ TypeExists(t)
    /\ incident' = [incident EXCEPT ![i] = [step |-> "add", type |-> t]]
    /\ UNCHANGED <<typeRow, edit, lastEdit>>

\* The foreign key refuses an incident whose type has gone since.
AddIncident(i) ==
    /\ incident[i].step = "add"
    /\ incident' = [incident EXCEPT ![i].step = IF TypeExists(incident[i].type) THEN "stored" ELSE "failed"]
    /\ UNCHANGED <<typeRow, edit, lastEdit>>

IncidentTypesInit ==
    /\ typeRow = [t \in TypeIds |-> [state |-> "unused", row |-> Keep]]
    /\ edit = [r \in TypeEdits |-> [step |-> "none", type |-> Keep, body |-> Keep, read |-> Keep,
                                    held |-> Keep]]
    /\ lastEdit = [t \in TypeIds |-> {}]
    /\ incident = [i \in Reports |-> [step |-> "none", type |-> Keep]]

Bodies == TypeNames \union {Keep}

IncidentTypesNext ==
    \/ \E t \in TypeIds :
          \/ \E name \in TypeNames : CreateType(t, name)
          \/ \E r \in TypeEdits, body \in Bodies : ReadType(r, t, body)
          \/ DeleteType(t)
          \/ \E i \in Reports : FindIncidentType(i, t)
    \/ \E r \in TypeEdits : WriteType(r) \/ EditFails(r)
    \/ \E i \in Reports : AddIncident(i)

IncidentTypesSpec == IncidentTypesInit /\ [][IncidentTypesNext]_incidentTypeVars

-----------------------------------------------------------------------------
Rows == [name : TypeNames, slug : {SlugOf[n] : n \in TypeNames}]

IncidentTypesTypeOK ==
    /\ typeRow \in [TypeIds -> [state : {"unused"}, row : {Keep}]
                               \union [state : {"stored", "deleted"}, row : Rows]]
    /\ edit \in [TypeEdits -> [step : {"none"}, type : {Keep}, body : {Keep}, read : {Keep},
                                held : {Keep}]
                              \union [step : {"write", "done", "failed"}, type : TypeIds,
                                      body : Bodies, read : Rows, held : Rows]]
    /\ lastEdit \in [TypeIds -> SUBSET TypeEdits]
    /\ incident \in [Reports -> [step : {"none"}, type : {Keep}]
                                \union [step : {"add", "stored", "failed"}, type : TypeIds]]

(***************************************************************************)
(* The type an incident was filed under is there, whatever deletion was    *)
(* under way when it was filed: incidents are always shown with it.        *)
(***************************************************************************)
IncidentsHaveTypes ==
    \A i \in Reports : incident[i].step = "stored" => TypeExists(incident[i].type)

(***************************************************************************)
(* The slug of a type is that of its name, or, after a rename, that of the *)
(* name the rename read: it is never further behind, however many renames  *)
(* follow, and the next edit that renames nothing makes up for it.         *)
(***************************************************************************)
SlugsFollowNames ==
    \A t \in TypeIds : TypeExists(t) =>
        \/ typeRow[t].row.slug = SlugOf[typeRow[t].row.name]
        \/ \E r \in lastEdit[t] :
              edit[r].body # Keep /\ typeRow[t].row.slug = SlugOf[edit[r].read.name]
=============================================================================
