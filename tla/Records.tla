------------------------------- MODULE Records -------------------------------
(***************************************************************************)
(* Records of one object type (record.rs) under the permission decision of *)
(* rbac.rs.  A call loads the record, decides on what it read and builds   *)
(* the whole new data map; a transaction of its own then stores that map   *)
(* with the audit row.  Other calls commit in between.                     *)
(*                                                                         *)
(* Roles, and so the grants of an actor, do not change: there is no        *)
(* operation that edits a role.  The object type does not change either.   *)
(* One field stands for owner_id, assignee_id and user_id, and the event of*)
(* a create or an update, which repeats the verb of its audit row, is left *)
(* out.  A condition of a grant on the actor has the same answer in every  *)
(* call of that actor and is settled in Grants; one on the record is not.  *)
(***************************************************************************)
EXTENDS Naturals, Sequences, FiniteSets, SequencesExt

CONSTANTS
    Requests,    \* slots for concurrently running calls
    Ids,         \* record ids
    Actors,
    Values,      \* values of the fields other than owner_id
    Plain,       \* fields anyone who may write the record may set
    Restricted,  \* fields that need a grant with a field rule
    Required,    \* fields that must have a value
    Default,     \* the default of each field, or Missing
    Grants,      \* the grants of each actor
    enable_advanced_permissions,  \* the flag: conditions of grants count
    Patches,     \* bound: the field values a request may carry
    MaxRows,     \* bound: audit rows
    Null,        \* a null that is stored
    Missing,     \* the field is not in the data map
    None

Owner  == "owner_id"   \* the field that makes an actor an owner
Fields == Plain \cup Restricted \cup {Owner}
Data   == [Fields -> Values \cup Actors \cup {Null, Missing}]

Verbs  == {"create", "update", "archive", "restore"}
\* A condition on a field of the record: the values its comparison lets pass.
Condition == [field: Fields, values: SUBSET (Values \cup Actors \cup {Null})]
\* fields: the restricted fields the field rule of the grant permits.
Grant  == [action: Verbs \cup {"read", "manage"}, scope: {"tenant", "own"},
           conditions: SUBSET Condition, fields: SUBSET Restricted]

ASSUME RecordsAssumption ==
    /\ Owner \notin Plain \cup Restricted /\ Plain \cap Restricted = {}
    /\ Required \subseteq Fields
    /\ {Null, Missing} \cap (Values \cup Actors) = {} /\ Null # Missing
    /\ None \notin Actors
    /\ Default \in Data
    /\ \A patch \in Patches : /\ DOMAIN patch \subseteq Fields
                              /\ Range(patch) \subseteq Values \cup Actors \cup {Null}
    /\ Grants \in [Actors -> SUBSET Grant]
    /\ enable_advanced_permissions \in BOOLEAN
    /\ MaxRows \in Nat

VARIABLES
    records,   \* the records table
    call,      \* what each running call has read and does next
    log        \* the audit rows of records, oldest first

vars == <<records, call, log>>

Record   == [data: Data, lifecycle: {"active", "archived"}, created_by: Actors]
NoRecord == [data |-> None, lifecycle |-> "active", created_by |-> None]
Idle     == [step |-> "idle"]
Row(verb, actor, id, before, after) ==
    [verb |-> verb, by |-> actor, id |-> id, before |-> before, after |-> after]

Exists(id) == records[id] # NoRecord

TypeOK ==
    /\ \A id \in Ids : Exists(id) => records[id] \in Record
    /\ \A q \in Requests : call[q].step \in Verbs \cup {"idle"}
    /\ \A i \in DOMAIN log : log[i].verb \in Verbs \cup {"denied"} /\ log[i].by \in Actors

Init ==
    /\ records = [id \in Ids |-> NoRecord]
    /\ call = [q \in Requests |-> Idle]
    /\ log = <<>>

-----------------------------------------------------------------------------
(* The permission decision *)

\* owner_candidates
Owns(actor, created_by, data) == actor = created_by \/ data[Owner] = actor

\* conditions_ok: a field that is missing does not stop the grant.
MeetsConditions(g, data) ==
    enable_advanced_permissions =>
        \A c \in g.conditions : data[c.field] = Missing \/ data[c.field] \in c.values

\* The grants of actor that authorise verb on a record.
ApplicableGrants(actor, verb, created_by, data) ==
    {g \in Grants[actor] :
        /\ g.action \in {verb, "manage"}
        /\ g.scope = "own" => Owns(actor, created_by, data)
        /\ MeetsConditions(g, data)}

\* A create has no target: scopes and conditions that need a record pass.
CreateGrants(actor) == {g \in Grants[actor] : g.action \in {"create", "manage"}}

\* Mutant: a field rule of any grant of the actor will do.
FieldPermittedByAny(grants, f) ==
    f \in Restricted => \E actor \in Actors : \E g \in Grants[actor] : f \in g.fields

FieldPermitted(grants, f) == f \in Restricted => \E g \in grants : f \in g.fields

\* Mutant: the new data is not validated.
Unvalidated(data) == TRUE

\* validate_against_type
Valid(data) == \A f \in Required : data[f] \notin {Null, Missing}

\* The data map of a new record: the given values over the defaults.
Created(given) == [f \in Fields |-> IF f \in DOMAIN given THEN given[f] ELSE Default[f]]

\* Mutant: fields that are not mentioned are cleared.
PatchedAnew(data, patch) ==
    [f \in Fields |-> IF f \in DOMAIN patch /\ patch[f] # Null THEN patch[f] ELSE Missing]

\* The data map a patch makes of data; null takes the field out.
Patched(data, patch) ==
    [f \in Fields |-> IF f \notin DOMAIN patch THEN data[f]
                      ELSE IF patch[f] = Null THEN Missing ELSE patch[f]]

-----------------------------------------------------------------------------
\* The bound: rows left for what has begun.
Room == Len(log) + Cardinality({q \in Requests : call[q] # Idle}) < MaxRows

\* authorize, or a check of a field, refuses and leaves an audit row.
Deny(actor, id) ==
    /\ log' = Append(log, Row("denied", actor, id, None, None))
    /\ UNCHANGED <<records, call>>

Continue(q, next) ==
    /\ call' = [call EXCEPT ![q] = next]
    /\ UNCHANGED <<records, log>>

\* create_record up to its transaction
CreateRecordLoad(q, actor, id, given) ==
    LET grants == CreateGrants(actor) IN
    /\ call[q] = Idle /\ Room /\ ~Exists(id)
    /\ \A r \in Requests : call[r] # Idle => call[r].id # id
    /\ IF grants = {} \/ \E f \in DOMAIN given : ~FieldPermitted(grants, f)
       THEN Deny(actor, id)
       ELSE /\ Valid(Created(given))
            /\ Continue(q, [step |-> "create", by |-> actor, id |-> id,
                            after |-> Created(given)])

\* Mutant: the grants are picked on the record as the patch leaves it.
UpdateRecordLoadPatchedFirst(q, actor, id, patch) ==
    LET seen   == records[id]
        grants == ApplicableGrants(actor, "update", seen.created_by, Patched(seen.data, patch)) IN
    /\ call[q] = Idle /\ Room /\ Exists(id)
    /\ IF grants = {} \/ \E f \in DOMAIN patch : ~FieldPermitted(grants, f)
       THEN Deny(actor, id)
       ELSE /\ Valid(Patched(seen.data, patch))
            /\ Continue(q, [step |-> "update", by |-> actor, id |-> id,
                            before |-> seen.data, after |-> Patched(seen.data, patch),
                            fields |-> DOMAIN patch])

\* update_record up to its transaction: it reads the record once and computes
\* the whole data map from it.
UpdateRecordLoad(q, actor, id, patch) ==
    LET seen   == records[id]
        grants == ApplicableGrants(actor, "update", seen.created_by, seen.data) IN
    /\ call[q] = Idle /\ Room /\ Exists(id)
    /\ IF grants = {} \/ \E f \in DOMAIN patch : ~FieldPermitted(grants, f)
       THEN Deny(actor, id)
       ELSE /\ Valid(Patched(seen.data, patch))
            /\ Continue(q, [step |-> "update", by |-> actor, id |-> id,
                            before |-> seen.data, after |-> Patched(seen.data, patch),
                            fields |-> DOMAIN patch])

CreateRecordCommit(q) ==
    LET c == call[q] IN
    /\ c.step = "create"
    /\ records' = [records EXCEPT ![c.id] =
                     [data |-> c.after, lifecycle |-> "active", created_by |-> c.by]]
    /\ log' = Append(log, Row("create", c.by, c.id, None, c.after))
    /\ call' = [call EXCEPT ![q] = Idle]

\* The whole data map is written; lifecycle and creator are left alone.
UpdateRecordCommit(q) ==
    LET c == call[q] IN
    /\ c.step = "update"
    /\ records' = [records EXCEPT ![c.id].data = c.after]
    /\ log' = Append(log, Row("update", c.by, c.id, c.before, c.after))
    /\ call' = [call EXCEPT ![q] = Idle]

\* archive_record and restore_record: set_lifecycle
SetLifecycleLoad(q, actor, id, verb) ==
    LET seen == records[id] IN
    /\ call[q] = Idle /\ Room /\ Exists(id)
    /\ IF ApplicableGrants(actor, verb, seen.created_by, seen.data) = {}
       THEN Deny(actor, id)
       ELSE Continue(q, [step |-> verb, by |-> actor, id |-> id])

\* Mutant: no audit row is written.
LifecycleCommitUnaudited(q) ==
    LET c == call[q] IN
    /\ c.step \in {"archive", "restore"}
    /\ records' = [records EXCEPT ![c.id].lifecycle =
                     IF c.step = "archive" THEN "archived" ELSE "active"]
    /\ call' = [call EXCEPT ![q] = Idle]
    /\ UNCHANGED log

LifecycleCommit(q) ==
    LET c == call[q] IN
    /\ c.step \in {"archive", "restore"}
    /\ records' = [records EXCEPT ![c.id].lifecycle =
                     IF c.step = "archive" THEN "archived" ELSE "active"]
    /\ log' = Append(log, Row(c.step, c.by, c.id, None, None))
    /\ call' = [call EXCEPT ![q] = Idle]

\* A query fails or the client goes away before the commit.
Abort(q) ==
    /\ call[q] # Idle
    /\ Continue(q, Idle)

Rest == ~Room /\ UNCHANGED vars

Next ==
    \/ \E q \in Requests :
          \/ \E actor \in Actors, id \in Ids :
                \/ \E patch \in Patches : \/ CreateRecordLoad(q, actor, id, patch)
                                        \/ UpdateRecordLoad(q, actor, id, patch)
                \/ \E verb \in {"archive", "restore"} : SetLifecycleLoad(q, actor, id, verb)
          \/ CreateRecordCommit(q) \/ UpdateRecordCommit(q) \/ LifecycleCommit(q) \/ Abort(q)
    \/ Rest

Spec == Init /\ [][Next]_vars

-----------------------------------------------------------------------------
\* Row i wrote the data, or the lifecycle, of a record.
WroteData(i, id)      == log[i].id = id /\ log[i].verb \in {"create", "update"}
WroteLifecycle(i, id) == log[i].id = id /\ log[i].verb \in {"archive", "restore"}

(***************************************************************************)
(* The audit log replays to the table: a record's data is the after of the *)
(* last row that wrote it, it is archived when the last row that says so   *)
(* says archive, and what does not exist has no row but denials.           *)
(***************************************************************************)
LogReplays ==
    \A id \in Ids :
        IF Exists(id)
        THEN /\ \E i \in DOMAIN log :
                   /\ WroteData(i, id) /\ log[i].after = records[id].data
                   /\ \A j \in DOMAIN log : j > i => ~WroteData(j, id)
             /\ records[id].lifecycle = "archived" <=>
                   \E i \in DOMAIN log :
                       /\ log[i].id = id /\ log[i].verb = "archive"
                       /\ \A j \in DOMAIN log : j > i => ~WroteLifecycle(j, id)
        ELSE \A i \in DOMAIN log : log[i].id = id => log[i].verb = "denied"

(***************************************************************************)
(* A stored record has all its required fields, whichever of several       *)
(* concurrent updates wrote it last.                                       *)
(***************************************************************************)
RequiredFieldsPresent ==
    \A id \in Ids : Exists(id) =>
        \A f \in Required : records[id].data[f] \notin {Null, Missing}

\* The grants of actor that let it update a record with this data: the actor
\* is an owner where it must be, and no condition speaks against the data.
UpdateGrants(actor, id, data) ==
    {g \in Grants[actor] :
        /\ g.action \in {"update", "manage"}
        /\ g.scope = "own" => actor \in {data[Owner], records[id].created_by}
        /\ \/ ~enable_advanced_permissions
           \/ \A c \in g.conditions : data[c.field] \in c.values \cup {Missing}}

(***************************************************************************)
(* Every audited update was decided on data that was once stored: its      *)
(* actor's grants, on the owner and the fields the record then had, allow  *)
(* the update and every restricted field it changes.  An update may make   *)
(* its actor lose the grant, or another may have done so since the read;   *)
(* it may not win the grant by what it stores itself.                      *)
(***************************************************************************)
EveryUpdateAuthorised ==
    \A i \in DOMAIN log : log[i].verb = "update" =>
        LET row == log[i]  grants == UpdateGrants(row.by, row.id, row.before) IN
        /\ \E j \in 1..(i - 1) : log[j].id = row.id /\ log[j].after = row.before
        /\ grants # {}
        /\ \A f \in Restricted : row.after[f] # row.before[f] =>
               \E g \in grants : f \in g.fields

\* What call q stores differs from what is stored only in fields it names.
ChangesOnlyNamed(q) ==
    \A f \in Fields \ call[q].fields :
        records'[call[q].id].data[f] = records[call[q].id].data[f]

\* The record is as call q read it.
Undisturbed(q) == records[call[q].id].data = call[q].before

(***************************************************************************)
(* A stored update changes only the fields its patch names (the doc of     *)
(* RecordPatch).                                                           *)
(***************************************************************************)
OnlyPatchedFieldsChange ==
    [][\A q \in Requests : UpdateRecordCommit(q) => ChangesOnlyNamed(q)]_vars

(***************************************************************************)
(* A restricted field of a stored record changes only when an actor        *)
(* updates it whose grants, on the record as that update read it, permit   *)
(* that field, or when an overtaken update puts back the value it read.    *)
(***************************************************************************)
RestrictedChangedByPermitted ==
    [][\A id \in Ids, f \in Restricted :
           Exists(id) /\ records'[id].data[f] # records[id].data[f] =>
               \E q \in Requests :
                   /\ UpdateRecordCommit(q) /\ call[q].id = id
                   /\ \/ \E g \in UpdateGrants(call[q].by, id, call[q].before) :
                            f \in g.fields
                      \/ /\ ~Undisturbed(q)
                         /\ records'[id].data[f] = call[q].before[f]]_vars
=============================================================================
