------------------------------- MODULE Builder -------------------------------
(***************************************************************************)
(* The definitions of one tenant and the calls that write them: builder    *)
(* drafts and their publication, the install of a template or of the       *)
(* business modules, and definitions given directly (builder.rs,           *)
(* object.rs, workflow.rs, modules/src/install.rs); with the migration     *)
(* planner reading them (migration.rs).                                    *)
(*                                                                         *)
(* No call is one transaction: each workflow, object type, sample record,  *)
(* report and audit row is stored by itself, other calls run in between,   *)
(* and a call may be cut off between any two of them.                      *)
(*                                                                         *)
(* A stored definition is represented by its origin: "modules", a          *)
(* template, or the name of a definition given by a client.  Nothing here  *)
(* is ever deleted: there is no operation that does.                       *)
(***************************************************************************)
EXTENDS MigrationPlan

CONSTANTS
    Slots,        \* slots for concurrently running calls
    Definitions,  \* the definitions clients give, by name
    Direct,       \* those that are stored directly and not as a draft
    DraftIds,     \* ids of builder drafts
    Installable,  \* bound: the templates that get installed
    BadKeys,      \* keys that are not snake_case
    SampleCap,    \* bound: sample records of one kind
    UserTypes,    \* bound: types that get records not from a template
    MaxRecords,   \* bound: records of such a type
    MaxCalls,     \* bound: calls started
    MaxFaults     \* bound: queries that fail and calls that are cut off

Drafts  == DOMAIN Definitions \ Direct
Origins == DOMAIN Definitions \cup TemplateKeys \cup {"modules"}

DraftKeys == {Definitions[v].key : v \in Drafts}
\* ORDER BY key of list_object_types, for the shipped types.
ShippedKeys == <<"account", "activity", "bill", "budget", "candidate", "contact",
    "contract", "deal", "department", "employee", "inventory_movement", "invoice",
    "lead", "leave_request", "milestone", "payment", "product", "project",
    "purchase_order", "purchase_request", "receipt", "ticket", "vendor", "warehouse">>
KeyOrder == ShippedKeys
    \o SetToSeq({Definitions[v].key : v \in DOMAIN Definitions} \ ToSet(ShippedKeys))
TypeKeys == ToSet(ShippedKeys) \cup {Definitions[v].key : v \in DOMAIN Definitions}

NoneIsNoKey(objects) ==
    \A i \in DOMAIN objects : None \notin {objects[i].key} \cup FieldKeys(objects[i].fields)

ASSUME BuilderAssumption ==
    /\ Direct \subseteq DOMAIN Definitions
    /\ DOMAIN Definitions \cap (TemplateKeys \cup {"modules"}) = {}
    /\ None \notin Origins \cup DraftIds
    /\ Installable \subseteq TemplateKeys
    /\ UserTypes \subseteq TypeKeys
    /\ SampleCap \in Nat /\ MaxRecords \in Nat /\ MaxCalls \in Nat
    /\ MaxFaults \in Nat

\* Definitions are finitely many, each with a sequence of fields; and None is
\* no template, nor the key of an object type or a field.
ASSUME KeysAssumption ==
    /\ IsFiniteSet(DOMAIN Definitions)
    /\ \A v \in DOMAIN Definitions : Definitions[v].fields \in Seq(FieldDefinition)
    /\ NoneIsNoKey(object_types)
    /\ \A t \in TemplateKeys : template_by_key[t] # None /\ NoneIsNoKey(template_by_key[t])
    /\ \A v \in DOMAIN Definitions : NoneIsNoKey(<<Definitions[v]>>)

-----------------------------------------------------------------------------
(* What an origin defines *)

\* The object type an origin defines for a key.
ObjectType ==
    [origin \in Origins |->
        IF origin = "modules" THEN [key \in Keys(object_types) |-> ByKey(object_types, key)]
        ELSE IF origin \in TemplateKeys
        THEN [key \in Keys(template_by_key[origin]) |->
                 to_object_type(ByKey(template_by_key[origin], key))]
        ELSE [key \in {Definitions[origin].key} |-> to_object_type(Definitions[origin])]]

WorkflowsOf(defs) == {defs[i].workflow : i \in DOMAIN defs} \ {None}

\* The workflows an origin defines.
WorkflowsBy(origin) ==
    IF origin = "modules" THEN ToSet(workflows)
    ELSE IF origin \in TemplateKeys THEN WorkflowsOf(template_by_key[origin])
    ELSE WorkflowsOf(<<Definitions[origin]>>)

\* The workflow an origin defines for a key.
WorkflowDef ==
    [origin \in Origins |->
        [key \in {w.key : w \in WorkflowsBy(origin)} |->
            CHOOSE w \in WorkflowsBy(origin) : w.key = key]]

WorkflowKeys == UNION {DOMAIN WorkflowDef[origin] : origin \in Origins}

-----------------------------------------------------------------------------
VARIABLES
    types,       \* object_types: the origin of the definition of each key
    flows,       \* workflows: the origin of each workflow
    roles,       \* the business roles
    records,     \* the number of active records of each type
    invoices,    \* sample invoices that were submitted, and wait for approval
    drafts,      \* builder_drafts, unique by key
    installs,    \* the templates with an install audit row
    reports,     \* saved reports and dashboards
    announced,   \* keys with an object_published event
    call,        \* what each running call does next
    calls,       \* calls started so far
    faults       \* failures so far

vars == <<types, flows, roles, records, invoices, drafts, installs, reports, announced, call, calls, faults>>
data == <<types, flows, roles, records, invoices, drafts, installs, reports, announced>>

Idle    == [step |-> "idle"]
NoDraft == [id |-> None, version |-> None, status |-> "draft"]

Stored(types_, key) == ObjectType[types_[key]][key]

\* list_object_types
TypesNow == LET defined == Those(KeyOrder, {k \in TypeKeys : types[k] # None}) IN
    [i \in DOMAIN defined |-> Stored(types, defined[i])]

TypeOK ==
    /\ \A k \in TypeKeys : types[k] # None => k \in DOMAIN ObjectType[types[k]]
    /\ \A w \in WorkflowKeys : flows[w] # None => w \in DOMAIN WorkflowDef[flows[w]]
    /\ roles \subseteq RoleKeys
    /\ records \in [TypeKeys -> Nat]
    /\ invoices \in [submitted: Nat, waiting: Nat]
    /\ \A k \in DraftKeys : drafts[k] # NoDraft =>
          /\ drafts[k].id \in DraftIds /\ Definitions[drafts[k].version].key = k
          /\ drafts[k].status \in {"draft", "validated", "published"}
          /\ \A j \in DraftKeys \ {k} : drafts[j].id # drafts[k].id
    /\ installs \subseteq TemplateKeys
    /\ announced \subseteq DraftKeys
    /\ calls \in 0..MaxCalls /\ faults \in 0..MaxFaults

Init ==
    /\ types = [k \in TypeKeys |-> None]
    /\ flows = [w \in WorkflowKeys |-> None]
    /\ roles = {}
    /\ records = [k \in TypeKeys |-> 0]
    /\ invoices = [submitted |-> 0, waiting |-> 0]
    /\ drafts = [k \in DraftKeys |-> NoDraft]
    /\ installs = {} /\ reports = {} /\ announced = {}
    /\ call = [s \in Slots |-> Idle]
    /\ calls = 0 /\ faults = 0

\* A call begins in a free slot; what it reads first is in begin.
Begin(s, begin) ==
    /\ call[s] = Idle /\ calls < MaxCalls
    /\ call' = [call EXCEPT ![s] = begin]
    /\ calls' = calls + 1
    /\ UNCHANGED faults

Goto(s, next) ==
    /\ call' = [call EXCEPT ![s] = next]
    /\ UNCHANGED <<calls, faults>>

AtStep(s, step) == call[s].step = step

-----------------------------------------------------------------------------
(* Validation *)

\* validate_key
validate_key(key) == key \notin BadKeys

\* Mutant: a reference may name a type that does not exist yet.
RefUnchecked(def, f, existing) == TRUE

RefResolves(def, f, existing) ==
    f.type = "record_ref" => f.ref # None /\ (f.ref \in existing \/ f.ref = def.key)

\* validate_builder_definition reports no issue; existing are the keys of the
\* tenant's object types.
validate_builder_definition(def, existing) ==
    /\ validate_key(def.key)
    /\ def.fields # <<>>
    /\ Cardinality(FieldKeys(def.fields)) = Len(def.fields)
    /\ \A i \in DOMAIN def.fields :
          LET f == def.fields[i] IN
          /\ validate_key(f.key)
          /\ f.type = "enum" => f.options # {}
          /\ RefResolves(def, f, existing)
          /\ f.restricted /\ f.ai => def.confirmed
    /\ def.display # None => def.display \in FieldKeys(def.fields)
    /\ def.workflow # None => validate_workflow(def.workflow)
    /\ \A rel \in def.relations : (rel.to = def.key \/ rel.to \in existing) /\ ~rel.many

Existing == {k \in TypeKeys : types[k] # None}
Valid(version) == validate_builder_definition(Definitions[version], Existing)

-----------------------------------------------------------------------------
(* save_builder_draft *)

DraftRows == {drafts[k] : k \in DraftKeys} \ {NoDraft}

\* The definition is validated first.  id is the id given, or a new one.
SaveDraftValidate(s, id, version) ==
    /\ version \in Drafts
    /\ Begin(s, [step |-> "save", id |-> id, of |-> version,
                 status |-> IF Valid(version) THEN "validated" ELSE "draft"])
    /\ UNCHANGED data

\* Mutant: the status of an existing draft is left alone.
SaveDraftKeepsStatus(s) ==
    LET c == call[s]  key == Definitions[c.of].key IN
    /\ AtStep(s, "save")
    /\ \/ /\ drafts[key] = NoDraft
          /\ c.id \notin {row.id : row \in DraftRows}
          /\ drafts' = [drafts EXCEPT ![key] =
                          [id |-> c.id, version |-> c.of, status |-> c.status]]
       \/ /\ drafts[key] # NoDraft
          /\ drafts' = [drafts EXCEPT ![key].version = c.of]
       \/ /\ drafts[key] = NoDraft
          /\ c.id \in {row.id : row \in DraftRows}
          /\ UNCHANGED drafts
    /\ Goto(s, Idle)
    /\ UNCHANGED <<types, flows, roles, records, invoices, installs, reports, announced>>

\* The upsert: a draft of this key keeps its id; an id in use by the draft of
\* another key is a conflict, unless this key has its row.
SaveDraftCommit(s) ==
    LET c == call[s]  key == Definitions[c.of].key IN
    /\ AtStep(s, "save")
    /\ \/ /\ drafts[key] = NoDraft
          /\ c.id \notin {row.id : row \in DraftRows}
          /\ drafts' = [drafts EXCEPT ![key] =
                          [id |-> c.id, version |-> c.of, status |-> c.status]]
       \/ /\ drafts[key] # NoDraft
          /\ drafts' = [drafts EXCEPT ![key] = [@ EXCEPT !.version = c.of, !.status = c.status]]
       \/ /\ drafts[key] = NoDraft
          /\ c.id \in {row.id : row \in DraftRows}
          /\ UNCHANGED drafts
    /\ Goto(s, Idle)
    /\ UNCHANGED <<types, flows, roles, records, invoices, installs, reports, announced>>

-----------------------------------------------------------------------------
(* Storing the definitions of a draft or a template, one after the other:  *)
(* create_workflow, then create_object_type, then on a conflict            *)
(* update_object_type, each a transaction of its own.                      *)

Objects(c) == IF c.kind = "install" THEN template_by_key[c.of] ELSE <<Definitions[c.of]>>
Def(c)     == Objects(c)[c.n]

\* Mutant: the object type is stored before its workflow.
TypeFirst(c) == [c EXCEPT !.step = "type"]

AtObject(c) == [c EXCEPT !.step = IF Def(c).workflow # None THEN "workflow" ELSE "type"]

AtReports(c) == [c EXCEPT !.step = IF template_reports[c.of] # <<>> THEN "report" ELSE "audit",
                          !.n = 1]
AtSamples(c) == IF c.samples /\ sample_records[c.of] # <<>>
                THEN [c EXCEPT !.step = "sample", !.n = 1] ELSE AtReports(c)

\* Mutant: the last object of a template is left out.
AllButLast(c) ==
    CASE c.kind = "publish"          -> [c EXCEPT !.step = "mark"]
      [] c.n + 1 < Len(Objects(c))   -> AtObject([c EXCEPT !.n = @ + 1])
      [] OTHER                       -> AtSamples(c)

\* After the type of object n
AfterType(c) ==
    CASE c.kind = "publish"      -> [c EXCEPT !.step = "mark"]
      [] c.n < Len(Objects(c))   -> AtObject([c EXCEPT !.n = @ + 1])
      [] OTHER                   -> AtSamples(c)

CreateWorkflow(s) ==
    LET c == call[s]  wf == Def(c).workflow IN
    /\ AtStep(s, "workflow")
    /\ validate_workflow(wf)
    /\ flows' = [flows EXCEPT ![wf.key] = c.of]
    /\ Goto(s, [c EXCEPT !.step = "type"])
    /\ UNCHANGED <<types, roles, records, invoices, drafts, installs, reports, announced>>

CreateObjectType(s) ==
    LET c == call[s]  key == Def(c).key IN
    /\ AtStep(s, "type")
    /\ validate_object_type(to_object_type(Def(c)))
    /\ \/ /\ types[key] = None
          /\ types' = [types EXCEPT ![key] = c.of]
          /\ Goto(s, AfterType(c))
       \/ /\ types[key] # None
          /\ Goto(s, [c EXCEPT !.step = "retype"])
          /\ UNCHANGED types
    /\ UNCHANGED <<flows, roles, records, invoices, drafts, installs, reports, announced>>

UpdateObjectType(s) ==
    LET c == call[s] IN
    /\ AtStep(s, "retype")
    /\ validate_object_type(to_object_type(Def(c)))
    /\ types' = [types EXCEPT ![Def(c).key] = c.of]
    /\ Goto(s, AfterType(c))
    /\ UNCHANGED <<flows, roles, records, invoices, drafts, installs, reports, announced>>

-----------------------------------------------------------------------------
(* publish_builder_draft *)

\* The draft is read and validated.  What is read of the draft can only change
\* after it, and object types only appear, so one step stands for both reads.
PublishBegin(s, key) ==
    /\ drafts[key] # NoDraft
    /\ Valid(drafts[key].version)
    /\ Begin(s, AtObject([step |-> "type", kind |-> "publish", of |-> drafts[key].version,
                          n |-> 1, id |-> drafts[key].id]))
    /\ UNCHANGED data

\* The draft of the id is marked, whatever its definition is by now.
PublishMark(s) ==
    LET c == call[s] IN
    /\ AtStep(s, "mark")
    /\ drafts' = [k \in DraftKeys |->
                    IF drafts[k].id = c.id THEN [drafts[k] EXCEPT !.status = "published"]
                    ELSE drafts[k]]
    /\ Goto(s, [c EXCEPT !.step = "event"])
    /\ UNCHANGED <<types, flows, roles, records, invoices, installs, reports, announced>>

\* The event has a transaction of its own.
PublishEvent(s) ==
    LET c == call[s] IN
    /\ AtStep(s, "event")
    /\ announced' = announced \cup {Definitions[c.of].key}
    /\ Goto(s, Idle)
    /\ UNCHANGED <<types, flows, roles, records, invoices, drafts, installs, reports>>

-----------------------------------------------------------------------------
(* install_builder_template: after the definitions, the sample records     *)
(* one by one, the reports and the dashboard, and the audit row.  The      *)
(* definitions are not validated as drafts are.                            *)

InstallBegin(s, template, samples) ==
    /\ template \in Installable
    /\ Begin(s, AtObject([step |-> "type", kind |-> "install", of |-> template, n |-> 1,
                          samples |-> samples, made |-> 0]))
    /\ UNCHANGED data

Wanted(number) == IF number < SampleCap THEN number ELSE SampleCap

NextSample(c) ==
    IF c.n < Len(sample_records[c.of])
    THEN [c EXCEPT !.step = "sample", !.n = @ + 1, !.made = 0] ELSE AtReports(c)

\* create_record; a record the type no longer accepts ends the install.
InstallSample(s) ==
    LET c      == call[s]
        sample == sample_records[c.of][c.n] IN
    /\ AtStep(s, "sample")
    /\ IF AcceptsRecord(Stored(types, sample.type), sample.data)
       THEN /\ records' = [records EXCEPT ![sample.type] = @ + 1]
            /\ Goto(s, IF c.made + 1 < Wanted(sample.number) THEN [c EXCEPT !.made = @ + 1]
                       ELSE IF sample.type = "invoice"
                       THEN [c EXCEPT !.step = "submit", !.made = 0] ELSE NextSample(c))
       ELSE UNCHANGED records /\ Goto(s, Idle)
    /\ UNCHANGED <<types, flows, roles, invoices, drafts, installs, reports, announced>>

\* The transitions of that key the invoices of the tenant have from a state.
InvoiceMoves(key, from) ==
    LET w == Stored(types, "invoice").workflow IN
    {t \in WorkflowDef[flows[w]][w].transitions : t.key = key /\ t.from = from}

AfterInvoice(c) ==
    IF c.made + 1 < Wanted(3) THEN [c EXCEPT !.step = "submit", !.made = @ + 1]
    ELSE NextSample(c)

\* The first invoices are submitted; one that cannot be is passed over, as its
\* approval then is.
InstallSubmit(s) ==
    LET c == call[s] IN
    /\ AtStep(s, "submit")
    /\ \/ /\ InvoiceMoves("submit", "draft") # {}
          /\ invoices' = [invoices EXCEPT !.submitted = @ + 1]
          /\ Goto(s, [c EXCEPT !.step = "approve"])
       \/ /\ faults < MaxFaults /\ faults' = faults + 1
          /\ call' = [call EXCEPT ![s] = AfterInvoice(c)]
          /\ UNCHANGED <<invoices, calls>>
    /\ UNCHANGED <<types, flows, roles, records, drafts, installs, reports, announced>>

\* Where the transition needs approval the invoice waits for it.
InstallApprove(s) ==
    LET c == call[s] IN
    /\ AtStep(s, "approve")
    /\ \/ /\ \E t \in InvoiceMoves("approve", "submitted") :
                invoices' = [submitted |-> invoices.submitted - 1,
                             waiting |-> invoices.waiting + IF t.approval THEN 1 ELSE 0]
          /\ Goto(s, AfterInvoice(c))
       \/ /\ faults < MaxFaults /\ faults' = faults + 1
          /\ call' = [call EXCEPT ![s] = AfterInvoice(c)]
          /\ UNCHANGED <<invoices, calls>>
    /\ UNCHANGED <<types, flows, roles, records, drafts, installs, reports, announced>>

\* A report or dashboard that cannot be saved is passed over.
InstallReport(s) ==
    LET c == call[s] IN
    /\ AtStep(s, "report")
    /\ \/ reports' = reports \cup {template_reports[c.of][c.n]} /\ UNCHANGED faults
       \/ faults < MaxFaults /\ faults' = faults + 1 /\ UNCHANGED reports
    /\ call' = [call EXCEPT ![s] =
                  IF c.n < Len(template_reports[c.of]) THEN [c EXCEPT !.n = @ + 1]
                  ELSE [c EXCEPT !.step = "audit"]]
    /\ UNCHANGED <<types, flows, roles, records, invoices, drafts, installs, announced, calls>>

InstallAudit(s) ==
    /\ AtStep(s, "audit")
    /\ installs' = installs \cup {call[s].of}
    /\ Goto(s, Idle)
    /\ UNCHANGED <<types, flows, roles, records, invoices, drafts, reports, announced>>

-----------------------------------------------------------------------------
(* install of the business modules: workflows, object types, roles.  Only  *)
(* workflows may be there already.                                         *)

ModulesBegin(s) ==
    /\ Begin(s, [step |-> "module_workflow", n |-> 1])
    /\ UNCHANGED data

\* The step after step n of a phase that has length steps.
NextModuleStep(c, length, phase) ==
    IF c.n < length THEN [c EXCEPT !.n = @ + 1]
    ELSE IF phase = "end" THEN Idle ELSE [step |-> phase, n |-> 1]

ModuleWorkflow(s) ==
    LET c == call[s] IN
    /\ AtStep(s, "module_workflow")
    /\ flows' = [flows EXCEPT ![workflows[c.n].key] = "modules"]
    /\ Goto(s, NextModuleStep(c, Len(workflows), "module_type"))
    /\ UNCHANGED <<types, roles, records, invoices, drafts, installs, reports, announced>>

ModuleType(s) ==
    LET c == call[s]  key == object_types[c.n].key IN
    /\ AtStep(s, "module_type")
    /\ validate_object_type(object_types[c.n])
    /\ IF types[key] = None
       THEN /\ types' = [types EXCEPT ![key] = "modules"]
            /\ Goto(s, NextModuleStep(c, Len(object_types), "module_role"))
       ELSE UNCHANGED types /\ Goto(s, Idle)
    /\ UNCHANGED <<flows, roles, records, invoices, drafts, installs, reports, announced>>

ModuleRole(s) ==
    LET c == call[s]  key == RoleOrder[c.n] IN
    /\ AtStep(s, "module_role")
    /\ IF key \notin roles
       THEN /\ roles' = roles \cup {key}
            /\ Goto(s, NextModuleStep(c, Len(RoleOrder), "end"))
       ELSE UNCHANGED roles /\ Goto(s, Idle)
    /\ UNCHANGED <<types, flows, records, invoices, drafts, installs, reports, announced>>

-----------------------------------------------------------------------------
(* Definitions given directly, and records *)

\* create_object_type and update_object_type: references are not resolved.
DefineType(version) ==
    LET key == Definitions[version].key IN
    /\ version \in Direct
    /\ validate_object_type(to_object_type(Definitions[version]))
    /\ calls < MaxCalls /\ calls' = calls + 1
    /\ types' = [types EXCEPT ![key] = version]
    /\ UNCHANGED <<flows, roles, records, invoices, drafts, installs, reports, announced, call, faults>>

CreateRecord(key) ==
    /\ key \in UserTypes /\ types[key] # None /\ records[key] < MaxRecords
    /\ records' = [records EXCEPT ![key] = @ + 1]
    /\ UNCHANGED <<types, flows, roles, invoices, drafts, installs, reports, announced, call, calls, faults>>

-----------------------------------------------------------------------------
(* plan_migration and migration_report: old_objects_and_counts reads the   *)
(* object types and the counts one after the other.                        *)

PlanBegin(s, for, template) ==
    /\ template \in Installable \cup {None}
    /\ Begin(s, [step |-> "plan", for |-> for, of |-> template, old |-> TypesNow])
    /\ UNCHANGED data

\* The report call s gives when it reads the counts now.
Report(s) ==
    LET c == call[s] IN
    build_report(c.for, c.old, records,
                 IF c.of = None THEN None ELSE template_by_key[c.of])

PlanReply(s) ==
    /\ AtStep(s, "plan")
    /\ Goto(s, Idle)
    /\ UNCHANGED data

-----------------------------------------------------------------------------
\* A query fails, or the client goes away, between two transactions.
Abort(s) ==
    /\ call[s] # Idle /\ faults < MaxFaults
    /\ call' = [call EXCEPT ![s] = Idle]
    /\ faults' = faults + 1
    /\ UNCHANGED calls /\ UNCHANGED data

Rest == calls = MaxCalls /\ (\A s \in Slots : call[s] = Idle) /\ UNCHANGED vars

Next ==
    \/ \E s \in Slots :
          \/ \E id \in DraftIds, v \in Drafts : SaveDraftValidate(s, id, v)
          \/ \E key \in DraftKeys : PublishBegin(s, key)
          \/ \E t \in Installable, samples \in BOOLEAN : InstallBegin(s, t, samples)
          \/ \E t \in Installable \cup {None}, for \in {"old", "selected"} :
                PlanBegin(s, for, t)
          \/ ModulesBegin(s)
          \/ SaveDraftCommit(s)
          \/ CreateWorkflow(s) \/ CreateObjectType(s) \/ UpdateObjectType(s)
          \/ PublishMark(s) \/ PublishEvent(s)
          \/ InstallSample(s) \/ InstallSubmit(s) \/ InstallApprove(s)
          \/ InstallReport(s) \/ InstallAudit(s)
          \/ ModuleWorkflow(s) \/ ModuleType(s) \/ ModuleRole(s)
          \/ PlanReply(s) \/ Abort(s)
    \/ \E v \in Direct : DefineType(v)
    \/ \E key \in UserTypes : CreateRecord(key)
    \/ Rest

Spec == Init /\ [][Next]_vars

-----------------------------------------------------------------------------
\* The types stored through the builder, a template or the modules.
Governed == {k \in TypeKeys : types[k] \notin Direct \cup {None}}

(***************************************************************************)
(* Every reference of a governed type names an object type of the tenant,  *)
(* also while a template or the modules are half installed, after an       *)
(* install was cut off, and when the type was checked long before it was   *)
(* stored.                                                                 *)
(***************************************************************************)
ReferencesResolve ==
    \A k \in Governed : LET fields == Stored(types, k).fields IN
        \A i \in DOMAIN fields :
            fields[i].type = "record_ref" => types[fields[i].ref] # None

(***************************************************************************)
(* The workflow of a governed type is there before the type is, and it can *)
(* start a record: its initial state is one of its states.                 *)
(***************************************************************************)
WorkflowsOfTypesExist ==
    \A k \in Governed : LET w == Stored(types, k).workflow IN
        w # None => /\ flows[w] # None
                    /\ validate_workflow(WorkflowDef[flows[w]][w])

(***************************************************************************)
(* A draft marked validated is valid now, however the tenant has changed   *)
(* since it was checked.                                                   *)
(***************************************************************************)
ValidatedStaysValid ==
    \A k \in DraftKeys : drafts[k].status = "validated" => Valid(drafts[k].version)

(***************************************************************************)
(* A draft marked published is valid (FEATURES.md: validation before       *)
(* publish).                                                               *)
(***************************************************************************)
PublishedIsValid ==
    \A k \in DraftKeys : drafts[k].status = "published" => Valid(drafts[k].version)

(***************************************************************************)
(* A mark comes after what it says: a draft that is marked published, and  *)
(* a key that was announced, has its object type; an install with an audit *)
(* row has all object types of its template and their workflows.           *)
(***************************************************************************)
MarksAreComplete ==
    /\ \A k \in DraftKeys : drafts[k].status = "published" \/ k \in announced => types[k] # None
    /\ \A t \in installs : \A i \in DOMAIN template_by_key[t] :
          LET def == template_by_key[t][i] IN
          /\ types[def.key] # None
          /\ def.workflow # None => flows[def.workflow.key] # None

\* The types whose workflow has a transition that needs approval.
GatedTypes ==
    {k \in Governed \cap ToSet(ShippedKeys) : LET w == Stored(types, k).workflow IN
        w # None /\ \E t \in WorkflowDef[flows[w]][w].transitions : t.approval}

(***************************************************************************)
(* With the business roles installed every gated type has a role that may  *)
(* decide, and no role that only creates and edits may (roles.rs: finance  *)
(* users can read invoices but cannot approve them), whichever definitions *)
(* have been installed over the modules' own.                              *)
(***************************************************************************)
GatesHaveApprovers ==
    roles = RoleKeys => \A k \in GatedTypes :
        /\ \E role \in roles : RoleMay(role, "approve", k)
        /\ \A role \in roles : RoleMay(role, "approve", k) => G("manage", k) \in business_roles[role]

(***************************************************************************)
(* A migration report loses nothing: see MigrationPlan.  Without a         *)
(* selected system it is the inventory of the old one.                     *)
(***************************************************************************)
ReportIsComplete(s) ==
    LET report == Report(s)  c == call[s] IN
    IF c.for = "selected" /\ c.of # None
    THEN /\ EveryFieldAccountedFor(report.plan, c.old, template_by_key[c.of])
         /\ EveryObstacleReported(report.plan, c.old, template_by_key[c.of])
         /\ TotalsAgree(report.plan)
         /\ report.summary = report.plan.summary
    ELSE /\ report.plan = None
         /\ report.summary.records_unmapped = total_records(report.source_system)
         /\ report.summary.conflicts = 0

ReportsAreComplete == [][\A s \in Slots : PlanReply(s) => ReportIsComplete(s)]_vars

\* Call s replaces the stored definition of a type by that of a template.
Replaces(s) == AtStep(s, "retype") /\ call[s].kind = "install" /\ UpdateObjectType(s)

\* The fields the plan for a template reports with a conflict of an object
Said(template, key, kind) ==
    LET plan == build_plan(TypesNow, records, template_by_key[template]) IN
    {x.field : x \in {x \in ToSet(plan.conflicts) : x.kind = kind /\ x.object = key}}

(***************************************************************************)
(* The planner and the installer agree: the fields an install takes from a *)
(* stored type are those the plan for the template calls dropped, and the  *)
(* required fields it adds are those the plan calls missing.               *)
(***************************************************************************)
ReplacedAsPlanned(s) ==
    LET key    == Def(call[s]).key
        before == FieldKeys(Stored(types, key).fields)
        after  == Stored(types', key)
    IN  /\ before \ FieldKeys(after.fields) = Said(call[s].of, key, "dropped")
        /\ {f \in FieldKeys(after.fields) \ before : field(after, f).required}
               = Said(call[s].of, key, "missing_required")

InstallDoesWhatThePlanSays == [][\A s \in Slots : Replaces(s) => ReplacedAsPlanned(s)]_vars

=============================================================================
