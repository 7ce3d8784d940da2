------------------------------- MODULE Catalog -------------------------------
(***************************************************************************)
(* The definitions the product ships: the object types, workflows and      *)
(* roles of the business modules (modules/src/schema.rs, roles.rs), the    *)
(* builder templates with their sample records (kernel/src/builder.rs),    *)
(* and what a definition must satisfy to be stored (object.rs,             *)
(* workflow.rs, field.rs).  There are no variables.                        *)
(*                                                                         *)
(* Labels, descriptions, icons and display flags are layout and left out.  *)
(* All grants of shipped roles have the scope org or tenant and no         *)
(* condition, so a grant is its action and its resource.                   *)
(***************************************************************************)
EXTENDS Naturals, Sequences, FiniteSets, SequencesExt

CONSTANT None

-----------------------------------------------------------------------------
(* Constructors *)

FieldDefinition == [key: STRING, type: STRING, required: BOOLEAN, restricted: BOOLEAN,
                    ai: BOOLEAN, ref: STRING \cup {None}, options: SUBSET STRING]

F(key, type) == [key |-> key, type |-> type, required |-> FALSE, restricted |-> FALSE,
                 ai |-> FALSE, ref |-> None, options |-> {}]
Req(field)         == [field EXCEPT !.required = TRUE]
Restr(field)       == [field EXCEPT !.restricted = TRUE]
Enum(key, options) == [F(key, "enum") EXCEPT !.options = options]
Ref(key, target)   == [F(key, "record_ref") EXCEPT !.ref = target]

\* ot of schema.rs: an object type; workflow is a key.
OT(key, workflow, fields) == [key |-> key, workflow |-> workflow, fields |-> fields]

\* field() of builder.rs: the fields of a template are visible to AI, but for
\* the restricted ones, which are built without it.
Visible(fields) ==
    [i \in DOMAIN fields |-> [fields[i] EXCEPT !.ai = ~fields[i].restricted]]

\* simple_object and the BuilderDefinitions of builder.rs; workflow is a
\* definition, and the first field is displayed.
Template(key, workflow, fields) ==
    [key |-> key, workflow |-> workflow, fields |-> Visible(fields),
     display |-> fields[1].key, relations |-> {}, confirmed |-> FALSE]

\* BuilderDefinition::to_object_type
to_object_type(def) ==
    OT(def.key, IF def.workflow = None THEN None ELSE def.workflow.key, def.fields)

Tr(key, from, to, approval) ==
    [key |-> key, from |-> from, to |-> to, approval |-> approval]

Workflow(key, type, initial, states, transitions) ==
    [key |-> key, object_type |-> type, initial |-> initial, states |-> states,
     transitions |-> transitions]

-----------------------------------------------------------------------------
(* The object types of the business modules, in the order of object_types() *)

CRMTypes == <<
    OT("account", None,
       <<Req(F("name", "text")), F("industry", "text"), F("website", "text"),
         Enum("tier", {"bronze", "silver", "gold", "platinum"}),
         F("email", "text"), F("annual_revenue", "money")>>),
    OT("contact", None,
       <<Req(F("name", "text")), F("email", "text"), F("title", "text"),
         Ref("account_id", "account")>>),
    OT("lead", None,
       <<Req(F("name", "text")), F("email", "text"), F("company", "text"),
         Enum("status", {"new", "qualified", "converted", "disqualified"}),
         F("score", "number")>>),
    OT("deal", None,
       <<Req(F("name", "text")), Ref("account_id", "account"), F("amount", "money"),
         Enum("stage", {"prospecting", "qualification", "proposal", "negotiation",
                        "at_risk", "won", "lost"}),
         F("close_date", "date"), F("owner_id", "user_ref")>>),
    OT("activity", None,
       <<Req(F("subject", "text")), Enum("kind", {"call", "email", "meeting", "note"}),
         Ref("account_id", "account"), F("at", "date_time")>>),
    OT("ticket", None,
       <<Req(F("subject", "text")), Ref("account_id", "account"),
         Enum("priority", {"low", "medium", "high", "urgent"}),
         Enum("status", {"open", "pending", "closed"})>>) >>

FinanceTypes == <<
    OT("vendor", None,
       <<Req(F("name", "text")), F("email", "text"),
         Enum("category", {"parts", "logistics", "services", "software"}),
         Enum("risk", {"low", "medium", "high"}), F("lead_time_days", "number")>>),
    OT("invoice", "invoice_approval",
       <<Req(F("number", "text")), Ref("account_id", "account"), Req(F("amount", "money")),
         Enum("status", {"draft", "submitted", "approved", "paid", "cancelled"}),
         F("issue_date", "date"), F("due_date", "date"), F("notes", "long_text")>>),
    OT("bill", None,
       <<Req(F("number", "text")), Ref("vendor_id", "vendor"), Req(F("amount", "money")),
         Enum("status", {"draft", "approved", "paid"}), F("due_date", "date")>>),
    OT("payment", None,
       <<Req(F("reference", "text")), Ref("invoice_id", "invoice"), F("amount", "money"),
         F("paid_date", "date"), Enum("method", {"ach", "wire", "card", "check"})>>),
    OT("budget", None,
       <<Req(F("name", "text")), F("period", "text"), F("amount", "money"),
         F("spent", "money")>>) >>

ProcurementTypes == <<
    OT("purchase_request", "pr_approval",
       <<Req(F("number", "text")), F("item", "text"), F("quantity", "number"),
         F("estimated_cost", "money"), Ref("vendor_id", "vendor"),
         Enum("status", {"requested", "manager_review", "finance_review", "ordered",
                         "received", "closed", "rejected"})>>),
    OT("purchase_order", None,
       <<Req(F("number", "text")), Ref("vendor_id", "vendor"), F("amount", "money"),
         Enum("status", {"draft", "approved", "ordered", "received", "closed"}),
         F("expected_date", "date")>>),
    OT("receipt", None,
       <<Req(F("number", "text")), Ref("po_id", "purchase_order"), F("quantity", "number"),
         F("received_date", "date")>>) >>

InventoryTypes == <<
    OT("warehouse", None, <<Req(F("name", "text")), F("location", "text")>>),
    OT("product", None,
       <<Req(F("sku", "text")), Req(F("name", "text")),
         Enum("category", {"actuators", "sensors", "controllers", "frames", "batteries"}),
         F("unit_cost", "money"), F("price", "money"), F("quantity", "number"),
         F("reorder_point", "number"), Ref("warehouse_id", "warehouse")>>),
    OT("inventory_movement", None,
       <<Req(F("reference", "text")), Ref("product_id", "product"),
         Enum("kind", {"in", "out", "adjust"}), F("quantity", "number"),
         F("at", "date_time")>>) >>

HCMTypes == <<
    OT("department", None, <<Req(F("name", "text")), F("head_id", "user_ref")>>),
    OT("employee", None,
       <<Req(F("name", "text")), F("email", "text"), Ref("department_id", "department"),
         F("position", "text"), Restr(F("salary", "money")), F("hire_date", "date")>>),
    OT("leave_request", "leave_approval",
       <<Req(F("reference", "text")), Ref("employee_id", "employee"),
         Enum("kind", {"vacation", "sick", "personal"}), F("start_date", "date"),
         F("end_date", "date"),
         Enum("status", {"draft", "submitted", "manager_approved", "hr_approved",
                         "rejected"})>>),
    OT("candidate", None,
       <<Req(F("name", "text")), F("role", "text"),
         Enum("stage", {"applied", "screening", "interview", "offer", "hired",
                        "rejected"})>>) >>

ProjectTypes == <<
    OT("project", None,
       <<Req(F("name", "text")), Ref("account_id", "account"),
         Enum("status", {"planning", "active", "on_hold", "done"}),
         F("start_date", "date"), F("end_date", "date")>>),
    OT("milestone", None,
       <<Req(F("name", "text")), Ref("project_id", "project"), F("due_date", "date"),
         Enum("status", {"pending", "in_progress", "done"})>>) >>

ContractTypes == <<
    OT("contract", None,
       <<Req(F("title", "text")), Enum("party_type", {"customer", "vendor"}),
         F("party_id", "text"), F("value", "money"), F("start_date", "date"),
         F("end_date", "date"), F("renewal_date", "date"),
         Enum("status", {"active", "renewal_review", "renewed", "expired"})>>) >>

\* Mutant: the finance types are created before the accounts they refer to.
FinanceFirst == FinanceTypes \o CRMTypes \o ProcurementTypes \o InventoryTypes
                \o HCMTypes \o ProjectTypes \o ContractTypes

object_types == CRMTypes \o FinanceTypes \o ProcurementTypes \o InventoryTypes
                \o HCMTypes \o ProjectTypes \o ContractTypes


-----------------------------------------------------------------------------
(* The workflows of the business modules *)

workflows == <<
    Workflow("invoice_approval", "invoice", "draft",
        {"draft", "submitted", "approved", "paid", "cancelled"},
        {Tr("submit", "draft", "submitted", FALSE),
         Tr("approve", "submitted", "approved", TRUE),
         Tr("mark_paid", "approved", "paid", FALSE),
         Tr("cancel", "draft", "cancelled", FALSE),
         Tr("cancel_submitted", "submitted", "cancelled", FALSE)}),
    Workflow("pr_approval", "purchase_request", "requested",
        {"requested", "manager_review", "finance_review", "ordered", "received",
         "closed", "rejected"},
        {Tr("to_manager", "requested", "manager_review", FALSE),
         Tr("manager_approve", "manager_review", "finance_review", TRUE),
         Tr("finance_approve", "finance_review", "ordered", TRUE),
         Tr("receive", "ordered", "received", FALSE),
         Tr("close", "received", "closed", FALSE),
         Tr("reject", "manager_review", "rejected", FALSE)}),
    Workflow("leave_approval", "leave_request", "draft",
        {"draft", "submitted", "manager_approved", "hr_approved", "rejected"},
        {Tr("submit", "draft", "submitted", FALSE),
         Tr("manager_approve", "submitted", "manager_approved", TRUE),
         Tr("hr_approve", "manager_approved", "hr_approved", TRUE),
         Tr("reject", "submitted", "rejected", FALSE)}) >>

-----------------------------------------------------------------------------
(* The builder templates: each a list of definitions *)

invoice_wf ==
    Workflow("invoice_approval", "invoice", "draft",
        {"draft", "submitted", "approved", "paid", "cancelled", "rejected"},
        {Tr("submit", "draft", "submitted", FALSE),
         Tr("approve", "submitted", "approved", TRUE),
         Tr("reject", "submitted", "rejected", TRUE),
         Tr("mark_paid", "approved", "paid", FALSE),
         Tr("cancel", "draft", "cancelled", FALSE)})

finance_template == <<
    Template("account", None,
       <<Req(F("name", "text")), F("email", "text"),
         Enum("tier", {"standard", "premium", "enterprise"})>>),
    Template("invoice", invoice_wf,
       <<Req(F("number", "text")), Ref("account_id", "account"), Req(F("amount", "money")),
         Enum("status", {"draft", "submitted", "approved", "paid", "cancelled"}),
         F("due_date", "date"), Restr(F("internal_note", "long_text"))>>),
    Template("payment", None,
       <<Req(F("reference", "text")), Ref("invoice_id", "invoice"), F("amount", "money"),
         F("paid_date", "date")>>),
    Template("budget", None,
       <<Req(F("name", "text")), F("period", "text"), F("amount", "money")>>) >>

procurement_template == <<
    Template("vendor", None,
       <<Req(F("name", "text")), F("email", "text"),
         Enum("risk", {"low", "medium", "high"})>>),
    Template("purchase_request", None,
       <<Req(F("number", "text")), F("item", "text"), F("estimated_cost", "money"),
         Enum("status", {"requested", "approved", "ordered", "rejected"})>>),
    Template("purchase_order", None,
       <<Req(F("number", "text")), Ref("vendor_id", "vendor"), F("amount", "money")>>),
    Template("receipt", None, <<Req(F("number", "text")), F("quantity", "number")>>) >>

inventory_template == <<
    Template("warehouse", None, <<Req(F("name", "text")), F("location", "text")>>),
    [Template("product", None,
       <<Req(F("sku", "text")), Req(F("name", "text")), F("price", "money"),
         F("quantity", "number"), F("reorder_point", "number")>>)
     EXCEPT !.display = "name"],
    Template("inventory_movement", None,
       <<Req(F("reference", "text")), F("quantity", "number")>>) >>

crm_template == <<
    Template("contact", None, <<Req(F("name", "text")), F("email", "text")>>) >>

hr_template == <<
    Template("employee", None,
       <<Req(F("name", "text")), F("email", "text"), Restr(F("salary", "money"))>>) >>

TemplateKeys == {"finance", "procurement", "inventory", "crm", "hr"}

\* template_by_key
template_by_key ==
    [key \in TemplateKeys |->
        CASE key = "finance"     -> finance_template
          [] key = "procurement" -> procurement_template
          [] key = "inventory"   -> inventory_template
          [] key = "crm"         -> crm_template
          [] key = "hr"          -> hr_template]

-----------------------------------------------------------------------------
(* The sample records of a template: [type, number, values].  A value is   *)
(* an enum literal or stands for its JSON shape.                           *)

Sample(type, number, data) == [type |-> type, number |-> number, data |-> data]

finance_records == <<
    Sample("account", 10, [name |-> "string", email |-> "string", tier |-> "standard"]),
    Sample("invoice", 10, [number |-> "string", account_id |-> "string",
                           amount |-> "integer", status |-> "draft", due_date |-> "date"]),
    Sample("payment", 3, [reference |-> "string", amount |-> "integer",
                          paid_date |-> "date"]) >>

procurement_records == <<
    Sample("vendor", 4, [name |-> "string", email |-> "string", risk |-> "low"]),
    Sample("vendor", 1, [name |-> "string", email |-> "string", risk |-> "high"]),
    Sample("purchase_request", 5, [number |-> "string", item |-> "string",
                                   estimated_cost |-> "integer", status |-> "requested"]),
    Sample("purchase_order", 3, [number |-> "string", vendor_id |-> "string",
                                 amount |-> "integer"]) >>

inventory_records == <<
    Sample("warehouse", 3, [name |-> "string", location |-> "string"]),
    Sample("product", 10, [sku |-> "string", name |-> "string", price |-> "integer",
                           quantity |-> "integer", reorder_point |-> "integer"]) >>

\* install_sample_records
sample_records ==
    [key \in TemplateKeys |->
        CASE key = "finance"     -> finance_records
          [] key = "procurement" -> procurement_records
          [] key = "inventory"   -> inventory_records
          [] OTHER               -> <<>>]

\* install_template_reports: reports over invoices and the dashboard that
\* shows them.
template_reports ==
    [key \in TemplateKeys |->
        IF key = "finance"
        THEN <<"revenue", "invoices_by_status", "invoice_count", "dashboard">> ELSE <<>>]

-----------------------------------------------------------------------------
(* Roles: sets of grants.  "object:" is left off the resource of a grant   *)
(* for one type, and "objects" stands for "object:*".                      *)

G(action, resource) == [action |-> action, resource |-> resource]

\* Mutant: whoever may edit may also approve.
CrudApproving(resource) ==
    {G(action, resource) : action \in {"read", "create", "update", "search", "transition",
                                       "relate", "approve"}}

Crud(resource) ==
    {G(action, resource) : action \in {"read", "create", "update", "search", "transition",
                                       "relate"}}
Reads(resources)   == {G("read", r) : r \in resources}
Manages(resources) == {G("manage", r) : r \in resources}
Cruds(resources)   == UNION {Crud(r) : r \in resources}
read_bi            == Reads({"report", "metric", "dashboard"})

CRMResources == {"account", "contact", "lead", "deal", "activity", "ticket"}

RoleKeys == {"finance_user", "finance_manager", "sales_rep", "sales_manager",
             "procurement_agent", "procurement_manager", "inventory_user", "hr_user",
             "hr_manager", "project_manager", "contracts_manager", "exec"}

\* The order in which business_roles() lists them.
RoleOrder == <<"finance_user", "finance_manager", "sales_rep", "sales_manager",
               "procurement_agent", "procurement_manager", "inventory_user", "hr_user",
               "hr_manager", "project_manager", "contracts_manager", "exec">>

FinanceRoles ==
    [finance_user |-> Cruds({"invoice", "bill", "payment"})
                      \cup Reads({"account", "vendor", "budget"}) \cup read_bi,
     finance_manager |-> Manages({"invoice", "bill", "payment", "budget"})
                      \cup Reads({"account", "vendor", "approval", "audit"}) \cup read_bi]

SalesRoles ==
    [sales_rep |-> Cruds(CRMResources) \cup read_bi,
     sales_manager |-> Manages(CRMResources) \cup Reads({"approval"}) \cup read_bi]

SupplyRoles ==
    [procurement_agent |-> Cruds({"purchase_request", "purchase_order", "receipt"})
                      \cup Reads({"vendor", "product", "receipt"}) \cup read_bi,
     procurement_manager |->
                      Manages({"purchase_request", "purchase_order", "vendor", "receipt"})
                      \cup Reads({"product", "approval"}) \cup read_bi,
     inventory_user |-> Cruds({"product", "warehouse", "inventory_movement"}) \cup read_bi]

HRRoles ==
    [hr_user |-> Reads({"employee", "department", "leave_request", "candidate"})
                      \cup {G("search", "employee")} \cup read_bi,
     hr_manager |-> Manages({"employee", "department", "leave_request", "candidate"})
                      \cup Reads({"approval"}) \cup read_bi]

OtherRoles ==
    [project_manager |-> Manages({"project", "milestone"}) \cup Reads({"account", "deal"})
                      \cup read_bi,
     contracts_manager |-> Manages({"contract"}) \cup Reads({"account", "vendor"})
                      \cup read_bi,
     exec |-> {G("read", "objects"), G("search", "objects")}
                      \cup Reads({"approval", "audit"}) \cup read_bi]

RoleSections == {FinanceRoles, SalesRoles, SupplyRoles, HRRoles, OtherRoles}

business_roles ==
    [role \in RoleKeys |-> (CHOOSE section \in RoleSections : role \in DOMAIN section)[role]]

\* matches_resource, for a resource that is an object type
matches_resource(grant, type) == grant.resource \in {"*", "objects", type}

\* action_covered_by
action_covered_by(granted, requested) == granted = requested \/ granted = "manage"

RoleMay(role, action, type) ==
    \E g \in business_roles[role] : /\ action_covered_by(g.action, action)
                                    /\ matches_resource(g, type)

-----------------------------------------------------------------------------
(* What a stored definition must satisfy *)

FieldKeys(fields) == {fields[i].key : i \in DOMAIN fields}

\* ObjectTypeDef::field
field(def, key) == LET fields == def.fields IN
    fields[CHOOSE i \in DOMAIN fields :
              fields[i].key = key /\ \A j \in 1..(i - 1) : fields[j].key # key]

HasField(def, key) == key \in FieldKeys(def.fields)

\* validate_field_def
validate_field_def(f) ==
    /\ f.type = "enum" => f.options # {}
    /\ f.type = "record_ref" => f.ref # None

\* validate_object_type
validate_object_type(def) ==
    /\ Cardinality(FieldKeys(def.fields)) = Len(def.fields)
    /\ \A i \in DOMAIN def.fields : validate_field_def(def.fields[i])

\* validate_workflow
validate_workflow(wf) ==
    /\ wf.initial \in wf.states
    /\ \A t \in wf.transitions : t.from \in wf.states /\ t.to \in wf.states

\* validate_value, for a value that is not null
validate_value(f, value) ==
    CASE f.type \in {"text", "long_text", "record_ref", "user_ref"} -> value # "integer"
      [] f.type \in {"number", "money"} -> value = "integer"
      [] f.type = "date"      -> value = "date"
      [] f.type = "enum"      -> value \in f.options
      [] f.type = "date_time" -> FALSE
      [] OTHER                -> TRUE

\* What create_record checks of the data, for an actor who may set every field.
AcceptsRecord(def, data) ==
    /\ \A key \in DOMAIN data : HasField(def, key)
    /\ \A i \in DOMAIN def.fields :
          LET f == def.fields[i] IN
          IF f.key \in DOMAIN data THEN validate_value(f, data[f.key]) ELSE ~f.required
=============================================================================
