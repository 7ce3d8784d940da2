------------------------------- MODULE Agents -------------------------------
(***************************************************************************)
(* The action planner of the AI crate (action.rs) over Records.  A dry run *)
(* shows what an action would change and keeps nothing; the client sends   *)
(* the action again to execute it, with a flag that says it was approved,  *)
(* and the execution is an ordinary create_record or update_record among   *)
(* the others.  What the client got of the dry run is kept in plan.        *)
(*                                                                         *)
(* enable_ai_agents is on.  The transition action, which shows the name of *)
(* the transition only, is left out; so are the planner's own audit rows,  *)
(* whose failure is ignored: the mutation has its row from Records.        *)
(***************************************************************************)
EXTENDS Records

CONSTANTS
    Clients,     \* clients of the planner
    Proposals,   \* bound: the actions proposed
    enable_agent_action_execution

ASSUME AgentsAssumption ==
    /\ enable_agent_action_execution \in BOOLEAN
    /\ None \notin Requests
    /\ \A action \in Proposals : /\ action.op \in {"create", "update"}
                                 /\ action.payload \in Patches
                                 /\ action.safety_level \in 0..4

VARIABLES
    plan,      \* the plan each client holds
    running    \* the call that executes the plan of each client, if any

agentVars == <<records, call, log, plan, running>>

NoPlan == [by |-> None]

AgentsInit ==
    /\ Init
    /\ plan = [c \in Clients |-> NoPlan]
    /\ running = [c \in Clients |-> None]

-----------------------------------------------------------------------------
\* requires_approval
RequiresApproval(action) == action.safety_level >= 3

\* The fields actor may read of a record that holds data (project_for_read).
Readable(actor, created_by, data) ==
    {f \in Fields : FieldPermitted(ApplicableGrants(actor, "read", created_by, data), f)}

\* What is readable of data, with the payload inserted.
Merged(data, payload, readable) ==
    [f \in readable \cup DOMAIN payload |->
        IF f \in DOMAIN payload THEN payload[f] ELSE data[f]]

\* A create shows its payload, without the defaults and without a check.
DryRunCreate(c, actor, action) ==
    /\ plan[c] = NoPlan
    /\ action.op = "create"
    /\ plan' = [plan EXCEPT ![c] = [by |-> actor, action |-> action, id |-> None, seen |-> None,
                                    after |-> action.payload]]
    /\ UNCHANGED <<records, call, log, running>>

\* An update shows what the actor may read of the record, changed as the
\* payload says; that the actor may update is not asked.
DryRunUpdate(c, actor, action, id) ==
    LET seen     == records[id]
        readable == Readable(actor, seen.created_by, seen.data) IN
    /\ plan[c] = NoPlan
    /\ action.op = "update" /\ Exists(id)
    /\ \/ /\ ApplicableGrants(actor, "read", seen.created_by, seen.data) = {} /\ Room
          /\ Deny(actor, id)
          /\ UNCHANGED <<plan, running>>
       \/ /\ ApplicableGrants(actor, "read", seen.created_by, seen.data) # {}
          /\ plan' = [plan EXCEPT ![c] =
                        [by |-> actor, action |-> action, id |-> id, seen |-> seen.data,
                         after |-> Merged(seen.data, action.payload, readable)]]
          /\ UNCHANGED <<records, call, log, running>>

\* execute, up to the transaction of the operation: whoever sends the action
\* may be another than the planner, and the record may have changed since.
\* A create makes a new record each time.
Execute(c, q, actor, id, approved) ==
    LET p == plan[c] IN
    /\ p # NoPlan /\ running[c] = None
    /\ p.action.safety_level >= 3 => enable_agent_action_execution
    /\ RequiresApproval(p.action) => approved
    /\ \/ p.action.op = "create" /\ CreateRecordLoad(q, actor, id, p.action.payload)
       \/ p.action.op = "update" /\ id = p.id /\ UpdateRecordLoad(q, actor, id, p.action.payload)
    /\ running' = [running EXCEPT ![c] = IF call'[q] = Idle THEN None ELSE q]
    /\ UNCHANGED plan

\* The client lets go of its plan.
Discard(c) ==
    /\ plan[c] # NoPlan /\ running[c] = None
    /\ plan' = [plan EXCEPT ![c] = NoPlan]
    /\ UNCHANGED <<records, call, log, running>>

\* A call that ends leaves its client with the plan: after an answer that got
\* lost, or a refusal, it may execute it again.
AgentsNext ==
    \/ \E c \in Clients, actor \in Actors :
          \/ \E action \in Proposals : \/ DryRunCreate(c, actor, action)
                                      \/ \E id \in Ids : DryRunUpdate(c, actor, action, id)
          \/ \E q \in Requests, id \in Ids, approved \in BOOLEAN :
                Execute(c, q, actor, id, approved)
    \/ \E c \in Clients : Discard(c)
    \/ /\ Next
       /\ running' = [c \in Clients |->
                        IF running[c] # None /\ call'[running[c]] = Idle THEN None
                        ELSE running[c]]
       /\ UNCHANGED plan

AgentsSpec == AgentsInit /\ [][AgentsNext]_agentVars

-----------------------------------------------------------------------------
\* Call q, which executes the plan of c, commits.
Performs(c, q) == running[c] = q /\ (CreateRecordCommit(q) \/ UpdateRecordCommit(q))

\* The record is the one the plan was made for, when the call read it and now.
AsPlanned(c, q) ==
    plan[c].action.op = "update" => call[q].before = plan[c].seen /\ Undisturbed(q)

\* An update clears f: the dry run shows a null and the execution takes f out.
ClearedBy(action, f) ==
    action.op = "update" /\ f \in DOMAIN action.payload /\ action.payload[f] = Null

(***************************************************************************)
(* A dry run is the exact change (action.rs: the exact before/after): the  *)
(* execution of a plan stores what the plan showed, but for a field that   *)
(* the action clears, and changes nothing that the plan did not show,      *)
(* whoever executes it, however often, and however little the planner may  *)
(* read, unless the record has changed since.                              *)
(***************************************************************************)
PlansComeTrue ==
    [][\A c \in Clients, q \in Requests :
          Performs(c, q) /\ AsPlanned(c, q) =>
              LET p   == plan[c]
                  was == records[call[q].id].data
                  is  == records'[call[q].id].data IN
              /\ \A f \in DOMAIN p.after : is[f] = IF ClearedBy(p.action, f) THEN Missing ELSE p.after[f]
              /\ p.action.op = "update" => \A f \in Fields \ DOMAIN p.after : is[f] = was[f]
      ]_agentVars
=============================================================================
