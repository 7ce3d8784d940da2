--------------------------- MODULE WorkflowEngine ---------------------------
(***************************************************************************)
(* The workflow engine of the kernel: workflow definitions, the workflow   *)
(* state of records, transitions, approvals and the tasks that go with     *)
(* them, as the HTTP handlers of crates/api drive it.                      *)
(*                                                                         *)
(* Every handler is an async function that first reads (each query is one  *)
(* atomic read of the SQLite pool) and then writes in ONE transaction.     *)
(* Nothing is re-read or re-checked inside the transaction, so a request   *)
(* is modelled as a chain of steps: one per read whose result it keeps,    *)
(* and one atomic commit.  Requests holds the handlers that may be running *)
(* at a time; what a handler has read so far is its row of inflight.       *)
(*                                                                         *)
(* One tenant, one object type; its workflow_key names one workflow.       *)
(***************************************************************************)
EXTENDS Naturals, Sequences, FiniteSets

CONSTANTS
    Requests,            \* slots for concurrently running handlers
    Actors,              \* users and service accounts of the tenant
    Exempt,              \* the actors authorize() trusts: system, platform admins
    Granted,             \* <<actor, action, resource>> the role grants allow
    SeparationOfDuties,  \* flag enable_approval_separation_of_duties
    Records,             \* ids of records of the object type
    States,              \* workflow state keys
    Keys,                \* transition keys
    Definitions,         \* workflow definitions an administrator may submit
    Resources,           \* resource names that appear in grants and guards
    ObjectResource,      \* the resource "object:<type>"
    ApprovalIds, TaskIds,
    None,                \* SQL NULL / Option::None
    NoRecord,            \* a record id without a row
    MaxAudit             \* bound on the audit rows of a behaviour

(***************************************************************************)
(* A workflow definition.  The transitions are a Vec in the code, of which *)
(* find() takes the first match; as a set, any match may be taken.         *)
(***************************************************************************)
Transition == [key: Keys, from: States, to: States,
               guard: Resources \cup {None}, gated: BOOLEAN]

ASSUME ConstantsAssumption ==
    /\ Exempt \subseteq Actors
    /\ ObjectResource \in Resources
    /\ SeparationOfDuties \in BOOLEAN
    /\ MaxAudit \in Nat
    /\ \A d \in Definitions : /\ d.initial \in States
                              /\ d.states \subseteq States
                              /\ d.transitions \subseteq Transition
    /\ None \notin States \cup Actors \cup Records \cup ApprovalIds \cup TaskIds
    /\ NoRecord \notin States \cup {None}

VARIABLES
    workflow,    \* the stored definition, or None
    records,     \* records[r]: workflow_state (None when NULL), or NoRecord
    approvals,   \* table approvals
    tasks,       \* table tasks
    audit_logs,  \* table audit_logs in commit order
    events,      \* table events in commit order
    inflight     \* what each running handler has read

vars == <<workflow, records, approvals, tasks, audit_logs, events, inflight>>
tables == <<workflow, records, approvals, tasks, audit_logs, events>>

-----------------------------------------------------------------------------
(* Rows.                                                                   *)

Decided == {"approved", "rejected"}

Approval == [status: {"absent", "pending"} \cup Decided,
             requested_by: Actors \cup {None},
             record: Records \cup {None},
             from: States \cup {None},
             target: States \cup {None},
             decided_by: Actors \cup {None}]

NoApproval == [status |-> "absent", requested_by |-> None, record |-> None,
               from |-> None, target |-> None, decided_by |-> None]

\* `origin' is history: which code path inserted the row ("engine" for
\* transition_record, "user" for create_task).
Task == [status: {"absent", "open", "done", "cancelled"},
         approval: ApprovalIds \cup {None},
         created_by: Actors \cup {None},
         assignee: Actors \cup {None},
         origin: {"engine", "user"}]

NoTask == [status |-> "absent", approval |-> None, created_by |-> None,
           assignee |-> None, origin |-> "user"]

AuditRow == [action: {"workflow.create", "record.create", "workflow.transition",
                      "workflow.transition.requested", "approval.reject",
                      "task.create", "task.update", "permission.denied"},
             actor: Actors,
             target: Records \cup TaskIds \cup {None},
             before: States \cup {None, "open"},
             after: States \cup {None, "open", "done", "cancelled"},
             approval: ApprovalIds \cup {None},
             def: Definitions \cup {None}]

EventRow == [kind: {"record.created", "workflow.transitioned", "approval.requested"},
             record: Records,
             to: States \cup {None},
             approval: ApprovalIds \cup {None}]

Row(action, actor, target, before, after, approval) ==
    [action |-> action, actor |-> actor, target |-> target,
     before |-> before, after |-> after, approval |-> approval, def |-> None]

(***************************************************************************)
(* What a handler holds between two of its awaits.                         *)
(***************************************************************************)
Idle == [pc |-> "idle"]
IdleLocal == [pc: {"idle"}]
TransitionLoaded == [pc: {"transition.loaded"}, actor: Actors, record: Records,
                     key: Keys, seen: States \cup {None}]
TransitionReady == [pc: {"transition.ready"}, actor: Actors, record: Records,
                    step: Transition]
DecideLoaded == [pc: {"decide.loaded"}, actor: Actors, approval: ApprovalIds,
                 approved: BOOLEAN]
DecideReady == [pc: {"decide.ready"}, actor: Actors, approval: ApprovalIds,
                approved: BOOLEAN, before: States \cup {None}]
CompleteReady == [pc: {"complete.ready"}, actor: Actors, task: TaskIds,
                  status: {"done", "cancelled"}]
CreateReady == [pc: {"create.ready"}, actor: Actors, record: Records,
                initial: States \cup {None}]

Local == UNION {IdleLocal, TransitionLoaded, TransitionReady, DecideLoaded,
                DecideReady, CompleteReady, CreateReady}

TypeOK ==
    /\ workflow \in Definitions \cup {None}
    /\ records \in [Records -> States \cup {None, NoRecord}]
    /\ approvals \in [ApprovalIds -> Approval]
    /\ tasks \in [TaskIds -> Task]
    /\ audit_logs \in Seq(AuditRow)
    /\ events \in Seq(EventRow)
    /\ inflight \in [Requests -> Local]

Init ==
    /\ workflow = None
    /\ records = [r \in Records |-> NoRecord]
    /\ approvals = [p \in ApprovalIds |-> NoApproval]
    /\ tasks = [t \in TaskIds |-> NoTask]
    /\ audit_logs = <<>>
    /\ events = <<>>
    /\ inflight = [q \in Requests |-> Idle]

-----------------------------------------------------------------------------
(* Helpers.                                                                *)

\* authorize(), with the grants of the actors fixed.
Authorized(actor, action, resource) ==
    \/ actor \in Exempt
    \/ <<actor, action, resource>> \in Granted

\* The requester may not decide, unless the flag is off or the actor is trusted.
MayDecideFor(actor, requester) ==
    ~SeparationOfDuties \/ actor # requester \/ actor \in Exempt

\* validate_workflow(); emptiness of the names is not modelled.
ValidWorkflow(d) ==
    /\ d.initial \in d.states
    /\ \A t \in d.transitions : t.from \in d.states /\ t.to \in d.states

\* Mutant: the state the record is in is not compared.
TransitionsFromAnywhere(d, current, key) == {t \in d.transitions : t.key = key}

\* WorkflowDef::transition_from
TransitionsFrom(d, current, key) ==
    {t \in d.transitions : t.key = key /\ t.from = current}

\* The guard defaults to the record's own object type.
GuardResource(t) == IF t.guard = None THEN ObjectResource ELSE t.guard

\* A record without a state is taken to be in the initial state.
CurrentState(d, seen) == IF seen = None THEN d.initial ELSE seen

\* get_task(): broad task read, assignee or creator.
MaySeeTask(actor, t) ==
    \/ Authorized(actor, "read", "task")
    \/ tasks[t].assignee = actor
    \/ tasks[t].created_by = actor

InFlight == {q \in Requests : inflight[q] # Idle}

(***************************************************************************)
(* The bounds of a finite instance: a handler is admitted only when the    *)
(* audit rows and the ids its commit may need are still available, so that *)
(* no bound ever blocks a handler halfway.                                 *)
(***************************************************************************)
Admit ==
    /\ Len(audit_logs) + Cardinality(InFlight) < MaxAudit
    /\ Cardinality({p \in ApprovalIds : approvals[p].status = "absent"})
         > Cardinality(InFlight)
    /\ Cardinality({t \in TaskIds : tasks[t].status = "absent"})
         > Cardinality(InFlight)

Starts(q) == inflight[q] = Idle /\ Admit
Finish(q) == inflight' = [inflight EXCEPT ![q] = Idle]
Proceed(q, local) == inflight' = [inflight EXCEPT ![q] = local]
Audit(row) == audit_logs' = Append(audit_logs, row)
Emit(kind, record, to, approval) ==
    events' = Append(events, [kind |-> kind, record |-> record,
                              to |-> to, approval |-> approval])

\* audit_denial() is best effort: a failed write of the row is ignored.
AuditDenial(actor, target, approval) ==
    \/ Audit(Row("permission.denied", actor, target, None, None, approval))
    \/ UNCHANGED audit_logs

-----------------------------------------------------------------------------
(* create_workflow: one transaction, no read whose result is kept.         *)
CreateWorkflow(q, a, d) ==
    /\ Starts(q)
    /\ \/ /\ Authorized(a, "configure", "workflows")
          /\ ValidWorkflow(d)
          /\ workflow' = d
          /\ Audit([Row("workflow.create", a, None, None, None, None) EXCEPT !.def = d])
       \/ /\ ~Authorized(a, "configure", "workflows")
          /\ AuditDenial(a, None, None)
          /\ UNCHANGED workflow
    /\ UNCHANGED <<records, approvals, tasks, events, inflight>>

(* create_record, the part that gives a record its workflow state.         *)
CreateRecordLoad(q, a, r) ==
    /\ Starts(q)
    /\ records[r] = NoRecord   \* r is a fresh id, also among running creates
    /\ \A other \in Requests : inflight[other] \in CreateReady => inflight[other].record # r
    /\ \/ /\ Authorized(a, "create", ObjectResource)
          /\ Proceed(q, [pc |-> "create.ready", actor |-> a, record |-> r,
                         initial |-> IF workflow = None THEN None ELSE workflow.initial])
          /\ UNCHANGED audit_logs
       \/ /\ ~Authorized(a, "create", ObjectResource)
          /\ AuditDenial(a, None, None)
          /\ UNCHANGED inflight
    /\ UNCHANGED <<workflow, records, approvals, tasks, events>>

CreateRecordCommit(q) ==
    LET local == inflight[q] IN
    /\ local.pc = "create.ready"
    /\ records' = [records EXCEPT ![local.record] = local.initial]
    /\ Audit(Row("record.create", local.actor, local.record, None, None, None))
    /\ Emit("record.created", local.record, None, None)
    /\ Finish(q)
    /\ UNCHANGED <<workflow, approvals, tasks>>

-----------------------------------------------------------------------------
(* transition_record                                                       *)

\* load_record
TransitionRecordLoad(q, a, r, k) ==
    /\ Starts(q)
    /\ records[r] # NoRecord
    /\ Proceed(q, [pc |-> "transition.loaded", actor |-> a, record |-> r,
                   key |-> k, seen |-> records[r]])
    /\ UNCHANGED tables

\* load_workflow, transition_from and the guard
TransitionRecordResolve(q) ==
    LET local == inflight[q]
        current == CurrentState(workflow, local.seen)
    IN
    /\ local.pc = "transition.loaded"
    /\ workflow # None
    /\ \E t \in TransitionsFrom(workflow, current, local.key) :
         \/ /\ Authorized(local.actor, "transition", GuardResource(t))
            /\ Proceed(q, [pc |-> "transition.ready", actor |-> local.actor,
                           record |-> local.record, step |-> t])
            /\ UNCHANGED audit_logs
         \/ /\ ~Authorized(local.actor, "transition", GuardResource(t))
            /\ AuditDenial(local.actor, local.record, None)
            /\ Finish(q)
    /\ UNCHANGED <<workflow, records, approvals, tasks, events>>

\* "workflow not found", or the transition is not valid from the state read
TransitionRecordRefuse(q) ==
    LET local == inflight[q] IN
    /\ local.pc = "transition.loaded"
    /\ workflow # None =>
         TransitionsFrom(workflow, CurrentState(workflow, local.seen), local.key) = {}
    /\ Finish(q)
    /\ UNCHANGED tables

\* Mutant: the event announces the state that was left.
TransitionRecordMoveMisannounced(q) ==
    LET local == inflight[q] IN
    /\ local.pc = "transition.ready"
    /\ ~local.step.gated
    /\ records' = [records EXCEPT ![local.record] = local.step.to]
    /\ Audit(Row("workflow.transition", local.actor, local.record,
                 local.step.from, local.step.to, None))
    /\ Emit("workflow.transitioned", local.record, local.step.from, None)
    /\ Finish(q)
    /\ UNCHANGED <<workflow, approvals, tasks>>

\* the transaction of an ungated transition
TransitionRecordMove(q) ==
    LET local == inflight[q] IN
    /\ local.pc = "transition.ready"
    /\ ~local.step.gated
    /\ records' = [records EXCEPT ![local.record] = local.step.to]
    /\ Audit(Row("workflow.transition", local.actor, local.record,
                 local.step.from, local.step.to, None))
    /\ Emit("workflow.transitioned", local.record, local.step.to, None)
    /\ Finish(q)
    /\ UNCHANGED <<workflow, approvals, tasks>>

\* the transaction of a gated transition: approval and task instead of the move
TransitionRecordRequest(q) ==
    LET local == inflight[q] IN
    /\ local.pc = "transition.ready"
    /\ local.step.gated
    /\ \E p \in ApprovalIds, t \in TaskIds :
         /\ approvals[p].status = "absent"
         /\ tasks[t].status = "absent"
         /\ approvals' = [approvals EXCEPT ![p] =
                [status |-> "pending", requested_by |-> local.actor,
                 record |-> local.record, from |-> local.step.from,
                 target |-> local.step.to, decided_by |-> None]]
         /\ tasks' = [tasks EXCEPT ![t] =
                [status |-> "open", approval |-> p, created_by |-> local.actor,
                 assignee |-> None, origin |-> "engine"]]
         /\ Audit(Row("workflow.transition.requested", local.actor, local.record,
                      local.step.from, local.step.to, p))
         /\ Emit("approval.requested", local.record, None, p)
    /\ Finish(q)
    /\ UNCHANGED <<workflow, records>>

-----------------------------------------------------------------------------
(* decide_approval                                                         *)

\* Mutant: separation of duties is not checked.
DecideApprovalLoadAnyone(q, a, p, approved) ==
    /\ Starts(q)
    /\ approvals[p].status = "pending"
    /\ Proceed(q, [pc |-> "decide.loaded", actor |-> a, approval |-> p,
                   approved |-> approved])
    /\ UNCHANGED tables

\* Mutant: the status is not checked.
DecideApprovalLoadAgain(q, a, p, approved) ==
    /\ Starts(q)
    /\ approvals[p].status # "absent"
    /\ MayDecideFor(a, approvals[p].requested_by)
    /\ Proceed(q, [pc |-> "decide.loaded", actor |-> a, approval |-> p,
                   approved |-> approved])
    /\ UNCHANGED tables

\* load_approval, the status check and the separation-of-duties check
DecideApprovalLoad(q, a, p, approved) ==
    /\ Starts(q)
    /\ approvals[p].status = "pending"
    /\ \/ /\ MayDecideFor(a, approvals[p].requested_by)
          /\ Proceed(q, [pc |-> "decide.loaded", actor |-> a, approval |-> p,
                         approved |-> approved])
          /\ UNCHANGED audit_logs
       \/ /\ ~MayDecideFor(a, approvals[p].requested_by)
          /\ AuditDenial(a, None, p)
          /\ UNCHANGED inflight
    /\ UNCHANGED <<workflow, records, approvals, tasks, events>>

\* Mutant: the audited before is the state the approval was asked for in.
DecideApprovalAuthorizeFromRequest(q) ==
    LET local == inflight[q]
    IN
    /\ local.pc = "decide.loaded"
    /\ Authorized(local.actor, "approve", ObjectResource)
    /\ Proceed(q, [pc |-> "decide.ready", actor |-> local.actor,
                   approval |-> local.approval, approved |-> local.approved,
                   before |-> approvals[local.approval].from])
    /\ UNCHANGED tables

\* load_record of the target and authorize(approve)
DecideApprovalAuthorize(q) ==
    LET local == inflight[q]
        target == approvals[local.approval].record
    IN
    /\ local.pc = "decide.loaded"
    /\ \/ /\ Authorized(local.actor, "approve", ObjectResource)
          /\ Proceed(q, [pc |-> "decide.ready", actor |-> local.actor,
                         approval |-> local.approval, approved |-> local.approved,
                         before |-> records[target]])
          /\ UNCHANGED audit_logs
       \/ /\ ~Authorized(local.actor, "approve", ObjectResource)
          /\ AuditDenial(local.actor, target, None)
          /\ Finish(q)
    /\ UNCHANGED <<workflow, records, approvals, tasks, events>>

\* Mutant: only open tasks are closed.
CloseOpenTasksForApproval(p, status) ==
    tasks' = [t \in TaskIds |->
                IF tasks[t].status = "open" /\ tasks[t].approval = p
                THEN [tasks[t] EXCEPT !.status = status]
                ELSE tasks[t]]

\* Mutant: a rejection leaves the tasks open.
CloseTasksWhenApproved(p, status) ==
    tasks' = [t \in TaskIds |->
                IF tasks[t].approval = p /\ status = "done"
                THEN [tasks[t] EXCEPT !.status = status]
                ELSE tasks[t]]

\* close_tasks_for_approval: every task row that names the approval
CloseTasksForApproval(p, status) ==
    tasks' = [t \in TaskIds |->
                IF tasks[t].status # "absent" /\ tasks[t].approval = p
                THEN [tasks[t] EXCEPT !.status = status]
                ELSE tasks[t]]

\* Mutant: UPDATE ... WHERE status = 'pending', its row count ignored.
SetDecisionIfPending(p, status, actor) ==
    approvals' = IF approvals[p].status = "pending"
                 THEN [approvals EXCEPT ![p].status = status, ![p].decided_by = actor]
                 ELSE approvals

\* Mutant: the two parameters are bound in the wrong order.
SetDecisionSwapped(p, status, actor) ==
    approvals' = [approvals EXCEPT ![p].status = actor, ![p].decided_by = status]

SetDecision(p, status, actor) ==
    approvals' = [approvals EXCEPT ![p] =
                    [@ EXCEPT !.status = status, !.decided_by = actor]]

DecideApprovalApprove(q) ==
    LET local == inflight[q]
        p == local.approval
        approval == approvals[p]
    IN
    /\ local.pc = "decide.ready"
    /\ local.approved
    /\ records' = [records EXCEPT ![approval.record] = approval.target]
    /\ Audit(Row("workflow.transition", local.actor, approval.record,
                 local.before, approval.target, p))
    /\ Emit("workflow.transitioned", approval.record, approval.target, p)
    /\ SetDecision(p, "approved", local.actor)
    /\ CloseTasksForApproval(p, "done")
    /\ Finish(q)
    /\ UNCHANGED workflow

DecideApprovalReject(q) ==
    LET local == inflight[q]
        p == local.approval
    IN
    /\ local.pc = "decide.ready"
    /\ ~local.approved
    /\ Audit(Row("approval.reject", local.actor, approvals[p].record, None, None, p))
    /\ SetDecision(p, "rejected", local.actor)
    /\ CloseTasksForApproval(p, "cancelled")
    /\ Finish(q)
    /\ UNCHANGED <<workflow, records, events>>

-----------------------------------------------------------------------------
(* create_task: free-form; its data may name an approval that exists.      *)
CreateTask(q, a, t, assignee, p) ==
    /\ Starts(q)
    /\ p # None => approvals[p].status # "absent"
    /\ tasks[t].status = "absent"
    /\ \/ /\ Authorized(a, "create", "task")
          /\ tasks' = [tasks EXCEPT ![t] =
                 [status |-> "open", approval |-> p, created_by |-> a,
                  assignee |-> assignee, origin |-> "user"]]
          /\ Audit(Row("task.create", a, t, None, "open", None))
       \/ /\ ~Authorized(a, "create", "task")
          /\ AuditDenial(a, None, None)
          /\ UNCHANGED tasks
    /\ UNCHANGED <<workflow, records, approvals, events, inflight>>

(* complete_task: get_task with its visibility rule, then the status check. *)
CompleteTaskLoad(q, a, t, status) ==
    /\ Starts(q)
    /\ tasks[t].status # "absent"
    /\ \/ /\ MaySeeTask(a, t)
          /\ tasks[t].status = "open"
          /\ Proceed(q, [pc |-> "complete.ready", actor |-> a, task |-> t,
                         status |-> status])
          /\ UNCHANGED audit_logs
       \/ /\ ~MaySeeTask(a, t)
          /\ AuditDenial(a, t, None)
          /\ UNCHANGED inflight
    /\ UNCHANGED <<workflow, records, approvals, tasks, events>>

CompleteTaskCommit(q) ==
    LET local == inflight[q] IN
    /\ local.pc = "complete.ready"
    /\ tasks' = [tasks EXCEPT ![local.task].status = local.status]
    /\ Audit(Row("task.update", local.actor, local.task, "open", local.status, None))
    /\ Finish(q)
    /\ UNCHANGED <<workflow, records, approvals, events>>

-----------------------------------------------------------------------------
(***************************************************************************)
(* A handler that ends without its commit: a failed query, a rolled back   *)
(* transaction, a client that went away.  A crash of the server is this    *)
(* step for every handler; the committed tables survive it.                *)
(***************************************************************************)
Abandon(q) ==
    /\ inflight[q] # Idle
    /\ Finish(q)
    /\ UNCHANGED tables

\* The steps a running handler takes on its own.
Continue(q) ==
    \/ CreateRecordCommit(q)
    \/ TransitionRecordResolve(q)
    \/ TransitionRecordRefuse(q)
    \/ TransitionRecordMove(q)
    \/ TransitionRecordRequest(q)
    \/ DecideApprovalAuthorize(q)
    \/ DecideApprovalApprove(q)
    \/ DecideApprovalReject(q)
    \/ CompleteTaskCommit(q)

\* A client's request reaches a free slot.
Arrive(q) ==
    \E a \in Actors :
        \/ \E d \in Definitions : CreateWorkflow(q, a, d)
        \/ \E r \in Records : CreateRecordLoad(q, a, r)
        \/ \E r \in Records, k \in Keys : TransitionRecordLoad(q, a, r, k)
        \/ \E p \in ApprovalIds, approved \in BOOLEAN :
              DecideApprovalLoad(q, a, p, approved)
        \/ \E t \in TaskIds, assignee \in Actors \cup {None},
              p \in ApprovalIds \cup {None} : CreateTask(q, a, t, assignee, p)
        \/ \E t \in TaskIds, status \in {"done", "cancelled"} :
              CompleteTaskLoad(q, a, t, status)

\* The server idles once the bounds admit no further request.
Rest ==
    /\ InFlight = {}
    /\ ~Admit
    /\ UNCHANGED vars

Next ==
    \/ \E q \in Requests : Arrive(q) \/ Continue(q) \/ Abandon(q)
    \/ Rest

Spec == Init /\ [][Next]_vars

-----------------------------------------------------------------------------
(* Safety.                                                                 *)

\* The row is one that gives record r its state.
SetsState(row, r) ==
    /\ row.action \in {"record.create", "workflow.transition"}
    /\ row.target = r

\* Audit row i is the last that gives r its state; event n the last to announce it.
LastSetsState(i, r) ==
    /\ SetsState(audit_logs[i], r)
    /\ \A j \in DOMAIN audit_logs : j > i => ~SetsState(audit_logs[j], r)

Announces(event, r) == event.kind = "workflow.transitioned" /\ event.record = r

LastAnnounces(n, r) ==
    /\ Announces(events[n], r)
    /\ \A m \in DOMAIN events : m > n => ~Announces(events[m], r)

InitialStatesBefore(i) ==
    {audit_logs[j].def.initial :
        j \in {k \in 1..(i - 1) : audit_logs[k].action = "workflow.create"}}

(***************************************************************************)
(* The trails tell the truth, whatever handlers interleave and wherever    *)
(* they are cut off: replaying the audit log, or the event outbox, up to   *)
(* its end arrives at the state each record is in; a record that has not   *)
(* moved is in the initial state of some definition installed earlier.     *)
(***************************************************************************)
TrailsAgree ==
    \A r \in Records :
        IF records[r] = NoRecord
        THEN \A i \in DOMAIN audit_logs : ~SetsState(audit_logs[i], r)
        ELSE \E i \in DOMAIN audit_logs :
               /\ LastSetsState(i, r)
               /\ IF audit_logs[i].action = "record.create"
                  THEN records[r] \in {None} \cup InitialStatesBefore(i)
                  ELSE /\ audit_logs[i].after = records[r]
                       /\ \E n \in DOMAIN events :
                             /\ LastAnnounces(n, r)
                             /\ events[n].to = records[r]
                             /\ events[n].approval = audit_logs[i].approval

\* A workflow installed before row i of the log declares the transition, and
\* the actor holds its guard.
DeclaredBefore(log, i, from, to, gated, actor) ==
    \E j \in 1..(i - 1), d \in Definitions :
        /\ log[j].action = "workflow.create"
        /\ log[j].def = d
        /\ {from, to} \subseteq d.states
        /\ \E t \in d.transitions :
              /\ t.from = from /\ t.to = to /\ t.gated = gated
              /\ Authorized(actor, "transition", GuardResource(t))

\* Row i of the log, if it moves a record, has the consent it needs: of a
\* declaration for a direct move, of a decided approval for a gated one.
MoveAuthorised(log, approved, i) ==
    LET row == log[i]
        approval == approved[row.approval]
    IN  row.action = "workflow.transition" =>
          IF row.approval = None
          THEN DeclaredBefore(log, i, row.before, row.after, FALSE, row.actor)
          ELSE /\ approval.status \in Decided
               /\ approval.record = row.target
               /\ approval.target = row.after
               /\ DeclaredBefore(log, i, approval.from, approval.target, TRUE,
                                 approval.requested_by)
               /\ Authorized(row.actor, "approve", ObjectResource)
               /\ MayDecideFor(row.actor, approval.requested_by)

(***************************************************************************)
(* No move without the consent it needs, in any interleaving and after any *)
(* redefinition of the workflow.  A direct move is an ungated transition   *)
(* of an installed definition by an actor who holds the guard.  A gated    *)
(* one carries an approval for that record and state, asked for by an      *)
(* actor who held the guard and decided by one who may approve and is not  *)
(* the requester where duties are separated.                               *)
(***************************************************************************)
EveryMoveAuthorised ==
    \A i \in DOMAIN audit_logs : MoveAuthorised(audit_logs, approvals, i)

\* The row decides approval p.
Decides(row, p) ==
    /\ row.action \in {"workflow.transition", "approval.reject"}
    /\ row.approval = p

LastDecides(i, p) ==
    /\ Decides(audit_logs[i], p)
    /\ \A j \in DOMAIN audit_logs : j > i => ~Decides(audit_logs[j], p)

(***************************************************************************)
(* An approval row shows what the trail says of it: undecided exactly when *)
(* no row decides it, and otherwise the verdict and the actor of the last  *)
(* row that does, also when two deciders passed the pending check at once. *)
(***************************************************************************)
LastDecisionStands ==
    \A p \in ApprovalIds :
        IF approvals[p].status \in Decided
        THEN \E i \in DOMAIN audit_logs :
               /\ LastDecides(i, p)
               /\ approvals[p].decided_by = audit_logs[i].actor
               /\ approvals[p].status =
                    IF audit_logs[i].action = "approval.reject"
                    THEN "rejected" ELSE "approved"
        ELSE /\ approvals[p].decided_by = None
             /\ \A i \in DOMAIN audit_logs : ~Decides(audit_logs[i], p)

EngineTasksOf(p) ==
    {t \in TaskIds : /\ tasks[t].status # "absent"
                     /\ tasks[t].origin = "engine"
                     /\ tasks[t].approval = p}

(***************************************************************************)
(* An approver's work list is complete and clean: every approval has the   *)
(* one task the engine opened with it, and a decided approval leaves that  *)
(* task closed, even when the task is completed by hand meanwhile.         *)
(***************************************************************************)
ApprovalsHaveTheirTask ==
    \A p \in ApprovalIds :
        /\ Cardinality(EngineTasksOf(p)) =
              IF approvals[p].status = "absent" THEN 0 ELSE 1
        /\ approvals[p].status \in Decided =>
              \A t \in EngineTasksOf(p) : tasks[t].status # "open"

-----------------------------------------------------------------------------
(* What holds only while one handler runs at a time.                       *)

(***************************************************************************)
(* A decision is final: the "approval already decided" check of            *)
(* decide_approval refuses a second one.                                   *)
(***************************************************************************)
ApprovalDecidedOnce ==
    [][\A p \in ApprovalIds :
          approvals[p].status \in Decided => approvals'[p] = approvals[p]]_vars

(***************************************************************************)
(* An approval moves its record exactly once if it was approved and never  *)
(* otherwise: no rejected approval has moved anything.                     *)
(***************************************************************************)
ApprovedExactlyWhenMoved ==
    \A p \in ApprovalIds :
        Cardinality({i \in DOMAIN audit_logs :
                        /\ audit_logs[i].action = "workflow.transition"
                        /\ audit_logs[i].approval = p})
          = IF approvals[p].status = "approved" THEN 1 ELSE 0

(***************************************************************************)
(* The engine's task mirrors the verdict, over a status set by hand        *)
(* earlier: done for approved, cancelled for rejected.                     *)
(***************************************************************************)
TaskMirrorsDecision ==
    \A p \in ApprovalIds : \A t \in EngineTasksOf(p) :
        /\ approvals[p].status = "approved" => tasks[t].status = "done"
        /\ approvals[p].status = "rejected" => tasks[t].status = "cancelled"

\* Row i moves r.
Moves(i, r) ==
    audit_logs[i].action = "workflow.transition" /\ audit_logs[i].target = r

(***************************************************************************)
(* audit.rs: before is the "State before the change".  So the moves of a   *)
(* record form an unbroken chain: the before of each is the after of the   *)
(* one that precedes it.                                                   *)
(***************************************************************************)
AuditChains ==
    \A r \in Records : \A i, j \in DOMAIN audit_logs :
        (/\ i < j
         /\ Moves(i, r) /\ Moves(j, r)
         /\ \A k \in (i + 1)..(j - 1) : ~Moves(k, r))
        => audit_logs[i].after = audit_logs[j].before

(***************************************************************************)
(* The engine keeps the promise of WorkflowPromise: to a client that sends *)
(* one request at a time the reads, checks and writes of a handler are one *)
(* step, and crashes between them leave no trace.                          *)
(***************************************************************************)
Promise == INSTANCE WorkflowPromise WITH
    installed <- workflow,
    state <- records,
    verdict <- [p \in ApprovalIds |-> approvals[p].status],
    subject <- [p \in ApprovalIds |-> [record |-> approvals[p].record,
                                       target |-> approvals[p].target]]

KeepsPromise == Promise!Spec
=============================================================================
