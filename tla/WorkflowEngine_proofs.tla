------------------------ MODULE WorkflowEngine_proofs ------------------------
(***************************************************************************)
(* Proofs about WorkflowEngine for every number of handlers, actors, records*)
(* and definitions, every assignment of grants and every interleaving: no  *)
(* record moves without consent, and what the tables say of each other.    *)
(***************************************************************************)
EXTENDS WorkflowEngine, FiniteSetTheorems, TLAPS

-----------------------------------------------------------------------------
(* The pc of a handler tells what it holds.                                *)
LEMMA LocalOfPc ==
    ASSUME NEW local \in Local
    PROVE  /\ local.pc = "transition.loaded" => local \in TransitionLoaded
           /\ local.pc = "transition.ready" => local \in TransitionReady
           /\ local.pc = "decide.loaded" => local \in DecideLoaded
           /\ local.pc = "decide.ready" => local \in DecideReady
           /\ local.pc = "complete.ready" => local \in CompleteReady
           /\ local.pc = "create.ready" => local \in CreateReady
BY DEF Local, IdleLocal, TransitionLoaded, TransitionReady, DecideLoaded,
       DecideReady, CompleteReady, CreateReady

(* The locals a handler may be given.                                      *)
LEMMA LocalMembers ==
    /\ Idle \in Local
    /\ TransitionLoaded \subseteq Local
    /\ TransitionReady \subseteq Local
    /\ DecideLoaded \subseteq Local
    /\ DecideReady \subseteq Local
    /\ CompleteReady \subseteq Local
    /\ CreateReady \subseteq Local
BY DEF Local, Idle, IdleLocal

(***************************************************************************)
(* What a handler relies on beyond the types: the rows it read are there.  *)
(* A stored approval has all its columns and names a stored record.        *)
(***************************************************************************)
FilledApproval == [status: {"pending"} \cup Decided,
                   requested_by: Actors,
                   record: Records,
                   from: States,
                   target: States,
                   decided_by: Actors \cup {None}]

ApprovalsFilled ==
    \A p \in ApprovalIds :
        approvals[p].status # "absent" =>
            /\ approvals[p] \in FilledApproval
            /\ records[approvals[p].record] # NoRecord

HandlersHoldRows ==
    \A q \in Requests :
        /\ inflight[q].pc \in {"transition.loaded", "transition.ready"} =>
             records[inflight[q].record] # NoRecord
        /\ inflight[q].pc \in {"decide.loaded", "decide.ready"} =>
             approvals[inflight[q].approval].status # "absent"

WellFormed == TypeOK /\ ApprovalsFilled /\ HandlersHoldRows

LEMMA InitTypeOK == Init => TypeOK
<1>. SUFFICES ASSUME Init PROVE TypeOK
  OBVIOUS
<1>1. NoApproval \in Approval /\ NoTask \in Task
  BY DEF NoApproval, Approval, Decided, NoTask, Task
<1>. QED
  BY <1>1, LocalMembers DEF Init, TypeOK

(* A denial row is well typed, written or not.                             *)
LEMMA AuditDenialTypeOK ==
    ASSUME TypeOK, NEW a \in Actors,
           NEW target \in Records \cup TaskIds \cup {None},
           NEW p \in ApprovalIds \cup {None},
           AuditDenial(a, target, p)
    PROVE  audit_logs' \in Seq(AuditRow)
<1>1. Row("permission.denied", a, target, None, None, p) \in AuditRow
  BY DEF Row, AuditRow
<1>2. CASE Audit(Row("permission.denied", a, target, None, None, p))
  BY <1>1, <1>2 DEF TypeOK, Audit
<1>3. CASE UNCHANGED audit_logs
  BY <1>3 DEF TypeOK
<1>. QED
  BY <1>2, <1>3 DEF AuditDenial

LEMMA CreateWorkflowTypeOK ==
    ASSUME TypeOK, NEW q \in Requests, NEW a \in Actors, NEW d \in Definitions,
           CreateWorkflow(q, a, d)
    PROVE  TypeOK'
<1> DEFINE row == [Row("workflow.create", a, None, None, None, None) EXCEPT !.def = d]
<1>1. row \in AuditRow
  BY DEF Row, AuditRow
<1>2. CASE workflow' = d /\ Audit(row)
  <2>1. audit_logs' \in Seq(AuditRow)
    BY <1>1, <1>2 DEF TypeOK, Audit
  <2>. QED
    BY <1>2, <2>1 DEF TypeOK, CreateWorkflow
<1>3. CASE AuditDenial(a, None, None) /\ UNCHANGED workflow
  BY <1>3, AuditDenialTypeOK DEF TypeOK, CreateWorkflow
<1>. QED
  BY <1>2, <1>3 DEF CreateWorkflow

LEMMA CreateRecordLoadTypeOK ==
    ASSUME TypeOK, NEW q \in Requests, NEW a \in Actors, NEW r \in Records,
           CreateRecordLoad(q, a, r)
    PROVE  TypeOK'
<1> DEFINE local == [pc |-> "create.ready", actor |-> a, record |-> r,
                     initial |-> IF workflow = None THEN None ELSE workflow.initial]
<1>1. local \in CreateReady
  BY ConstantsAssumption DEF TypeOK, CreateReady
<1>2. audit_logs' \in Seq(AuditRow)
  BY AuditDenialTypeOK DEF TypeOK, CreateRecordLoad
<1>3. inflight' \in [Requests -> Local]
  BY <1>1, LocalMembers DEF TypeOK, CreateRecordLoad, Proceed
<1>. QED
  BY <1>2, <1>3 DEF TypeOK, CreateRecordLoad

LEMMA CreateRecordCommitTypeOK ==
    ASSUME TypeOK, NEW q \in Requests, CreateRecordCommit(q)
    PROVE  TypeOK'
<1>1. inflight[q] \in CreateReady
  BY LocalOfPc DEF TypeOK, CreateRecordCommit
<1>2. Row("record.create", inflight[q].actor, inflight[q].record, None, None, None)
        \in AuditRow
  BY <1>1 DEF Row, AuditRow, CreateReady
<1>3. [kind |-> "record.created", record |-> inflight[q].record,
       to |-> None, approval |-> None] \in EventRow
  BY <1>1 DEF EventRow, CreateReady
<1>4. records' \in [Records -> States \cup {None, NoRecord}]
  BY <1>1 DEF TypeOK, CreateRecordCommit, CreateReady
<1>. QED
  BY <1>2, <1>3, <1>4, LocalMembers
  DEF TypeOK, CreateRecordCommit, Audit, Emit, Finish

LEMMA TransitionRecordLoadTypeOK ==
    ASSUME TypeOK, NEW q \in Requests, NEW a \in Actors, NEW r \in Records,
           NEW k \in Keys, TransitionRecordLoad(q, a, r, k)
    PROVE  TypeOK'
<1>1. [pc |-> "transition.loaded", actor |-> a, record |-> r,
       key |-> k, seen |-> records[r]] \in TransitionLoaded
  BY DEF TypeOK, TransitionRecordLoad, TransitionLoaded
<1>. QED
  BY <1>1, LocalMembers DEF TypeOK, TransitionRecordLoad, Proceed, tables

LEMMA TransitionRecordResolveTypeOK ==
    ASSUME TypeOK, NEW q \in Requests, TransitionRecordResolve(q)
    PROVE  TypeOK'
<1> DEFINE local == inflight[q]
<1>1. local \in TransitionLoaded
  BY LocalOfPc DEF TypeOK, TransitionRecordResolve
<1>2. workflow \in Definitions
  BY DEF TypeOK, TransitionRecordResolve
<1>3. PICK t \in TransitionsFrom(workflow, CurrentState(workflow, local.seen), local.key) :
         \/ /\ Proceed(q, [pc |-> "transition.ready", actor |-> local.actor,
                           record |-> local.record, step |-> t])
            /\ UNCHANGED audit_logs
         \/ /\ AuditDenial(local.actor, local.record, None)
            /\ Finish(q)
  BY DEF TransitionRecordResolve
<1>4. t \in Transition
  BY <1>2, <1>3, ConstantsAssumption DEF TransitionsFrom
<1>5. [pc |-> "transition.ready", actor |-> local.actor,
       record |-> local.record, step |-> t] \in TransitionReady
  BY <1>1, <1>4 DEF TransitionLoaded, TransitionReady
<1>6. inflight' \in [Requests -> Local]
  BY <1>3, <1>5, LocalMembers DEF TypeOK, Proceed, Finish
<1>7. audit_logs' \in Seq(AuditRow)
  <2>1. local.actor \in Actors /\ local.record \in Records
    BY <1>1 DEF TransitionLoaded
  <2>. QED
    BY <1>3, <2>1, AuditDenialTypeOK DEF TypeOK
<1>. QED
  BY <1>6, <1>7 DEF TypeOK, TransitionRecordResolve

LEMMA TransitionRecordMoveTypeOK ==
    ASSUME TypeOK, NEW q \in Requests, TransitionRecordMove(q)
    PROVE  TypeOK'
<1> DEFINE local == inflight[q]
<1>1. local \in TransitionReady
  BY LocalOfPc DEF TypeOK, TransitionRecordMove
<1>2. Row("workflow.transition", local.actor, local.record,
          local.step.from, local.step.to, None) \in AuditRow
  BY <1>1 DEF Row, AuditRow, TransitionReady, Transition
<1>3. [kind |-> "workflow.transitioned", record |-> local.record,
       to |-> local.step.to, approval |-> None] \in EventRow
  BY <1>1 DEF EventRow, TransitionReady, Transition
<1>4. records' \in [Records -> States \cup {None, NoRecord}]
  BY <1>1 DEF TypeOK, TransitionRecordMove, TransitionReady, Transition
<1>. QED
  BY <1>2, <1>3, <1>4, LocalMembers
  DEF TypeOK, TransitionRecordMove, Audit, Emit, Finish

LEMMA TransitionRecordRequestTypeOK ==
    ASSUME TypeOK, NEW q \in Requests, TransitionRecordRequest(q)
    PROVE  TypeOK'
<1> DEFINE local == inflight[q]
           approval == [status |-> "pending", requested_by |-> local.actor,
                        record |-> local.record, from |-> local.step.from,
                        target |-> local.step.to, decided_by |-> None]
           task(p) == [status |-> "open", approval |-> p, created_by |-> local.actor,
                       assignee |-> None, origin |-> "engine"]
<1>1. local \in TransitionReady
  BY LocalOfPc DEF TypeOK, TransitionRecordRequest
<1>2. PICK p \in ApprovalIds, t \in TaskIds :
         /\ approvals' = [approvals EXCEPT ![p] = approval]
         /\ tasks' = [tasks EXCEPT ![t] = task(p)]
         /\ Audit(Row("workflow.transition.requested", local.actor, local.record,
                      local.step.from, local.step.to, p))
         /\ Emit("approval.requested", local.record, None, p)
  BY DEF TransitionRecordRequest
<1>3. approval \in Approval
  BY <1>1 DEF Approval, TransitionReady, Transition
<1>4. task(p) \in Task
  BY <1>1 DEF Task, TransitionReady
<1>5. Row("workflow.transition.requested", local.actor, local.record,
          local.step.from, local.step.to, p) \in AuditRow
  BY <1>1 DEF Row, AuditRow, TransitionReady, Transition
<1>6. [kind |-> "approval.requested", record |-> local.record,
       to |-> None, approval |-> p] \in EventRow
  BY <1>1 DEF EventRow, TransitionReady
<1>7. /\ approvals' \in [ApprovalIds -> Approval]
      /\ tasks' \in [TaskIds -> Task]
  BY <1>2, <1>3, <1>4 DEF TypeOK
<1>8. /\ audit_logs' \in Seq(AuditRow)
      /\ events' \in Seq(EventRow)
  BY <1>2, <1>5, <1>6 DEF TypeOK, Audit, Emit
<1>. QED
  BY <1>7, <1>8, LocalMembers DEF TypeOK, TransitionRecordRequest, Finish

LEMMA DecideApprovalLoadTypeOK ==
    ASSUME TypeOK, NEW q \in Requests, NEW a \in Actors, NEW p \in ApprovalIds,
           NEW approved \in BOOLEAN, DecideApprovalLoad(q, a, p, approved)
    PROVE  TypeOK'
<1>1. [pc |-> "decide.loaded", actor |-> a, approval |-> p,
       approved |-> approved] \in DecideLoaded
  BY DEF DecideLoaded
<1>2. audit_logs' \in Seq(AuditRow)
  BY AuditDenialTypeOK DEF TypeOK, DecideApprovalLoad
<1>3. inflight' \in [Requests -> Local]
  BY <1>1, LocalMembers DEF TypeOK, DecideApprovalLoad, Proceed
<1>. QED
  BY <1>2, <1>3 DEF TypeOK, DecideApprovalLoad

LEMMA DecideApprovalAuthorizeTypeOK ==
    ASSUME WellFormed, NEW q \in Requests, DecideApprovalAuthorize(q)
    PROVE  TypeOK'
<1> DEFINE local == inflight[q]
           target == approvals[local.approval].record
<1>1. local \in DecideLoaded
  BY LocalOfPc DEF WellFormed, TypeOK, DecideApprovalAuthorize
<1>2. target \in Records /\ records[target] \in States \cup {None}
  BY <1>1 DEF WellFormed, TypeOK, ApprovalsFilled, HandlersHoldRows,
              FilledApproval, DecideLoaded
<1>3. [pc |-> "decide.ready", actor |-> local.actor, approval |-> local.approval,
       approved |-> local.approved, before |-> records[target]] \in DecideReady
  BY <1>1, <1>2 DEF DecideLoaded, DecideReady
<1>4. local.actor \in Actors
  BY <1>1 DEF DecideLoaded
<1>5. audit_logs' \in Seq(AuditRow)
  BY <1>2, <1>4, AuditDenialTypeOK
  DEF WellFormed, TypeOK, DecideApprovalAuthorize
<1>6. inflight' \in [Requests -> Local]
  BY <1>3, LocalMembers
  DEF WellFormed, TypeOK, DecideApprovalAuthorize, Proceed, Finish
<1>. QED
  BY <1>5, <1>6 DEF WellFormed, TypeOK, DecideApprovalAuthorize

(* Closing tasks keeps their type.                                         *)
LEMMA CloseTasksTypeOK ==
    ASSUME TypeOK, NEW p \in ApprovalIds, NEW status \in {"done", "cancelled"},
           CloseTasksForApproval(p, status)
    PROVE  tasks' \in [TaskIds -> Task]
<1>1. \A t \in TaskIds : [tasks[t] EXCEPT !.status = status] \in Task
  BY DEF TypeOK, Task
<1>. QED
  BY <1>1 DEF TypeOK, CloseTasksForApproval

(* A decision keeps the type of the approvals.                             *)
LEMMA SetDecisionTypeOK ==
    ASSUME TypeOK, NEW p \in ApprovalIds, NEW status \in Decided,
           NEW a \in Actors, SetDecision(p, status, a)
    PROVE  approvals' \in [ApprovalIds -> Approval]
<1>1. [approvals[p] EXCEPT !.status = status, !.decided_by = a] \in Approval
  BY DEF TypeOK, Approval
<1>. QED
  BY <1>1 DEF TypeOK, SetDecision

LEMMA DecideApprovalApproveTypeOK ==
    ASSUME WellFormed, NEW q \in Requests, DecideApprovalApprove(q)
    PROVE  TypeOK'
<1> DEFINE local == inflight[q]
           approval == approvals[local.approval]
<1>1. local \in DecideReady
  BY LocalOfPc DEF WellFormed, TypeOK, DecideApprovalApprove
<1>2. approval.record \in Records /\ approval.target \in States
  BY <1>1 DEF WellFormed, ApprovalsFilled, HandlersHoldRows, FilledApproval,
              DecideReady
<1>3. Row("workflow.transition", local.actor, approval.record, local.before,
          approval.target, local.approval) \in AuditRow
  BY <1>1, <1>2 DEF Row, AuditRow, DecideReady
<1>4. [kind |-> "workflow.transitioned", record |-> approval.record,
       to |-> approval.target, approval |-> local.approval] \in EventRow
  BY <1>1, <1>2 DEF EventRow, DecideReady
<1>. /\ TypeOK
     /\ local.approval \in ApprovalIds
     /\ local.actor \in Actors
     /\ "approved" \in Decided
  BY <1>1 DEF WellFormed, DecideReady, Decided
<1>5. tasks' \in [TaskIds -> Task] /\ approvals' \in [ApprovalIds -> Approval]
  <2>1. /\ CloseTasksForApproval(local.approval, "done")
        /\ SetDecision(local.approval, "approved", local.actor)
    BY DEF DecideApprovalApprove
  <2> HIDE DEF local, approval
  <2>. QED
    BY <2>1, CloseTasksTypeOK, SetDecisionTypeOK
<1>6. records' \in [Records -> States \cup {None, NoRecord}]
  BY <1>2 DEF WellFormed, TypeOK, DecideApprovalApprove
<1> DEFINE row == Row("workflow.transition", local.actor, approval.record, local.before,
                      approval.target, local.approval)
           event == [kind |-> "workflow.transitioned", record |-> approval.record,
                     to |-> approval.target, approval |-> local.approval]
<1>7. /\ audit_logs' = Append(audit_logs, row)
      /\ events' = Append(events, event)
      /\ inflight' = [inflight EXCEPT ![q] = Idle]
      /\ UNCHANGED workflow
  BY DEF DecideApprovalApprove, Audit, Emit, Finish
<1> HIDE DEF row, event, local, approval
<1>8. audit_logs' \in Seq(AuditRow) /\ events' \in Seq(EventRow)
  BY <1>3, <1>4, <1>7 DEF TypeOK, row, event
<1>9. inflight' \in [Requests -> Local] /\ workflow' \in Definitions \cup {None}
  BY <1>7, LocalMembers DEF TypeOK
<1>. QED
  BY <1>5, <1>6, <1>8, <1>9 DEF TypeOK

LEMMA DecideApprovalRejectTypeOK ==
    ASSUME WellFormed, NEW q \in Requests, DecideApprovalReject(q)
    PROVE  TypeOK'
<1> DEFINE local == inflight[q]
<1>1. local \in DecideReady
  BY LocalOfPc DEF WellFormed, TypeOK, DecideApprovalReject
<1>2. Row("approval.reject", local.actor, approvals[local.approval].record, None,
          None, local.approval) \in AuditRow
  BY <1>1 DEF WellFormed, ApprovalsFilled, HandlersHoldRows, FilledApproval,
              Row, AuditRow, DecideReady
<1>3. /\ tasks' \in [TaskIds -> Task]
      /\ approvals' \in [ApprovalIds -> Approval]
  BY <1>1, CloseTasksTypeOK, SetDecisionTypeOK
  DEF WellFormed, DecideApprovalReject, DecideReady, Decided
<1>. QED
  BY <1>2, <1>3, LocalMembers
  DEF WellFormed, TypeOK, DecideApprovalReject, Audit, Finish

LEMMA CreateTaskTypeOK ==
    ASSUME TypeOK, NEW q \in Requests, NEW a \in Actors, NEW t \in TaskIds,
           NEW assignee \in Actors \cup {None}, NEW p \in ApprovalIds \cup {None},
           CreateTask(q, a, t, assignee, p)
    PROVE  TypeOK'
<1> DEFINE task == [status |-> "open", approval |-> p, created_by |-> a,
                    assignee |-> assignee, origin |-> "user"]
<1>1. task \in Task
  BY DEF Task
<1>2. Row("task.create", a, t, None, "open", None) \in AuditRow
  BY DEF Row, AuditRow
<1>3. CASE /\ tasks' = [tasks EXCEPT ![t] = task]
           /\ Audit(Row("task.create", a, t, None, "open", None))
  <2>1. tasks' \in [TaskIds -> Task]
    BY <1>1, <1>3 DEF TypeOK
  <2>2. audit_logs' \in Seq(AuditRow)
    BY <1>2, <1>3 DEF TypeOK, Audit
  <2>. QED
    BY <2>1, <2>2 DEF TypeOK, CreateTask
<1>4. CASE AuditDenial(a, None, None) /\ UNCHANGED tasks
  BY <1>4, AuditDenialTypeOK DEF TypeOK, CreateTask
<1>. QED
  BY <1>3, <1>4 DEF CreateTask

LEMMA CompleteTaskLoadTypeOK ==
    ASSUME TypeOK, NEW q \in Requests, NEW a \in Actors, NEW t \in TaskIds,
           NEW status \in {"done", "cancelled"}, CompleteTaskLoad(q, a, t, status)
    PROVE  TypeOK'
<1>1. [pc |-> "complete.ready", actor |-> a, task |-> t, status |-> status]
        \in CompleteReady
  BY DEF CompleteReady
<1>2. audit_logs' \in Seq(AuditRow)
  BY AuditDenialTypeOK DEF TypeOK, CompleteTaskLoad
<1>3. inflight' \in [Requests -> Local]
  BY <1>1, LocalMembers DEF TypeOK, CompleteTaskLoad, Proceed
<1>. QED
  BY <1>2, <1>3 DEF TypeOK, CompleteTaskLoad

LEMMA CompleteTaskCommitTypeOK ==
    ASSUME TypeOK, NEW q \in Requests, CompleteTaskCommit(q)
    PROVE  TypeOK'
<1> DEFINE local == inflight[q]
<1>1. local \in CompleteReady
  BY LocalOfPc DEF TypeOK, CompleteTaskCommit
<1>2. Row("task.update", local.actor, local.task, "open", local.status, None)
        \in AuditRow
  BY <1>1 DEF Row, AuditRow, CompleteReady
<1>3. tasks' \in [TaskIds -> Task]
  <2>1. /\ tasks \in [TaskIds -> Task]
        /\ tasks' = [tasks EXCEPT ![local.task].status = local.status]
    BY DEF TypeOK, CompleteTaskCommit
  <2>2. local.task \in TaskIds /\ local.status \in {"done", "cancelled"}
    BY <1>1 DEF CompleteReady
  <2>. HIDE DEF local
  <2>3. [tasks[local.task] EXCEPT !.status = local.status] \in Task
    BY ONLY <2>1, <2>2 DEF Task
  <2>. QED
    BY ONLY <2>1, <2>2, <2>3
<1>. QED
  BY <1>2, <1>3, LocalMembers DEF TypeOK, CompleteTaskCommit, Audit, Finish

LEMMA NextTypeOK ==
    ASSUME WellFormed, [Next]_vars
    PROVE  TypeOK'
<1>. TypeOK
  BY DEF WellFormed
<1>1. CASE UNCHANGED vars
  BY <1>1 DEF TypeOK, vars
<1>2. ASSUME NEW q \in Requests, Arrive(q) PROVE TypeOK'
  BY <1>2, CreateWorkflowTypeOK, CreateRecordLoadTypeOK, TransitionRecordLoadTypeOK,
     DecideApprovalLoadTypeOK, CreateTaskTypeOK, CompleteTaskLoadTypeOK
  DEF Arrive
<1>3. ASSUME NEW q \in Requests, Continue(q) PROVE TypeOK'
  <2>1. CASE TransitionRecordRefuse(q)
    BY <2>1, LocalMembers DEF TypeOK, TransitionRecordRefuse, Finish, tables
  <2>. QED
    BY <1>3, <2>1, CreateRecordCommitTypeOK, TransitionRecordResolveTypeOK,
       TransitionRecordMoveTypeOK, TransitionRecordRequestTypeOK,
       DecideApprovalAuthorizeTypeOK, DecideApprovalApproveTypeOK,
       DecideApprovalRejectTypeOK, CompleteTaskCommitTypeOK
    DEF Continue
<1>4. ASSUME NEW q \in Requests, Abandon(q) PROVE TypeOK'
  BY <1>4, LocalMembers DEF TypeOK, Abandon, Finish, tables
<1>. QED
  BY <1>1, <1>2, <1>3, <1>4 DEF Next, Rest

-----------------------------------------------------------------------------
(***************************************************************************)
(* What every step preserves of the tables: a stored record stays stored,  *)
(* an approval keeps its columns and its being decided, and the audit log  *)
(* only grows at its end.                                                  *)
(***************************************************************************)
RecordsStay ==
    \A r \in Records : records[r] # NoRecord => records'[r] # NoRecord

ApprovalsStay ==
    \A p \in ApprovalIds : approvals[p].status # "absent" =>
        /\ approvals'[p].status # "absent"
        /\ approvals[p].status \in Decided => approvals'[p].status \in Decided
        /\ approvals'[p].requested_by = approvals[p].requested_by
        /\ approvals'[p].record = approvals[p].record
        /\ approvals'[p].from = approvals[p].from
        /\ approvals'[p].target = approvals[p].target

LogGrows ==
    /\ Len(audit_logs) <= Len(audit_logs')
    /\ \A i \in 1..Len(audit_logs) : audit_logs'[i] = audit_logs[i]

\* No row that the step adds moves a record.
AddsNoMove ==
    \A i \in (Len(audit_logs) + 1)..Len(audit_logs') :
        audit_logs'[i].action # "workflow.transition"

LEMMA AuditGrows ==
    ASSUME audit_logs \in Seq(AuditRow), NEW row, audit_logs' = Append(audit_logs, row)
    PROVE  /\ LogGrows
           /\ Len(audit_logs') = Len(audit_logs) + 1
           /\ audit_logs'[Len(audit_logs) + 1] = row
BY DEF LogGrows

LEMMA AuditAddsNoMove ==
    ASSUME audit_logs \in Seq(AuditRow), NEW row, row.action # "workflow.transition",
           audit_logs' = Append(audit_logs, row)
    PROVE  LogGrows /\ AddsNoMove
<1>1. /\ LogGrows
      /\ Len(audit_logs') = Len(audit_logs) + 1
      /\ audit_logs'[Len(audit_logs) + 1] = row
  BY AuditGrows
<1>2. Len(audit_logs) \in Nat
  OBVIOUS
<1>. QED
  BY <1>1, <1>2 DEF AddsNoMove

LEMMA NoAuditAddsNoMove ==
    ASSUME audit_logs \in Seq(AuditRow), UNCHANGED audit_logs
    PROVE  LogGrows /\ AddsNoMove
BY DEF LogGrows, AddsNoMove

LEMMA AuditDenialAddsNoMove ==
    ASSUME audit_logs \in Seq(AuditRow), NEW a, NEW target, NEW p,
           AuditDenial(a, target, p)
    PROVE  LogGrows /\ AddsNoMove
<1>1. Row("permission.denied", a, target, None, None, p).action # "workflow.transition"
  BY DEF Row
<1>. QED
  BY <1>1, AuditAddsNoMove, NoAuditAddsNoMove DEF AuditDenial, Audit

(* The commit of a move is the only step that writes a workflow.transition *)
(* row; it is TransitionRecordMove or DecideApprovalApprove.               *)
LEMMA ArriveAddsNoMove ==
    ASSUME WellFormed, NEW q \in Requests, Arrive(q)
    PROVE  LogGrows /\ AddsNoMove
<1>. audit_logs \in Seq(AuditRow)
  BY DEF WellFormed, TypeOK
<1>1. ASSUME NEW a \in Actors, NEW d \in Definitions, CreateWorkflow(q, a, d)
      PROVE  LogGrows /\ AddsNoMove
  <2>1. [Row("workflow.create", a, None, None, None, None) EXCEPT !.def = d].action
          # "workflow.transition"
    BY DEF Row
  <2>. QED
    BY <1>1, <2>1, AuditAddsNoMove, AuditDenialAddsNoMove DEF CreateWorkflow, Audit
<1>2. ASSUME NEW a \in Actors, NEW r \in Records, CreateRecordLoad(q, a, r)
      PROVE  LogGrows /\ AddsNoMove
  BY <1>2, NoAuditAddsNoMove, AuditDenialAddsNoMove DEF CreateRecordLoad
<1>3. ASSUME NEW a \in Actors, NEW r \in Records, NEW k \in Keys,
             TransitionRecordLoad(q, a, r, k)
      PROVE  LogGrows /\ AddsNoMove
  BY <1>3, NoAuditAddsNoMove DEF TransitionRecordLoad, tables
<1>4. ASSUME NEW a \in Actors, NEW p \in ApprovalIds, NEW approved \in BOOLEAN,
             DecideApprovalLoad(q, a, p, approved)
      PROVE  LogGrows /\ AddsNoMove
  BY <1>4, NoAuditAddsNoMove, AuditDenialAddsNoMove DEF DecideApprovalLoad
<1>5. ASSUME NEW a \in Actors, NEW t \in TaskIds, NEW assignee \in Actors \cup {None},
             NEW p \in ApprovalIds \cup {None}, CreateTask(q, a, t, assignee, p)
      PROVE  LogGrows /\ AddsNoMove
  <2>1. Row("task.create", a, t, None, "open", None).action # "workflow.transition"
    BY DEF Row
  <2>. QED
    BY <1>5, <2>1, AuditAddsNoMove, AuditDenialAddsNoMove DEF CreateTask, Audit
<1>6. ASSUME NEW a \in Actors, NEW t \in TaskIds, NEW status \in {"done", "cancelled"},
             CompleteTaskLoad(q, a, t, status)
      PROVE  LogGrows /\ AddsNoMove
  BY <1>6, NoAuditAddsNoMove, AuditDenialAddsNoMove DEF CompleteTaskLoad
<1>. QED
  BY <1>1, <1>2, <1>3, <1>4, <1>5, <1>6 DEF Arrive

LEMMA ContinueAddsNoMove ==
    ASSUME WellFormed, NEW q \in Requests, Continue(q),
           ~TransitionRecordMove(q), ~DecideApprovalApprove(q)
    PROVE  LogGrows /\ AddsNoMove
<1>. audit_logs \in Seq(AuditRow)
  BY DEF WellFormed, TypeOK
<1>1. CASE CreateRecordCommit(q)
  <2>1. Row("record.create", inflight[q].actor, inflight[q].record, None, None,
            None).action # "workflow.transition"
    BY DEF Row
  <2>. QED
    BY <1>1, <2>1, AuditAddsNoMove DEF CreateRecordCommit, Audit
<1>2. CASE TransitionRecordResolve(q)
  BY <1>2, NoAuditAddsNoMove, AuditDenialAddsNoMove DEF TransitionRecordResolve
<1>3. CASE TransitionRecordRefuse(q)
  BY <1>3, NoAuditAddsNoMove DEF TransitionRecordRefuse, tables
<1>4. CASE TransitionRecordRequest(q)
  <2>1. PICK p \in ApprovalIds :
           Audit(Row("workflow.transition.requested", inflight[q].actor,
                     inflight[q].record, inflight[q].step.from, inflight[q].step.to, p))
    BY <1>4 DEF TransitionRecordRequest
  <2>2. Row("workflow.transition.requested", inflight[q].actor, inflight[q].record,
            inflight[q].step.from, inflight[q].step.to, p).action # "workflow.transition"
    BY DEF Row
  <2>. QED
    BY <2>1, <2>2, AuditAddsNoMove DEF Audit
<1>5. CASE DecideApprovalAuthorize(q)
  BY <1>5, NoAuditAddsNoMove, AuditDenialAddsNoMove DEF DecideApprovalAuthorize
<1>6. CASE DecideApprovalReject(q)
  <2>1. Row("approval.reject", inflight[q].actor,
            approvals[inflight[q].approval].record, None, None,
            inflight[q].approval).action # "workflow.transition"
    BY DEF Row
  <2>. QED
    BY <1>6, <2>1, AuditAddsNoMove DEF DecideApprovalReject, Audit
<1>7. CASE CompleteTaskCommit(q)
  <2>1. Row("task.update", inflight[q].actor, inflight[q].task, "open",
            inflight[q].status, None).action # "workflow.transition"
    BY DEF Row
  <2>. QED
    BY <1>7, <2>1, AuditAddsNoMove DEF CompleteTaskCommit, Audit
<1>. QED
  BY <1>1, <1>2, <1>3, <1>4, <1>5, <1>6, <1>7 DEF Continue

(* No step takes back what an earlier one committed.                       *)
LEMMA NextGrows ==
    ASSUME WellFormed, [Next]_vars
    PROVE  LogGrows
<1>. audit_logs \in Seq(AuditRow)
  BY DEF WellFormed, TypeOK
<1>1. ASSUME NEW q \in Requests, TransitionRecordMove(q) PROVE LogGrows
  BY <1>1, AuditGrows DEF TransitionRecordMove, Audit
<1>2. ASSUME NEW q \in Requests, DecideApprovalApprove(q) PROVE LogGrows
  BY <1>2, AuditGrows DEF DecideApprovalApprove, Audit
<1>3. ASSUME NEW q \in Requests, Abandon(q) PROVE LogGrows
  BY <1>3, NoAuditAddsNoMove DEF Abandon, tables
<1>4. CASE UNCHANGED vars
  BY <1>4, NoAuditAddsNoMove DEF vars
<1>. QED
  BY <1>1, <1>2, <1>3, <1>4, ArriveAddsNoMove, ContinueAddsNoMove DEF Next, Rest

LEMMA NextKeepsRecords ==
    ASSUME WellFormed, [Next]_vars
    PROVE  RecordsStay
<1>. TypeOK
  BY DEF WellFormed
<1>1. CASE UNCHANGED records
  BY <1>1 DEF RecordsStay
<1>2. ASSUME NEW q \in Requests, CreateRecordCommit(q) PROVE RecordsStay
  <2>1. inflight[q] \in CreateReady
    BY <1>2, LocalOfPc DEF TypeOK, CreateRecordCommit
  <2>. QED
    BY <1>2, <2>1, ConstantsAssumption
    DEF TypeOK, CreateRecordCommit, CreateReady, RecordsStay
<1>3. ASSUME NEW q \in Requests, TransitionRecordMove(q) PROVE RecordsStay
  <2>1. inflight[q] \in TransitionReady
    BY <1>3, LocalOfPc DEF TypeOK, TransitionRecordMove
  <2>. QED
    BY <1>3, <2>1, ConstantsAssumption
    DEF TypeOK, TransitionRecordMove, TransitionReady, Transition, RecordsStay
<1>4. ASSUME NEW q \in Requests, DecideApprovalApprove(q) PROVE RecordsStay
  <2>1. inflight[q] \in DecideReady
    BY <1>4, LocalOfPc DEF TypeOK, DecideApprovalApprove
  <2>2. approvals[inflight[q].approval].target \in States
    BY <2>1 DEF WellFormed, ApprovalsFilled, HandlersHoldRows, FilledApproval, DecideReady
  <2>. QED
    BY <1>4, <2>2, ConstantsAssumption DEF TypeOK, DecideApprovalApprove, RecordsStay
<1>5. ASSUME NEW q \in Requests, Arrive(q) PROVE UNCHANGED records
  BY <1>5 DEF Arrive, CreateWorkflow, CreateRecordLoad, TransitionRecordLoad,
              DecideApprovalLoad, CreateTask, CompleteTaskLoad, tables
<1>6. ASSUME NEW q \in Requests, Continue(q) PROVE RecordsStay
  BY <1>1, <1>2, <1>3, <1>4, <1>6
  DEF Continue, TransitionRecordResolve, TransitionRecordRefuse,
      TransitionRecordRequest, DecideApprovalAuthorize, DecideApprovalReject,
      CompleteTaskCommit, tables
<1>. QED
  BY <1>1, <1>5, <1>6 DEF Next, Abandon, Rest, vars, tables

(* The columns of a decided approval, and that others are left alone.      *)
LEMMA SetDecisionKeepsApprovals ==
    ASSUME TypeOK, NEW p \in ApprovalIds, NEW status \in Decided, NEW a \in Actors,
           SetDecision(p, status, a)
    PROVE  ApprovalsStay
BY DEF TypeOK, Approval, SetDecision, ApprovalsStay, Decided

LEMMA NextKeepsApprovals ==
    ASSUME WellFormed, [Next]_vars
    PROVE  ApprovalsStay
<1>. TypeOK
  BY DEF WellFormed
<1>1. CASE UNCHANGED approvals
  BY <1>1 DEF ApprovalsStay
<1>2. ASSUME NEW q \in Requests, TransitionRecordRequest(q) PROVE ApprovalsStay
  <2>1. PICK p \in ApprovalIds :
           /\ approvals[p].status = "absent"
           /\ approvals' = [approvals EXCEPT ![p] =
                [status |-> "pending", requested_by |-> inflight[q].actor,
                 record |-> inflight[q].record, from |-> inflight[q].step.from,
                 target |-> inflight[q].step.to, decided_by |-> None]]
    BY <1>2 DEF TransitionRecordRequest
  <2>. QED
    BY <2>1 DEF TypeOK, ApprovalsStay
<1>3. ASSUME NEW q \in Requests, DecideApprovalApprove(q) \/ DecideApprovalReject(q)
      PROVE  ApprovalsStay
  <2>1. inflight[q] \in DecideReady
    BY <1>3, LocalOfPc DEF TypeOK, DecideApprovalApprove, DecideApprovalReject
  <2>. QED
    BY <1>3, <2>1, SetDecisionKeepsApprovals
    DEF DecideApprovalApprove, DecideApprovalReject, DecideReady, Decided
<1>4. ASSUME NEW q \in Requests, Arrive(q) PROVE UNCHANGED approvals
  BY <1>4 DEF Arrive, CreateWorkflow, CreateRecordLoad, TransitionRecordLoad,
              DecideApprovalLoad, CreateTask, CompleteTaskLoad, tables
<1>5. ASSUME NEW q \in Requests, Continue(q) PROVE ApprovalsStay
  BY <1>1, <1>2, <1>3, <1>5
  DEF Continue, CreateRecordCommit, TransitionRecordResolve, TransitionRecordRefuse,
      TransitionRecordMove, DecideApprovalAuthorize, CompleteTaskCommit, tables
<1>. QED
  BY <1>1, <1>4, <1>5 DEF Next, Abandon, Rest, vars, tables

-----------------------------------------------------------------------------
(* The rows a handler has read are still there after any step.             *)
LEMMA ReadRowsStay ==
    ASSUME WellFormed, RecordsStay, ApprovalsStay, NEW q \in Requests,
           inflight'[q] = inflight[q]
    PROVE  /\ inflight'[q].pc \in {"transition.loaded", "transition.ready"} =>
                records'[inflight'[q].record] # NoRecord
           /\ inflight'[q].pc \in {"decide.loaded", "decide.ready"} =>
                approvals'[inflight'[q].approval].status # "absent"
<1>. TypeOK
  BY DEF WellFormed
<1>1. CASE inflight[q].pc \in {"transition.loaded", "transition.ready"}
  <2>1. inflight[q].record \in Records
    BY <1>1, LocalOfPc DEF TypeOK, TransitionLoaded, TransitionReady
  <2>. QED
    BY <1>1, <2>1 DEF WellFormed, HandlersHoldRows, RecordsStay
<1>2. CASE inflight[q].pc \in {"decide.loaded", "decide.ready"}
  <2>1. inflight[q].approval \in ApprovalIds
    BY <1>2, LocalOfPc DEF TypeOK, DecideLoaded, DecideReady
  <2>. QED
    BY <1>2, <2>1 DEF WellFormed, HandlersHoldRows, ApprovalsStay
<1>. QED
  BY <1>1, <1>2

LEMMA NoHandlerMoves ==
    ASSUME WellFormed, RecordsStay, ApprovalsStay, UNCHANGED inflight
    PROVE  HandlersHoldRows'
BY ReadRowsStay DEF HandlersHoldRows

LEMMA OneHandlerMoves ==
    ASSUME WellFormed, RecordsStay, ApprovalsStay, NEW q \in Requests, NEW local,
           inflight' = [inflight EXCEPT ![q] = local],
           local.pc \in {"transition.loaded", "transition.ready"} =>
                records'[local.record] # NoRecord,
           local.pc \in {"decide.loaded", "decide.ready"} =>
                approvals'[local.approval].status # "absent"
    PROVE  HandlersHoldRows'
<1>1. inflight'[q] = local
  BY DEF WellFormed, TypeOK
<1>2. \A other \in Requests : other # q => inflight'[other] = inflight[other]
  BY DEF WellFormed, TypeOK
<1>. QED
  BY <1>1, <1>2, ReadRowsStay DEF HandlersHoldRows

LEMMA OneHandlerEnds ==
    ASSUME WellFormed, RecordsStay, ApprovalsStay, NEW q \in Requests, Finish(q)
    PROVE  HandlersHoldRows'
<1>1. Idle.pc = "idle"
  BY DEF Idle
<1>. QED
  BY <1>1, OneHandlerMoves DEF Finish

LEMMA ArriveHoldsRows ==
    ASSUME WellFormed, RecordsStay, ApprovalsStay, NEW q \in Requests, Arrive(q)
    PROVE  HandlersHoldRows'
<1>1. ASSUME NEW a \in Actors, NEW d \in Definitions, CreateWorkflow(q, a, d)
      PROVE  HandlersHoldRows'
  BY <1>1, NoHandlerMoves DEF CreateWorkflow
<1>2. ASSUME NEW a \in Actors, NEW r \in Records, CreateRecordLoad(q, a, r)
      PROVE  HandlersHoldRows'
  <2> DEFINE local == [pc |-> "create.ready", actor |-> a, record |-> r,
                       initial |-> IF workflow = None THEN None ELSE workflow.initial]
  <2>1. local.pc = "create.ready"
    OBVIOUS
  <2>2. \/ inflight' = [inflight EXCEPT ![q] = local]
        \/ UNCHANGED inflight
    BY <1>2 DEF CreateRecordLoad, Proceed
  <2> HIDE DEF local
  <2>. QED
    BY <2>1, <2>2, OneHandlerMoves, NoHandlerMoves
<1>3. ASSUME NEW a \in Actors, NEW r \in Records, NEW k \in Keys,
             TransitionRecordLoad(q, a, r, k)
      PROVE  HandlersHoldRows'
  BY <1>3, OneHandlerMoves DEF TransitionRecordLoad, Proceed, tables
<1>4. ASSUME NEW a \in Actors, NEW p \in ApprovalIds, NEW approved \in BOOLEAN,
             DecideApprovalLoad(q, a, p, approved)
      PROVE  HandlersHoldRows'
  <2>1. CASE UNCHANGED inflight
    BY <2>1, NoHandlerMoves
  <2>2. CASE Proceed(q, [pc |-> "decide.loaded", actor |-> a, approval |-> p,
                         approved |-> approved])
    BY <1>4, <2>2, OneHandlerMoves DEF DecideApprovalLoad, Proceed
  <2>. QED
    BY <1>4, <2>1, <2>2 DEF DecideApprovalLoad
<1>5. ASSUME NEW a \in Actors, NEW t \in TaskIds, NEW assignee \in Actors \cup {None},
             NEW p \in ApprovalIds \cup {None}, CreateTask(q, a, t, assignee, p)
      PROVE  HandlersHoldRows'
  BY <1>5, NoHandlerMoves DEF CreateTask
<1>6. ASSUME NEW a \in Actors, NEW t \in TaskIds, NEW status \in {"done", "cancelled"},
             CompleteTaskLoad(q, a, t, status)
      PROVE  HandlersHoldRows'
  BY <1>6, NoHandlerMoves, OneHandlerMoves DEF CompleteTaskLoad, Proceed
<1>. QED
  BY <1>1, <1>2, <1>3, <1>4, <1>5, <1>6 DEF Arrive

LEMMA ContinueHoldsRows ==
    ASSUME WellFormed, RecordsStay, ApprovalsStay, NEW q \in Requests, Continue(q)
    PROVE  HandlersHoldRows'
<1>. TypeOK
  BY DEF WellFormed
<1>1. CASE TransitionRecordResolve(q)
  <2>1. inflight[q] \in TransitionLoaded /\ records[inflight[q].record] # NoRecord
    BY <1>1, LocalOfPc DEF WellFormed, TypeOK, HandlersHoldRows, TransitionRecordResolve
  <2>2. ASSUME NEW t,
               Proceed(q, [pc |-> "transition.ready", actor |-> inflight[q].actor,
                           record |-> inflight[q].record, step |-> t])
        PROVE  HandlersHoldRows'
    BY <1>1, <2>1, <2>2, OneHandlerMoves DEF TransitionRecordResolve, Proceed
  <2>. QED
    BY <1>1, <2>2, OneHandlerEnds DEF TransitionRecordResolve
<1>2. CASE DecideApprovalAuthorize(q)
  <2>1. approvals[inflight[q].approval].status # "absent"
    BY <1>2 DEF WellFormed, HandlersHoldRows, DecideApprovalAuthorize
  <2>2. ASSUME NEW before,
               Proceed(q, [pc |-> "decide.ready", actor |-> inflight[q].actor,
                           approval |-> inflight[q].approval,
                           approved |-> inflight[q].approved, before |-> before])
        PROVE  HandlersHoldRows'
    BY <1>2, <2>1, <2>2, OneHandlerMoves DEF DecideApprovalAuthorize, Proceed
  <2>. QED
    BY <1>2, <2>2, OneHandlerEnds DEF DecideApprovalAuthorize
<1>. QED
  BY <1>1, <1>2, OneHandlerEnds
  DEF Continue, CreateRecordCommit, TransitionRecordRefuse, TransitionRecordMove,
      TransitionRecordRequest, DecideApprovalApprove, DecideApprovalReject,
      CompleteTaskCommit

LEMMA NextHoldsRows ==
    ASSUME WellFormed, [Next]_vars
    PROVE  HandlersHoldRows'
<1>1. RecordsStay /\ ApprovalsStay
  BY NextKeepsRecords, NextKeepsApprovals
<1>. QED
  BY <1>1, ArriveHoldsRows, ContinueHoldsRows, OneHandlerEnds, NoHandlerMoves
  DEF Next, Abandon, Rest, vars

(* An approval appears only by the commit of a gated transition ...        *)
LEMMA NewApprovalByRequest ==
    ASSUME WellFormed, [Next]_vars, NEW p \in ApprovalIds,
           approvals[p].status = "absent", approvals'[p].status # "absent"
    PROVE  \E q \in Requests : TransitionRecordRequest(q)
<1>. TypeOK
  BY DEF WellFormed
<1>1. approvals' # approvals
  OBVIOUS
<1>2. ASSUME NEW q \in Requests, Arrive(q) PROVE FALSE
  BY <1>1, <1>2 DEF Arrive, CreateWorkflow, CreateRecordLoad, TransitionRecordLoad,
              DecideApprovalLoad, CreateTask, CompleteTaskLoad, tables
<1>3. ASSUME NEW q \in Requests, DecideApprovalApprove(q) \/ DecideApprovalReject(q)
      PROVE  FALSE
  <2>1. inflight[q] \in DecideReady
    BY <1>3, LocalOfPc DEF TypeOK, DecideApprovalApprove, DecideApprovalReject
  <2>2. approvals[inflight[q].approval].status # "absent" /\ inflight[q].approval # p
    BY <2>1 DEF WellFormed, HandlersHoldRows, DecideReady
  <2>3. approvals'[p] = approvals[p]
    BY <1>3, <2>1, <2>2
    DEF TypeOK, DecideApprovalApprove, DecideApprovalReject, SetDecision, DecideReady
  <2>. QED
    BY <2>3
<1>. QED
  BY <1>1, <1>2, <1>3
  DEF Next, Continue, Abandon, Rest, CreateRecordCommit, TransitionRecordResolve,
      TransitionRecordRefuse, TransitionRecordMove, DecideApprovalAuthorize,
      CompleteTaskCommit, vars, tables

(* ... and it is whole.                                                    *)
LEMMA NewApprovalFilled ==
    ASSUME WellFormed, [Next]_vars, NEW p \in ApprovalIds,
           approvals[p].status = "absent", approvals'[p].status # "absent"
    PROVE  approvals'[p] \in FilledApproval /\ records'[approvals'[p].record] # NoRecord
<1>. TypeOK
  BY DEF WellFormed
<1>1. PICK q \in Requests : TransitionRecordRequest(q)
  BY NewApprovalByRequest
<1> DEFINE local == inflight[q]
           approval == [status |-> "pending", requested_by |-> local.actor,
                        record |-> local.record, from |-> local.step.from,
                        target |-> local.step.to, decided_by |-> None]
<1>2. local \in TransitionReady /\ records[local.record] # NoRecord
  BY <1>1, LocalOfPc DEF WellFormed, TypeOK, HandlersHoldRows, TransitionRecordRequest
<1>3. approval \in FilledApproval
  BY <1>2 DEF FilledApproval, TransitionReady, Transition
<1>4. approvals'[p] = approval /\ UNCHANGED records
  BY <1>1 DEF TypeOK, TransitionRecordRequest
<1>. QED
  BY <1>2, <1>3, <1>4

LEMMA NextApprovalsFilled ==
    ASSUME WellFormed, [Next]_vars
    PROVE  ApprovalsFilled'
<1>1. RecordsStay /\ ApprovalsStay /\ TypeOK'
  BY NextKeepsRecords, NextKeepsApprovals, NextTypeOK
<1>2. ASSUME NEW p \in ApprovalIds, approvals[p].status # "absent"
      PROVE  approvals'[p] \in FilledApproval /\ records'[approvals'[p].record] # NoRecord
  <2>1. approvals[p] \in FilledApproval /\ records[approvals[p].record] # NoRecord
    BY <1>2 DEF WellFormed, ApprovalsFilled
  <2>2. approvals'[p] \in Approval
    BY <1>1 DEF TypeOK
  <2>. QED
    BY <1>1, <1>2, <2>1, <2>2
    DEF ApprovalsStay, RecordsStay, Approval, FilledApproval, Decided
<1>. QED
  BY <1>2, NewApprovalFilled DEF ApprovalsFilled

(* The strengthened type invariant is inductive.                           *)
LEMMA WellFormedInductive ==
    /\ Init => WellFormed
    /\ WellFormed /\ [Next]_vars => WellFormed'
<1>1. Init => ApprovalsFilled /\ HandlersHoldRows
  BY DEF Init, ApprovalsFilled, HandlersHoldRows, NoApproval, Idle
<1>. QED
  BY <1>1, InitTypeOK, NextTypeOK, NextApprovalsFilled, NextHoldsRows DEF WellFormed

(* Every reachable state is well typed: the rows of the tables, and what   *)
(* each running handler has read.                                          *)
THEOREM TypeCorrect == Spec => []TypeOK
<1>1. WellFormed => TypeOK
  BY DEF WellFormed
<1>. QED
  BY <1>1, WellFormedInductive, PTL DEF Spec

-----------------------------------------------------------------------------
(***************************************************************************)
(* EveryMoveAuthorised speaks of rows already written; it is inductive     *)
(* only with what the handlers and tables carry towards the next row: the  *)
(* stored workflow is valid and was installed by a row of the log, a       *)
(* resolved transition and a stored approval were declared by such a row,  *)
(* and a decider has passed the checks of decide_approval.                 *)
(***************************************************************************)
DeclaredByNow(from, to, gated, actor) ==
    DeclaredBefore(audit_logs, Len(audit_logs) + 1, from, to, gated, actor)

WorkflowInstalled ==
    workflow # None =>
        /\ ValidWorkflow(workflow)
        /\ \E i \in 1..Len(audit_logs) : /\ audit_logs[i].action = "workflow.create"
                                         /\ audit_logs[i].def = workflow

StepsDeclared ==
    \A q \in Requests : inflight[q].pc = "transition.ready" =>
        DeclaredByNow(inflight[q].step.from, inflight[q].step.to,
                      inflight[q].step.gated, inflight[q].actor)

ApprovalsDeclared ==
    \A p \in ApprovalIds : approvals[p].status # "absent" =>
        DeclaredByNow(approvals[p].from, approvals[p].target, TRUE,
                      approvals[p].requested_by)

DecidersChecked ==
    \A q \in Requests :
        /\ inflight[q].pc \in {"decide.loaded", "decide.ready"} =>
             MayDecideFor(inflight[q].actor,
                          approvals[inflight[q].approval].requested_by)
        /\ inflight[q].pc = "decide.ready" =>
             Authorized(inflight[q].actor, "approve", ObjectResource)

Consented ==
    /\ WellFormed
    /\ WorkflowInstalled
    /\ StepsDeclared
    /\ ApprovalsDeclared
    /\ DecidersChecked
    /\ EveryMoveAuthorised

LEMMA DeclaredStays ==
    ASSUME LogGrows, audit_logs \in Seq(AuditRow), audit_logs' \in Seq(AuditRow),
           NEW i \in 1..(Len(audit_logs) + 1),
           NEW from, NEW to, NEW gated, NEW actor,
           DeclaredBefore(audit_logs, i, from, to, gated, actor)
    PROVE  /\ DeclaredBefore(audit_logs', i, from, to, gated, actor)
           /\ DeclaredBefore(audit_logs', Len(audit_logs') + 1, from, to, gated, actor)
<1>1. PICK j \in 1..(i - 1), d \in Definitions :
         /\ audit_logs[j].action = "workflow.create"
         /\ audit_logs[j].def = d
         /\ {from, to} \subseteq d.states
         /\ \E t \in d.transitions :
               /\ t.from = from /\ t.to = to /\ t.gated = gated
               /\ Authorized(actor, "transition", GuardResource(t))
  BY DEF DeclaredBefore
<1>2. j \in 1..Len(audit_logs) /\ audit_logs'[j] = audit_logs[j]
  BY DEF LogGrows
<1>3. j \in 1..((Len(audit_logs') + 1) - 1)
  BY <1>2 DEF LogGrows
<1>. QED
  BY <1>1, <1>2, <1>3 DEF DeclaredBefore

(* A step that leaves the workflow alone leaves it installed.              *)
LEMMA SameWorkflowInstalled ==
    ASSUME WorkflowInstalled, LogGrows, UNCHANGED workflow,
           audit_logs \in Seq(AuditRow), audit_logs' \in Seq(AuditRow)
    PROVE  WorkflowInstalled'
BY DEF WorkflowInstalled, LogGrows

LEMMA NextWorkflowInstalled ==
    ASSUME Consented, [Next]_vars
    PROVE  WorkflowInstalled'
<1>1. /\ LogGrows /\ WorkflowInstalled
      /\ audit_logs \in Seq(AuditRow) /\ audit_logs' \in Seq(AuditRow)
  BY NextGrows, NextTypeOK DEF Consented, WellFormed, TypeOK
<1>2. ASSUME NEW q \in Requests, NEW a \in Actors, NEW d \in Definitions,
             CreateWorkflow(q, a, d)
      PROVE  WorkflowInstalled'
  <2> DEFINE row == [Row("workflow.create", a, None, None, None, None) EXCEPT !.def = d]
  <2>1. row.action = "workflow.create" /\ row.def = d
    BY DEF Row
  <2> HIDE DEF row
  <2>2. CASE UNCHANGED workflow
    BY <1>1, <2>2, SameWorkflowInstalled
  <2>3. CASE ValidWorkflow(d) /\ workflow' = d /\ Audit(row)
    <3>1. Len(audit_logs') = Len(audit_logs) + 1 /\ audit_logs'[Len(audit_logs) + 1] = row
      BY <1>1, <2>3, AuditGrows DEF Audit
    <3>2. Len(audit_logs) + 1 \in 1..Len(audit_logs')
      BY <1>1, <3>1
    <3>. QED
      BY <2>1, <2>3, <3>1, <3>2 DEF WorkflowInstalled
  <2>. QED
    BY <1>2, <2>2, <2>3 DEF CreateWorkflow, row
<1>3. ASSUME NEW q \in Requests, Arrive(q) PROVE WorkflowInstalled'
  BY <1>1, <1>2, <1>3, SameWorkflowInstalled
  DEF Arrive, CreateRecordLoad, TransitionRecordLoad, DecideApprovalLoad, CreateTask,
      CompleteTaskLoad, tables
<1>4. ASSUME NEW q \in Requests, Continue(q) PROVE UNCHANGED workflow
  BY <1>4 DEF Continue, CreateRecordCommit, TransitionRecordResolve,
     TransitionRecordRefuse, TransitionRecordMove, TransitionRecordRequest,
     DecideApprovalAuthorize, DecideApprovalApprove, DecideApprovalReject,
     CompleteTaskCommit, tables
<1>. QED
  BY <1>1, <1>3, <1>4, SameWorkflowInstalled DEF Next, Abandon, Rest, vars, tables

(***************************************************************************)
(* A handler changes only in its own step, and reaches transition.ready    *)
(* and decide.* only by the checks that lead there.                        *)
(***************************************************************************)
LEMMA HandlerChanges ==
    ASSUME WellFormed, [Next]_vars, NEW q \in Requests, inflight'[q] # inflight[q]
    PROVE  \/ inflight'[q].pc \notin {"transition.ready", "decide.loaded", "decide.ready"}
           \/ /\ TransitionRecordResolve(q)
              /\ inflight'[q].pc = "transition.ready"
           \/ /\ \E a \in Actors, p \in ApprovalIds, approved \in BOOLEAN :
                    DecideApprovalLoad(q, a, p, approved)
              /\ inflight'[q].pc = "decide.loaded"
           \/ /\ DecideApprovalAuthorize(q)
              /\ inflight'[q].pc = "decide.ready"
<1>. inflight \in [Requests -> Local]
  BY DEF WellFormed, TypeOK
<1>1. ASSUME NEW other \in Requests, NEW local, other # q,
             inflight' = [inflight EXCEPT ![other] = local]
      PROVE  FALSE
  BY <1>1
<1>2. ASSUME NEW local, inflight' = [inflight EXCEPT ![q] = local]
      PROVE  inflight'[q] = local
  BY <1>2
<1>3. ASSUME Finish(q) PROVE inflight'[q].pc = "idle"
  BY <1>3 DEF Finish, Idle
<1>4. ASSUME NEW other \in Requests, Arrive(other) PROVE
           \/ inflight'[q].pc \notin {"transition.ready", "decide.loaded", "decide.ready"}
           \/ /\ \E a \in Actors, p \in ApprovalIds, approved \in BOOLEAN :
                    DecideApprovalLoad(q, a, p, approved)
              /\ inflight'[q].pc = "decide.loaded"
  <2>1. ASSUME NEW a \in Actors, NEW d \in Definitions, CreateWorkflow(other, a, d)
        PROVE  FALSE
    BY <2>1 DEF CreateWorkflow
  <2>2. ASSUME NEW a \in Actors, NEW r \in Records, CreateRecordLoad(other, a, r)
        PROVE  inflight'[q].pc = "create.ready"
    BY <1>1, <1>2, <2>2 DEF CreateRecordLoad, Proceed
  <2>3. ASSUME NEW a \in Actors, NEW r \in Records, NEW k \in Keys,
               TransitionRecordLoad(other, a, r, k)
        PROVE  inflight'[q].pc = "transition.loaded"
    BY <1>1, <1>2, <2>3 DEF TransitionRecordLoad, Proceed
  <2>4. ASSUME NEW a \in Actors, NEW p \in ApprovalIds, NEW approved \in BOOLEAN,
               DecideApprovalLoad(other, a, p, approved)
        PROVE  other = q /\ inflight'[q].pc = "decide.loaded"
    BY <1>1, <1>2, <2>4 DEF DecideApprovalLoad, Proceed
  <2>5. ASSUME NEW a \in Actors, NEW t \in TaskIds,
               NEW assignee \in Actors \cup {None}, NEW p \in ApprovalIds \cup {None},
               CreateTask(other, a, t, assignee, p)
        PROVE  FALSE
    BY <2>5 DEF CreateTask
  <2>6. ASSUME NEW a \in Actors, NEW t \in TaskIds, NEW status \in {"done", "cancelled"},
               CompleteTaskLoad(other, a, t, status)
        PROVE  inflight'[q].pc = "complete.ready"
    BY <1>1, <1>2, <2>6 DEF CompleteTaskLoad, Proceed
  <2>. QED
    BY <1>4, <2>1, <2>2, <2>3, <2>4, <2>5, <2>6 DEF Arrive
<1>5. ASSUME NEW other \in Requests, Continue(other) PROVE
           \/ inflight'[q].pc = "idle"
           \/ /\ TransitionRecordResolve(q)
              /\ inflight'[q].pc = "transition.ready"
           \/ /\ DecideApprovalAuthorize(q)
              /\ inflight'[q].pc = "decide.ready"
  <2>1. ASSUME TransitionRecordResolve(other) PROVE
           \/ inflight'[q].pc = "idle"
           \/ other = q /\ inflight'[q].pc = "transition.ready"
    BY <1>1, <1>2, <1>3, <2>1 DEF TransitionRecordResolve, Proceed, Finish
  <2>2. ASSUME DecideApprovalAuthorize(other) PROVE
           \/ inflight'[q].pc = "idle"
           \/ other = q /\ inflight'[q].pc = "decide.ready"
    BY <1>1, <1>2, <1>3, <2>2 DEF DecideApprovalAuthorize, Proceed, Finish
  <2>3. ASSUME Finish(other) PROVE inflight'[q].pc = "idle"
    BY <1>1, <1>3, <2>3 DEF Finish
  <2>. QED
    BY <1>5, <2>1, <2>2, <2>3
    DEF Continue, CreateRecordCommit, TransitionRecordRefuse, TransitionRecordMove,
        TransitionRecordRequest, DecideApprovalApprove, DecideApprovalReject,
        CompleteTaskCommit
<1>6. ASSUME NEW other \in Requests, Abandon(other) PROVE inflight'[q].pc = "idle"
  BY <1>1, <1>3, <1>6 DEF Abandon, Finish
<1>. QED
  BY <1>4, <1>5, <1>6 DEF Next, Rest, vars

(* A transition of the stored workflow is declared by a row of the log.    *)
LEMMA InstalledDeclares ==
    ASSUME WorkflowInstalled, TypeOK, workflow # None, NEW t \in workflow.transitions,
           NEW actor, Authorized(actor, "transition", GuardResource(t))
    PROVE  DeclaredByNow(t.from, t.to, t.gated, actor)
<1>1. workflow \in Definitions
  BY DEF TypeOK
<1>2. {t.from, t.to} \subseteq workflow.states
  BY DEF WorkflowInstalled, ValidWorkflow
<1>3. PICK i \in 1..Len(audit_logs) : /\ audit_logs[i].action = "workflow.create"
                                      /\ audit_logs[i].def = workflow
  BY DEF WorkflowInstalled
<1>4. i \in 1..((Len(audit_logs) + 1) - 1)
  BY <1>3 DEF TypeOK
<1>. QED
  BY <1>1, <1>2, <1>3, <1>4 DEF DeclaredByNow, DeclaredBefore

LEMMA DeclaredByNowStays ==
    ASSUME LogGrows, audit_logs \in Seq(AuditRow), audit_logs' \in Seq(AuditRow),
           NEW from, NEW to, NEW gated, NEW actor,
           DeclaredByNow(from, to, gated, actor)
    PROVE  DeclaredBefore(audit_logs', Len(audit_logs') + 1, from, to, gated, actor)
BY DeclaredStays DEF DeclaredByNow

LEMMA NextStepsDeclared ==
    ASSUME Consented, [Next]_vars
    PROVE  StepsDeclared'
<1>1. /\ LogGrows /\ WorkflowInstalled /\ StepsDeclared /\ WellFormed /\ TypeOK
      /\ audit_logs \in Seq(AuditRow) /\ audit_logs' \in Seq(AuditRow)
  BY NextGrows, NextTypeOK DEF Consented, WellFormed, TypeOK
<1>2. SUFFICES ASSUME NEW q \in Requests, inflight'[q].pc = "transition.ready"
               PROVE  DeclaredBefore(audit_logs', Len(audit_logs') + 1,
                          inflight'[q].step.from, inflight'[q].step.to,
                          inflight'[q].step.gated, inflight'[q].actor)
  BY DEF StepsDeclared, DeclaredByNow
<1>3. CASE inflight'[q] = inflight[q]
  BY <1>1, <1>2, <1>3, DeclaredByNowStays DEF StepsDeclared
<1>4. CASE inflight'[q] # inflight[q]
  <2>1. TransitionRecordResolve(q)
    BY <1>1, <1>2, <1>4, HandlerChanges
  <2>2. ~Finish(q)
    BY <1>1, <1>2 DEF Finish, Idle, TypeOK
  <2>3. PICK t \in TransitionsFrom(workflow, CurrentState(workflow, inflight[q].seen),
                                  inflight[q].key) :
           /\ Authorized(inflight[q].actor, "transition", GuardResource(t))
           /\ Proceed(q, [pc |-> "transition.ready", actor |-> inflight[q].actor,
                          record |-> inflight[q].record, step |-> t])
    BY <2>1, <2>2 DEF TransitionRecordResolve
  <2>4. inflight'[q].step = t /\ inflight'[q].actor = inflight[q].actor
    BY <1>1, <2>3 DEF Proceed, TypeOK
  <2>5. t \in workflow.transitions /\ workflow # None
    BY <2>1, <2>3 DEF TransitionsFrom, TransitionRecordResolve
  <2>. QED
    BY <1>1, <2>3, <2>4, <2>5, InstalledDeclares, DeclaredByNowStays
<1>. QED
  BY <1>3, <1>4

(* A new approval was asked for by a resolved, gated transition.           *)
LEMMA NewApprovalDeclared ==
    ASSUME Consented, [Next]_vars, NEW p \in ApprovalIds,
           approvals[p].status = "absent", approvals'[p].status # "absent"
    PROVE  DeclaredByNow(approvals'[p].from, approvals'[p].target, TRUE,
                         approvals'[p].requested_by)
<1>. WellFormed /\ TypeOK /\ StepsDeclared
  BY DEF Consented, WellFormed
<1>1. PICK q \in Requests : TransitionRecordRequest(q)
  BY NewApprovalByRequest
<1> DEFINE local == inflight[q]
<1>2. approvals'[p] = [status |-> "pending", requested_by |-> local.actor,
                       record |-> local.record, from |-> local.step.from,
                       target |-> local.step.to, decided_by |-> None]
  BY <1>1 DEF TypeOK, TransitionRecordRequest
<1>3. local.step.gated = TRUE /\ local.pc = "transition.ready"
  BY <1>1, LocalOfPc DEF TypeOK, TransitionRecordRequest, TransitionReady, Transition
<1>4. DeclaredByNow(local.step.from, local.step.to, TRUE, local.actor)
  BY <1>3 DEF StepsDeclared
<1>5. /\ approvals'[p].from = local.step.from
      /\ approvals'[p].target = local.step.to
      /\ approvals'[p].requested_by = local.actor
  BY <1>2
<1>. QED
  BY <1>4, <1>5

LEMMA NextApprovalsDeclared ==
    ASSUME Consented, [Next]_vars
    PROVE  ApprovalsDeclared'
<1>1. /\ LogGrows /\ ApprovalsStay /\ ApprovalsDeclared /\ WellFormed
      /\ audit_logs \in Seq(AuditRow) /\ audit_logs' \in Seq(AuditRow)
  BY NextGrows, NextKeepsApprovals, NextTypeOK DEF Consented, WellFormed, TypeOK
<1>2. SUFFICES ASSUME NEW p \in ApprovalIds, approvals'[p].status # "absent"
               PROVE  DeclaredBefore(audit_logs', Len(audit_logs') + 1,
                          approvals'[p].from, approvals'[p].target, TRUE,
                          approvals'[p].requested_by)
  BY DEF ApprovalsDeclared, DeclaredByNow
<1>3. DeclaredByNow(approvals'[p].from, approvals'[p].target, TRUE,
                    approvals'[p].requested_by)
  BY <1>1, <1>2, NewApprovalDeclared DEF ApprovalsDeclared, ApprovalsStay
<1>. QED
  BY <1>1, <1>3, DeclaredByNowStays

LEMMA NextDecidersChecked ==
    ASSUME Consented, [Next]_vars
    PROVE  DecidersChecked'
<1>1. ApprovalsStay /\ WellFormed /\ TypeOK /\ HandlersHoldRows /\ DecidersChecked
  BY NextKeepsApprovals DEF Consented, WellFormed
<1>2. SUFFICES ASSUME NEW q \in Requests
               PROVE  /\ inflight'[q].pc \in {"decide.loaded", "decide.ready"} =>
                            MayDecideFor(inflight'[q].actor,
                                approvals'[inflight'[q].approval].requested_by)
                      /\ inflight'[q].pc = "decide.ready" =>
                            Authorized(inflight'[q].actor, "approve", ObjectResource)
  BY DEF DecidersChecked
<1>3. ASSUME inflight[q].pc \in {"decide.loaded", "decide.ready"}
      PROVE  approvals'[inflight[q].approval].requested_by
               = approvals[inflight[q].approval].requested_by
  <2>1. inflight[q].approval \in ApprovalIds
    BY <1>1, <1>3, LocalOfPc DEF TypeOK, DecideLoaded, DecideReady
  <2>. QED
    BY <1>1, <1>3, <2>1 DEF HandlersHoldRows, ApprovalsStay
<1>4. CASE inflight'[q] = inflight[q]
  BY <1>1, <1>3, <1>4 DEF DecidersChecked
<1>5. ASSUME inflight'[q] # inflight[q], NEW a \in Actors, NEW p \in ApprovalIds,
             NEW approved \in BOOLEAN, DecideApprovalLoad(q, a, p, approved),
             inflight'[q].pc = "decide.loaded"
      PROVE  MayDecideFor(inflight'[q].actor,
                          approvals'[inflight'[q].approval].requested_by)
  <2>1. /\ MayDecideFor(a, approvals[p].requested_by)
        /\ inflight'[q] = [pc |-> "decide.loaded", actor |-> a, approval |-> p,
                           approved |-> approved]
    BY <1>1, <1>5 DEF TypeOK, DecideApprovalLoad, Proceed
  <2>2. approvals' = approvals
    BY <1>5 DEF DecideApprovalLoad
  <2>. QED
    BY <2>1, <2>2
<1>6. ASSUME inflight'[q] # inflight[q], DecideApprovalAuthorize(q),
             inflight'[q].pc = "decide.ready"
      PROVE  /\ MayDecideFor(inflight'[q].actor,
                             approvals'[inflight'[q].approval].requested_by)
             /\ Authorized(inflight'[q].actor, "approve", ObjectResource)
  <2>1. ~Finish(q)
    BY <1>1, <1>6 DEF Finish, Idle, TypeOK
  <2>2. /\ Authorized(inflight[q].actor, "approve", ObjectResource)
        /\ inflight'[q].actor = inflight[q].actor
        /\ inflight'[q].approval = inflight[q].approval
    BY <1>1, <1>6, <2>1 DEF TypeOK, DecideApprovalAuthorize, Proceed
  <2>3. inflight[q].pc = "decide.loaded"
    BY <1>6 DEF DecideApprovalAuthorize
  <2>. QED
    BY <1>1, <1>3, <2>2, <2>3 DEF DecidersChecked
<1>. QED
  BY <1>1, <1>4, <1>5, <1>6, HandlerChanges

(***************************************************************************)
(* Rows written earlier keep their authority: the approval they name keeps *)
(* its columns and stays decided.                                          *)
(***************************************************************************)
LEMMA OldMovesStay ==
    ASSUME Consented, [Next]_vars, NEW i \in 1..Len(audit_logs)
    PROVE  MoveAuthorised(audit_logs', approvals', i)
<1>1. /\ LogGrows /\ ApprovalsStay /\ EveryMoveAuthorised
      /\ audit_logs \in Seq(AuditRow) /\ audit_logs' \in Seq(AuditRow)
  BY NextGrows, NextKeepsApprovals, NextTypeOK DEF Consented, WellFormed, TypeOK
<1>2. audit_logs'[i] = audit_logs[i] /\ audit_logs[i] \in AuditRow
  BY <1>1 DEF LogGrows
<1>3. MoveAuthorised(audit_logs, approvals, i)
  BY <1>1 DEF EveryMoveAuthorised
<1>4. i \in 1..(Len(audit_logs) + 1)
  BY <1>1
<1> DEFINE row == audit_logs[i]
<1>5. CASE row.action # "workflow.transition"
  BY <1>2, <1>5 DEF MoveAuthorised
<1>6. CASE row.action = "workflow.transition" /\ row.approval = None
  <2>1. DeclaredBefore(audit_logs, i, row.before, row.after, FALSE, row.actor)
    BY <1>3, <1>6 DEF MoveAuthorised
  <2>2. DeclaredBefore(audit_logs', i, row.before, row.after, FALSE, row.actor)
    BY <1>1, <1>4, <2>1, DeclaredStays
  <2>. QED
    BY <1>2, <1>6, <2>2 DEF MoveAuthorised
<1>7. CASE row.action = "workflow.transition" /\ row.approval # None
  <2> DEFINE approval == approvals[row.approval]
  <2>1. row.approval \in ApprovalIds
    BY <1>2, <1>7 DEF AuditRow
  <2>2. /\ approval.status \in Decided
        /\ approval.record = row.target
        /\ approval.target = row.after
        /\ DeclaredBefore(audit_logs, i, approval.from, approval.target, TRUE,
                          approval.requested_by)
        /\ Authorized(row.actor, "approve", ObjectResource)
        /\ MayDecideFor(row.actor, approval.requested_by)
    BY <1>3, <1>7 DEF MoveAuthorised
  <2>3. /\ approvals'[row.approval].status \in Decided
        /\ approvals'[row.approval].record = approval.record
        /\ approvals'[row.approval].from = approval.from
        /\ approvals'[row.approval].target = approval.target
        /\ approvals'[row.approval].requested_by = approval.requested_by
    BY <1>1, <2>1, <2>2 DEF ApprovalsStay, Decided
  <2>4. DeclaredBefore(audit_logs', i, approval.from, approval.target, TRUE,
                       approval.requested_by)
    BY <1>1, <1>4, <2>2, DeclaredStays
  <2>. QED
    BY <1>2, <1>7, <2>2, <2>3, <2>4 DEF MoveAuthorised
<1>. QED
  BY <1>5, <1>6, <1>7

(* A direct move carries the declaration its handler resolved.             *)
LEMMA DirectMoveAuthorised ==
    ASSUME Consented, [Next]_vars, NEW q \in Requests, TransitionRecordMove(q)
    PROVE  /\ Len(audit_logs') = Len(audit_logs) + 1
           /\ MoveAuthorised(audit_logs', approvals', Len(audit_logs) + 1)
<1>1. /\ LogGrows /\ StepsDeclared /\ TypeOK
      /\ audit_logs \in Seq(AuditRow) /\ audit_logs' \in Seq(AuditRow)
  BY NextGrows, NextTypeOK DEF Consented, WellFormed, TypeOK
<1> DEFINE local == inflight[q]
           n == Len(audit_logs) + 1
           row == Row("workflow.transition", local.actor, local.record,
                      local.step.from, local.step.to, None)
<1>2. Len(audit_logs') = n /\ audit_logs'[n] = row
  BY <1>1, AuditGrows DEF TransitionRecordMove, Audit
<1>3. local.pc = "transition.ready" /\ local.step.gated = FALSE
  BY <1>1, LocalOfPc DEF TypeOK, TransitionRecordMove, TransitionReady, Transition
<1>4. n \in 1..(Len(audit_logs) + 1)
  BY <1>1
<1>5. DeclaredBefore(audit_logs, n, local.step.from, local.step.to, FALSE, local.actor)
  BY <1>1, <1>3 DEF StepsDeclared, DeclaredByNow
<1>6. DeclaredBefore(audit_logs', n, local.step.from, local.step.to, FALSE, local.actor)
  BY <1>1, <1>4, <1>5, DeclaredStays
<1>7. /\ row.approval = None
      /\ row.before = local.step.from
      /\ row.after = local.step.to
      /\ row.actor = local.actor
  BY DEF Row
<1> HIDE DEF row
<1>. QED
  BY <1>2, <1>6, <1>7 DEF MoveAuthorised

(* A move by approval carries the approval and its decider's checks.       *)
LEMMA ApprovedMoveAuthorised ==
    ASSUME Consented, [Next]_vars, NEW q \in Requests, DecideApprovalApprove(q)
    PROVE  /\ Len(audit_logs') = Len(audit_logs) + 1
           /\ MoveAuthorised(audit_logs', approvals', Len(audit_logs) + 1)
<1>1. /\ LogGrows /\ ApprovalsStay /\ ApprovalsDeclared /\ DecidersChecked
      /\ HandlersHoldRows /\ TypeOK
      /\ audit_logs \in Seq(AuditRow) /\ audit_logs' \in Seq(AuditRow)
  BY NextGrows, NextKeepsApprovals, NextTypeOK DEF Consented, WellFormed, TypeOK
<1> DEFINE local == inflight[q]
           p == local.approval
           approval == approvals[p]
           n == Len(audit_logs) + 1
           row == Row("workflow.transition", local.actor, approval.record,
                      local.before, approval.target, p)
<1>2. local \in DecideReady /\ local.pc = "decide.ready"
  BY <1>1, LocalOfPc DEF TypeOK, DecideApprovalApprove
<1>3. p \in ApprovalIds /\ approval.status # "absent"
  BY <1>1, <1>2 DEF DecideReady, HandlersHoldRows
<1>4. Len(audit_logs') = n /\ audit_logs'[n] = row
  BY <1>1, AuditGrows DEF DecideApprovalApprove, Audit
<1>5. /\ approvals'[p].status = "approved"
      /\ approvals'[p].record = approval.record
      /\ approvals'[p].from = approval.from
      /\ approvals'[p].target = approval.target
      /\ approvals'[p].requested_by = approval.requested_by
  BY <1>1, <1>3 DEF TypeOK, Approval, DecideApprovalApprove, SetDecision
<1>6. n \in 1..(Len(audit_logs) + 1)
  BY <1>1
<1>7. DeclaredBefore(audit_logs, n, approval.from, approval.target, TRUE,
                     approval.requested_by)
  BY <1>1, <1>3 DEF ApprovalsDeclared, DeclaredByNow
<1>8. DeclaredBefore(audit_logs', n, approval.from, approval.target, TRUE,
                     approval.requested_by)
  BY <1>1, <1>6, <1>7, DeclaredStays
<1>9. /\ MayDecideFor(local.actor, approval.requested_by)
      /\ Authorized(local.actor, "approve", ObjectResource)
  BY <1>1, <1>2 DEF DecidersChecked
<1>10. /\ row.approval = p
       /\ row.target = approval.record
       /\ row.after = approval.target
       /\ row.actor = local.actor
  BY DEF Row
<1>11. p # None
  BY <1>3, ConstantsAssumption
<1> HIDE DEF row
<1>. QED
  BY <1>4, <1>5, <1>8, <1>9, <1>10, <1>11 DEF MoveAuthorised, Decided

LEMMA NextEveryMoveAuthorised ==
    ASSUME Consented, [Next]_vars
    PROVE  EveryMoveAuthorised'
<1>1. /\ WellFormed /\ LogGrows
      /\ audit_logs \in Seq(AuditRow) /\ audit_logs' \in Seq(AuditRow)
  BY NextGrows, NextTypeOK DEF Consented, WellFormed, TypeOK
<1>2. SUFFICES ASSUME NEW i \in (Len(audit_logs) + 1)..Len(audit_logs')
               PROVE  MoveAuthorised(audit_logs', approvals', i)
  <2>1. \A i \in DOMAIN audit_logs' : \/ i \in 1..Len(audit_logs)
                                      \/ i \in (Len(audit_logs) + 1)..Len(audit_logs')
    BY <1>1
  <2>2. \A i \in DOMAIN audit_logs' : MoveAuthorised(audit_logs', approvals', i)
    BY <1>2, <2>1, OldMovesStay
  <2>. QED
    BY <2>2 DEF EveryMoveAuthorised
<1>3. CASE AddsNoMove
  BY <1>2, <1>3 DEF AddsNoMove, MoveAuthorised
<1>4. CASE \E q \in Requests : TransitionRecordMove(q)
  BY <1>1, <1>2, <1>4, DirectMoveAuthorised
<1>5. CASE \E q \in Requests : DecideApprovalApprove(q)
  BY <1>1, <1>2, <1>5, ApprovedMoveAuthorised
<1>6. CASE UNCHANGED audit_logs
  BY <1>1, <1>3, <1>6, NoAuditAddsNoMove
<1>. QED
  BY <1>1, <1>3, <1>4, <1>5, <1>6, ArriveAddsNoMove, ContinueAddsNoMove
  DEF Next, Abandon, Rest, vars, tables

LEMMA ConsentedInductive ==
    /\ Init => Consented
    /\ Consented /\ [Next]_vars => Consented'
<1>1. ASSUME Init PROVE Consented
  <2>1. /\ WorkflowInstalled /\ StepsDeclared /\ ApprovalsDeclared /\ DecidersChecked
    BY <1>1 DEF Init, WorkflowInstalled, StepsDeclared, ApprovalsDeclared,
       DecidersChecked, NoApproval, Idle
  <2>2. EveryMoveAuthorised
    BY <1>1 DEF Init, EveryMoveAuthorised
  <2>. QED
    BY <1>1, <2>1, <2>2, WellFormedInductive DEF Consented
<1>2. ASSUME Consented, [Next]_vars PROVE Consented'
  <2>1. WellFormed'
    BY <1>2, WellFormedInductive DEF Consented
  <2>. QED
    BY <1>2, <2>1, NextWorkflowInstalled, NextStepsDeclared, NextApprovalsDeclared,
       NextDecidersChecked, NextEveryMoveAuthorised
    DEF Consented
<1>. QED
  BY <1>1, <1>2

(***************************************************************************)
(* No interleaving of handlers, and no redefinition of the workflow while  *)
(* handlers run, moves a record without the consent the move needs: a      *)
(* declared transition and its guard, or an approval that was asked for    *)
(* under such a guard and decided by someone entitled to.                  *)
(***************************************************************************)
THEOREM MovesHaveConsent == Spec => []EveryMoveAuthorised
<1>1. Consented => EveryMoveAuthorised
  BY DEF Consented
<1>. QED
  BY <1>1, ConsentedInductive, PTL DEF Spec

-----------------------------------------------------------------------------
(***************************************************************************)
(* What the tables of the workflow engine say of each other: the audit log *)
(* and the event outbox tell the state of each record and the verdict of   *)
(* each approval, and each approval has its one task.  The proofs rest on  *)
(* Consented, the inductive invariant so far.                              *)
(***************************************************************************)

(***************************************************************************)
(* TrailsAgree and LastDecisionStands for one record and one approval, as  *)
(* relations between the rows: what a step does to one of them is then a   *)
(* fact about sequences.                                                   *)
(***************************************************************************)
InitialIn(log, state) ==
    \E j \in 1..Len(log) :
        log[j].action = "workflow.create" /\ log[j].def.initial = state

LastSetter(log, i, r) ==
    SetsState(log[i], r) /\ \A j \in DOMAIN log : j > i => ~SetsState(log[j], r)

LastAnnouncer(evs, n, r) ==
    Announces(evs[n], r) /\ \A m \in DOMAIN evs : m > n => ~Announces(evs[m], r)

Created(log, i, state) ==
    \/ state = None
    \/ \E j \in 1..(i - 1) :
          log[j].action = "workflow.create" /\ log[j].def.initial = state

Announced(row, evs, r, state) ==
    /\ row.after = state
    /\ \E n \in DOMAIN evs : /\ LastAnnouncer(evs, n, r)
                             /\ evs[n].to = state
                             /\ evs[n].approval = row.approval

Trail(log, evs, r, state) ==
    IF state = NoRecord
    THEN \A i \in DOMAIN log : ~SetsState(log[i], r)
    ELSE \E i \in DOMAIN log :
           /\ LastSetter(log, i, r)
           /\ IF log[i].action = "record.create"
              THEN Created(log, i, state)
              ELSE Announced(log[i], evs, r, state)

Verdict(log, p, approval) ==
    IF approval.status \in Decided
    THEN \E i \in DOMAIN log :
           /\ Decides(log[i], p)
           /\ \A j \in DOMAIN log : j > i => ~Decides(log[j], p)
           /\ approval.decided_by = log[i].actor
           /\ approval.status = IF log[i].action = "approval.reject"
                                THEN "rejected" ELSE "approved"
    ELSE /\ approval.decided_by = None
         /\ \A i \in DOMAIN log : ~Decides(log[i], p)

LEMMA TrailSays ==
    (\A r \in Records : Trail(audit_logs, events, r, records[r])) => TrailsAgree
<1>. SUFFICES ASSUME \A r \in Records : Trail(audit_logs, events, r, records[r]),
                     NEW r \in Records
              PROVE  IF records[r] = NoRecord
                     THEN \A i \in DOMAIN audit_logs : ~SetsState(audit_logs[i], r)
                     ELSE \E i \in DOMAIN audit_logs :
                            /\ LastSetsState(i, r)
                            /\ IF audit_logs[i].action = "record.create"
                               THEN records[r] \in {None} \cup InitialStatesBefore(i)
                               ELSE /\ audit_logs[i].after = records[r]
                                    /\ \E n \in DOMAIN events :
                                          /\ LastAnnounces(n, r)
                                          /\ events[n].to = records[r]
                                          /\ events[n].approval = audit_logs[i].approval
  BY DEF TrailsAgree
<1>1. Trail(audit_logs, events, r, records[r])
  OBVIOUS
<1>2. CASE records[r] = NoRecord
  BY <1>1, <1>2 DEF Trail
<1>3. CASE records[r] # NoRecord
  <2>1. PICK i \in DOMAIN audit_logs :
           /\ LastSetter(audit_logs, i, r)
           /\ IF audit_logs[i].action = "record.create"
              THEN Created(audit_logs, i, records[r])
              ELSE Announced(audit_logs[i], events, r, records[r])
    BY <1>1, <1>3 DEF Trail
  <2>2. LastSetsState(i, r)
    BY <2>1 DEF LastSetter, LastSetsState
  <2>3. Created(audit_logs, i, records[r]) => records[r] \in {None} \cup InitialStatesBefore(i)
    BY DEF Created, InitialStatesBefore
  <2>4. Announced(audit_logs[i], events, r, records[r]) =>
           /\ audit_logs[i].after = records[r]
           /\ \E n \in DOMAIN events : /\ LastAnnounces(n, r)
                                       /\ events[n].to = records[r]
                                       /\ events[n].approval = audit_logs[i].approval
    BY DEF Announced, LastAnnouncer, LastAnnounces
  <2>. QED
    BY <1>3, <2>1, <2>2, <2>3, <2>4
<1>. QED
  BY <1>2, <1>3

LEMMA VerdictSays ==
    (\A p \in ApprovalIds : Verdict(audit_logs, p, approvals[p])) => LastDecisionStands
BY DEF Verdict, LastDecisionStands, LastDecides

-----------------------------------------------------------------------------
(* A sequence that grows at its end.                                       *)
Grown(old, new) ==
    /\ Len(old) <= Len(new)
    /\ \A i \in 1..Len(old) : new[i] = old[i]

LEMMA AppendGrows ==
    ASSUME NEW S, NEW old \in Seq(S), NEW row, row \in S
    PROVE  /\ Grown(old, Append(old, row))
           /\ Len(Append(old, row)) = Len(old) + 1
           /\ Append(old, row)[Len(old) + 1] = row
           /\ Append(old, row) \in Seq(S)
BY DEF Grown

(* Rows that do not concern a record leave its trail as it was.            *)
LEMMA TrailStays ==
    ASSUME NEW S, NEW T, NEW log \in Seq(S), NEW log2 \in Seq(S),
           NEW evs \in Seq(T), NEW evs2 \in Seq(T), NEW r, NEW state,
           Grown(log, log2), Grown(evs, evs2),
           \A i \in (Len(log) + 1)..Len(log2) : ~SetsState(log2[i], r),
           \A n \in (Len(evs) + 1)..Len(evs2) : ~Announces(evs2[n], r),
           Trail(log, evs, r, state)
    PROVE  Trail(log2, evs2, r, state)
<1>1. \A i \in DOMAIN log2 : i \in DOMAIN log \/ ~SetsState(log2[i], r)
  OBVIOUS
<1>2. \A n \in DOMAIN evs2 : n \in DOMAIN evs \/ ~Announces(evs2[n], r)
  OBVIOUS
<1>3. \A i \in DOMAIN log : i \in DOMAIN log2 /\ log2[i] = log[i] /\ i \in Nat
  BY DEF Grown
<1>4. \A n \in DOMAIN evs : n \in DOMAIN evs2 /\ evs2[n] = evs[n] /\ n \in Nat
  BY DEF Grown
<1>5. CASE state = NoRecord
  BY <1>1, <1>3, <1>5 DEF Trail
<1>6. CASE state # NoRecord
  <2>1. PICK i \in DOMAIN log :
           /\ LastSetter(log, i, r)
           /\ IF log[i].action = "record.create"
              THEN Created(log, i, state)
              ELSE Announced(log[i], evs, r, state)
    BY <1>6 DEF Trail
  <2>2. LastSetter(log2, i, r)
    BY <1>1, <1>3, <2>1 DEF LastSetter
  <2>3. Created(log, i, state) => Created(log2, i, state)
    <3>1. \A j \in 1..(i - 1) : j \in DOMAIN log
      OBVIOUS
    <3>. QED
      BY <1>3, <3>1 DEF Created
  <2>4. Announced(log[i], evs, r, state) => Announced(log2[i], evs2, r, state)
    BY <1>2, <1>3, <1>4 DEF Announced, LastAnnouncer
  <2>. QED
    BY <1>3, <1>6, <2>1, <2>2, <2>3, <2>4 DEF Trail
<1>. QED
  BY <1>5, <1>6

(* A record's new row is the last one of its trail.                        *)
LEMMA TrailCreated ==
    ASSUME NEW S, NEW T, NEW log \in Seq(S), NEW row \in S, NEW evs \in Seq(T),
           NEW r, NEW state, state # NoRecord,
           row.action = "record.create", row.target = r,
           state = None \/ InitialIn(log, state)
    PROVE  Trail(Append(log, row), evs, r, state)
<1> DEFINE log2 == Append(log, row)
           i == Len(log) + 1
<1>1. i \in DOMAIN log2 /\ log2[i] = row /\ \A j \in DOMAIN log2 : ~(j > i)
  OBVIOUS
<1>2. \A j \in 1..(i - 1) : log2[j] = log[j]
  OBVIOUS
<1>3. 1..(i - 1) = 1..Len(log)
  OBVIOUS
<1> HIDE DEF log2, i
<1>4. LastSetter(log2, i, r)
  BY <1>1 DEF LastSetter, SetsState
<1>5. Created(log2, i, state)
  BY <1>2, <1>3 DEF Created, InitialIn
<1>6. Trail(log2, evs, r, state)
  BY <1>1, <1>4, <1>5 DEF Trail
<1>. QED
  BY <1>6 DEF log2

LEMMA TrailMoved ==
    ASSUME NEW S, NEW T, NEW log \in Seq(S), NEW row \in S,
           NEW evs \in Seq(T), NEW event \in T, NEW r, NEW state, state # NoRecord,
           row.action = "workflow.transition", row.target = r, row.after = state,
           event.kind = "workflow.transitioned", event.record = r, event.to = state,
           event.approval = row.approval
    PROVE  Trail(Append(log, row), Append(evs, event), r, state)
<1> DEFINE log2 == Append(log, row)
           i == Len(log) + 1
           evs2 == Append(evs, event)
           n == Len(evs) + 1
<1>1. i \in DOMAIN log2 /\ log2[i] = row /\ \A j \in DOMAIN log2 : ~(j > i)
  OBVIOUS
<1>2. n \in DOMAIN evs2 /\ evs2[n] = event /\ \A m \in DOMAIN evs2 : ~(m > n)
  OBVIOUS
<1> HIDE DEF log2, i, evs2, n
<1>3. LastSetter(log2, i, r)
  BY <1>1 DEF LastSetter, SetsState
<1>4. LastAnnouncer(evs2, n, r)
  BY <1>2 DEF LastAnnouncer, Announces
<1>5. Announced(row, evs2, r, state)
  BY <1>2, <1>4 DEF Announced
<1>6. Trail(log2, evs2, r, state)
  BY <1>1, <1>3, <1>5 DEF Trail
<1>. QED
  BY <1>6 DEF log2, evs2

(* Rows that do not decide an approval leave its verdict as it was ...     *)
LEMMA VerdictStays ==
    ASSUME NEW S, NEW log \in Seq(S), NEW log2 \in Seq(S), NEW p, NEW approval,
           Grown(log, log2),
           \A i \in (Len(log) + 1)..Len(log2) : ~Decides(log2[i], p),
           Verdict(log, p, approval)
    PROVE  Verdict(log2, p, approval)
<1>1. \A i \in DOMAIN log2 : i \in DOMAIN log \/ ~Decides(log2[i], p)
  OBVIOUS
<1>2. \A i \in DOMAIN log : i \in DOMAIN log2 /\ log2[i] = log[i] /\ i \in Nat
  BY DEF Grown
<1>. QED
  BY <1>1, <1>2 DEF Verdict

(* ... and a row that does is the last that does.                          *)
LEMMA VerdictGiven ==
    ASSUME NEW S, NEW log \in Seq(S), NEW row \in S, NEW p, NEW approval,
           Decides(row, p), approval.decided_by = row.actor,
           approval.status = IF row.action = "approval.reject"
                             THEN "rejected" ELSE "approved"
    PROVE  Verdict(Append(log, row), p, approval)
<1> DEFINE log2 == Append(log, row)
           i == Len(log) + 1
<1>1. i \in DOMAIN log2 /\ log2[i] = row /\ \A j \in DOMAIN log2 : ~(j > i)
  OBVIOUS
<1> HIDE DEF log2, i
<1>2. approval.status \in Decided
  BY DEF Decided
<1>3. Verdict(log2, p, approval)
  BY <1>1, <1>2 DEF Verdict
<1>. QED
  BY <1>3 DEF log2

-----------------------------------------------------------------------------
(***************************************************************************)
(* Five commits write what the trails are about.  Every other step leaves  *)
(* records, approvals and events alone and adds at most a row that neither *)
(* sets a state nor decides an approval.                                   *)
(***************************************************************************)
TrailActions == {"record.create", "workflow.transition", "approval.reject"}

AddsNoTrail ==
    /\ Grown(audit_logs, audit_logs')
    /\ \A i \in (Len(audit_logs) + 1)..Len(audit_logs') :
          audit_logs'[i].action \notin TrailActions

Quiet == UNCHANGED <<records, approvals, events>> /\ AddsNoTrail

LEMMA AuditAddsNoTrail ==
    ASSUME TypeOK, NEW row, row.action \notin TrailActions,
           audit_logs' = Append(audit_logs, row)
    PROVE  AddsNoTrail
<1>1. /\ Len(audit_logs') = Len(audit_logs) + 1
      /\ audit_logs'[Len(audit_logs) + 1] = row
      /\ \A i \in 1..Len(audit_logs) : audit_logs'[i] = audit_logs[i]
      /\ Len(audit_logs) \in Nat
  BY DEF TypeOK
<1>. QED
  BY <1>1 DEF AddsNoTrail, Grown

LEMMA NoAuditAddsNoTrail ==
    ASSUME TypeOK, UNCHANGED audit_logs
    PROVE  AddsNoTrail
BY DEF TypeOK, AddsNoTrail, Grown

LEMMA AuditDenialAddsNoTrail ==
    ASSUME TypeOK, NEW a, NEW target, NEW p, AuditDenial(a, target, p)
    PROVE  AddsNoTrail
<1>1. Row("permission.denied", a, target, None, None, p).action \notin TrailActions
  BY DEF Row, TrailActions
<1>. QED
  BY <1>1, AuditAddsNoTrail, NoAuditAddsNoTrail DEF AuditDenial, Audit

LEMMA ArriveIsQuiet ==
    ASSUME TypeOK, NEW q \in Requests, Arrive(q)
    PROVE  Quiet
<1>1. ASSUME NEW a \in Actors, NEW d \in Definitions, CreateWorkflow(q, a, d)
      PROVE  Quiet
  <2>1. [Row("workflow.create", a, None, None, None, None) EXCEPT !.def = d].action
          \notin TrailActions
    BY DEF Row, TrailActions
  <2>. QED
    BY <1>1, <2>1, AuditAddsNoTrail, AuditDenialAddsNoTrail
    DEF CreateWorkflow, Audit, Quiet
<1>2. ASSUME NEW a \in Actors, NEW r \in Records, CreateRecordLoad(q, a, r)
      PROVE  Quiet
  BY <1>2, NoAuditAddsNoTrail, AuditDenialAddsNoTrail DEF CreateRecordLoad, Quiet
<1>3. ASSUME NEW a \in Actors, NEW r \in Records, NEW k \in Keys,
             TransitionRecordLoad(q, a, r, k)
      PROVE  Quiet
  BY <1>3, NoAuditAddsNoTrail DEF TransitionRecordLoad, tables, Quiet
<1>4. ASSUME NEW a \in Actors, NEW p \in ApprovalIds, NEW approved \in BOOLEAN,
             DecideApprovalLoad(q, a, p, approved)
      PROVE  Quiet
  BY <1>4, NoAuditAddsNoTrail, AuditDenialAddsNoTrail DEF DecideApprovalLoad, Quiet
<1>5. ASSUME NEW a \in Actors, NEW t \in TaskIds, NEW assignee \in Actors \cup {None},
             NEW p \in ApprovalIds \cup {None}, CreateTask(q, a, t, assignee, p)
      PROVE  Quiet
  <2>1. Row("task.create", a, t, None, "open", None).action \notin TrailActions
    BY DEF Row, TrailActions
  <2>. QED
    BY <1>5, <2>1, AuditAddsNoTrail, AuditDenialAddsNoTrail DEF CreateTask, Audit, Quiet
<1>6. ASSUME NEW a \in Actors, NEW t \in TaskIds, NEW status \in {"done", "cancelled"},
             CompleteTaskLoad(q, a, t, status)
      PROVE  Quiet
  BY <1>6, NoAuditAddsNoTrail, AuditDenialAddsNoTrail DEF CompleteTaskLoad, Quiet
<1>. QED
  BY <1>1, <1>2, <1>3, <1>4, <1>5, <1>6 DEF Arrive

LEMMA StepKinds ==
    ASSUME TypeOK, [Next]_vars
    PROVE  \/ Quiet
           \/ \E q \in Requests : \/ CreateRecordCommit(q)
                                  \/ TransitionRecordMove(q)
                                  \/ TransitionRecordRequest(q)
                                  \/ DecideApprovalApprove(q)
                                  \/ DecideApprovalReject(q)
<1>1. CASE UNCHANGED vars
  BY <1>1, NoAuditAddsNoTrail DEF vars, Quiet
<1>2. ASSUME NEW q \in Requests, TransitionRecordResolve(q) PROVE Quiet
  BY <1>2, NoAuditAddsNoTrail, AuditDenialAddsNoTrail DEF TransitionRecordResolve, Quiet
<1>3. ASSUME NEW q \in Requests, TransitionRecordRefuse(q) \/ Abandon(q) PROVE Quiet
  BY <1>3, NoAuditAddsNoTrail DEF TransitionRecordRefuse, Abandon, tables, Quiet
<1>4. ASSUME NEW q \in Requests, DecideApprovalAuthorize(q) PROVE Quiet
  BY <1>4, NoAuditAddsNoTrail, AuditDenialAddsNoTrail DEF DecideApprovalAuthorize, Quiet
<1>5. ASSUME NEW q \in Requests, CompleteTaskCommit(q) PROVE Quiet
  <2>1. Row("task.update", inflight[q].actor, inflight[q].task, "open",
            inflight[q].status, None).action \notin TrailActions
    BY DEF Row, TrailActions
  <2>. QED
    BY <1>5, <2>1, AuditAddsNoTrail DEF CompleteTaskCommit, Audit, Quiet
<1>. QED
  BY <1>1, <1>2, <1>3, <1>4, <1>5, ArriveIsQuiet DEF Next, Continue, Rest

-----------------------------------------------------------------------------
(***************************************************************************)
(* What two kinds of handler carry towards their commit: the initial state *)
(* a create has read is one of a definition in the log, and the task a     *)
(* completion has read is stored.                                          *)
(***************************************************************************)
CreatesKnown ==
    \A q \in Requests : inflight[q].pc = "create.ready" =>
        \/ inflight[q].initial = None
        \/ InitialIn(audit_logs, inflight[q].initial)

CompletesHoldTasks ==
    \A q \in Requests : inflight[q].pc = "complete.ready" =>
        tasks[inflight[q].task].status # "absent"

LEMMA HandlerBegins ==
    ASSUME WellFormed, [Next]_vars, NEW q \in Requests, inflight'[q] # inflight[q],
           inflight'[q].pc \in {"create.ready", "complete.ready"}
    PROVE  \/ /\ \E a \in Actors, r \in Records : CreateRecordLoad(q, a, r)
              /\ inflight'[q].pc = "create.ready"
           \/ /\ \E a \in Actors, t \in TaskIds, status \in {"done", "cancelled"} :
                    CompleteTaskLoad(q, a, t, status)
              /\ inflight'[q].pc = "complete.ready"
<1>. inflight \in [Requests -> Local]
  BY DEF WellFormed, TypeOK
<1>1. ASSUME NEW other \in Requests, NEW local, other # q,
             inflight' = [inflight EXCEPT ![other] = local]
      PROVE  FALSE
  BY <1>1
<1>2. ASSUME NEW local, inflight' = [inflight EXCEPT ![q] = local]
      PROVE  local.pc \in {"create.ready", "complete.ready"} /\ inflight'[q] = local
  BY <1>2
<1>3. ASSUME NEW other \in Requests, Finish(other) PROVE FALSE
  <2>1. Idle.pc = "idle"
    BY DEF Idle
  <2>. QED
    BY <1>1, <1>2, <1>3, <2>1 DEF Finish
<1>4. ASSUME NEW other \in Requests, Continue(other) PROVE FALSE
  <2>1. ASSUME TransitionRecordResolve(other) PROVE FALSE
    BY <1>1, <1>2, <1>3, <2>1 DEF TransitionRecordResolve, Proceed
  <2>2. ASSUME DecideApprovalAuthorize(other) PROVE FALSE
    BY <1>1, <1>2, <1>3, <2>2 DEF DecideApprovalAuthorize, Proceed
  <2>. QED
    BY <1>3, <1>4, <2>1, <2>2
    DEF Continue, CreateRecordCommit, TransitionRecordRefuse, TransitionRecordMove,
        TransitionRecordRequest, DecideApprovalApprove, DecideApprovalReject,
        CompleteTaskCommit
<1>5. PICK other \in Requests : Arrive(other)
  BY <1>3, <1>4 DEF Next, Rest, Abandon, vars
<1>6. ASSUME NEW a \in Actors, NEW d \in Definitions, CreateWorkflow(other, a, d)
      PROVE  FALSE
  BY <1>6 DEF CreateWorkflow
<1>7. ASSUME NEW a \in Actors, NEW r \in Records, CreateRecordLoad(other, a, r)
      PROVE  other = q /\ inflight'[q].pc = "create.ready"
  BY <1>1, <1>2, <1>7 DEF CreateRecordLoad, Proceed
<1>8. ASSUME NEW a \in Actors, NEW r \in Records, NEW k \in Keys,
             TransitionRecordLoad(other, a, r, k)
      PROVE  FALSE
  BY <1>1, <1>2, <1>8 DEF TransitionRecordLoad, Proceed
<1>9. ASSUME NEW a \in Actors, NEW p \in ApprovalIds, NEW approved \in BOOLEAN,
             DecideApprovalLoad(other, a, p, approved)
      PROVE  FALSE
  BY <1>1, <1>2, <1>9 DEF DecideApprovalLoad, Proceed
<1>10. ASSUME NEW a \in Actors, NEW t \in TaskIds, NEW assignee \in Actors \cup {None},
              NEW p \in ApprovalIds \cup {None}, CreateTask(other, a, t, assignee, p)
       PROVE  FALSE
  BY <1>10 DEF CreateTask
<1>11. ASSUME NEW a \in Actors, NEW t \in TaskIds, NEW status \in {"done", "cancelled"},
              CompleteTaskLoad(other, a, t, status)
       PROVE  other = q /\ inflight'[q].pc = "complete.ready"
  BY <1>1, <1>2, <1>11 DEF CompleteTaskLoad, Proceed
<1>. QED
  BY <1>5, <1>6, <1>7, <1>8, <1>9, <1>10, <1>11 DEF Arrive

LEMMA InitialStaysIn ==
    ASSUME LogGrows, TypeOK, TypeOK', NEW state, InitialIn(audit_logs, state)
    PROVE  InitialIn(audit_logs', state)
BY DEF LogGrows, TypeOK, InitialIn

LEMMA NextCreatesKnown ==
    ASSUME Consented, CreatesKnown, [Next]_vars
    PROVE  CreatesKnown'
<1>1. /\ LogGrows /\ WellFormed /\ TypeOK /\ TypeOK' /\ WorkflowInstalled
  BY NextGrows, NextTypeOK DEF Consented, WellFormed
<1>2. SUFFICES ASSUME NEW q \in Requests, inflight'[q].pc = "create.ready"
               PROVE  \/ inflight'[q].initial = None
                      \/ InitialIn(audit_logs', inflight'[q].initial)
  BY DEF CreatesKnown, InitialIn
<1>3. CASE inflight'[q] = inflight[q]
  BY <1>1, <1>2, <1>3, InitialStaysIn DEF CreatesKnown
<1>4. CASE inflight'[q] # inflight[q]
  <2>1. PICK a \in Actors, r \in Records : CreateRecordLoad(q, a, r)
    BY <1>1, <1>2, <1>4, HandlerBegins
  <2>2. inflight'[q].initial = IF workflow = None THEN None ELSE workflow.initial
    BY <1>1, <1>4, <2>1 DEF CreateRecordLoad, Proceed, TypeOK
  <2>3. workflow # None => InitialIn(audit_logs, workflow.initial)
    BY <1>1 DEF WorkflowInstalled, InitialIn
  <2>. QED
    BY <1>1, <2>2, <2>3, InitialStaysIn
<1>. QED
  BY <1>3, <1>4

-----------------------------------------------------------------------------
(* What the five commits do to records, audit_logs and events.             *)
TrailsTold == \A r \in Records : Trail(audit_logs, events, r, records[r])

VerdictsTold == \A p \in ApprovalIds : Verdict(audit_logs, p, approvals[p])

(* A step that neither moves record r nor writes rows about it.            *)
LEMMA OtherTrailStays ==
    ASSUME TypeOK, TypeOK', TrailsTold, NEW r \in Records, records'[r] = records[r],
           Grown(audit_logs, audit_logs'), Grown(events, events'),
           \A i \in (Len(audit_logs) + 1)..Len(audit_logs') : ~SetsState(audit_logs'[i], r),
           \A n \in (Len(events) + 1)..Len(events') : ~Announces(events'[n], r)
    PROVE  Trail(audit_logs', events', r, records'[r])
<1>1. /\ audit_logs \in Seq(AuditRow) /\ audit_logs' \in Seq(AuditRow)
      /\ events \in Seq(EventRow) /\ events' \in Seq(EventRow)
  BY DEF TypeOK
<1>2. Trail(audit_logs, events, r, records[r])
  BY DEF TrailsTold
<1>3. Trail(audit_logs', events', r, records[r])
  BY <1>1, <1>2, TrailStays
<1>. QED
  BY <1>3

(* One new row and one new event, both about another record or neither     *)
(* about a state.                                                          *)
LEMMA RowAndEventElsewhere ==
    ASSUME TypeOK, TypeOK', TrailsTold, NEW r \in Records, records'[r] = records[r],
           NEW row, NEW event, row \in AuditRow, event \in EventRow,
           audit_logs' = Append(audit_logs, row), events' = Append(events, event),
           ~SetsState(row, r), ~Announces(event, r)
    PROVE  Trail(audit_logs', events', r, records'[r])
<1>1. /\ Grown(audit_logs, audit_logs') /\ Grown(events, events')
      /\ Len(audit_logs') = Len(audit_logs) + 1
      /\ Len(events') = Len(events) + 1
      /\ audit_logs'[Len(audit_logs) + 1] = row
      /\ events'[Len(events) + 1] = event
      /\ Len(audit_logs) \in Nat /\ Len(events) \in Nat
  BY AppendGrows DEF TypeOK
<1>2. /\ \A i \in (Len(audit_logs) + 1)..Len(audit_logs') : ~SetsState(audit_logs'[i], r)
      /\ \A n \in (Len(events) + 1)..Len(events') : ~Announces(events'[n], r)
  BY <1>1
<1>. QED
  BY <1>1, <1>2, OtherTrailStays

LEMMA CreateKeepsTrails ==
    ASSUME WellFormed, TypeOK', CreatesKnown, TrailsTold,
           NEW q \in Requests, CreateRecordCommit(q)
    PROVE  TrailsTold'
<1>. TypeOK
  BY DEF WellFormed
<1> DEFINE local == inflight[q]
           row == Row("record.create", local.actor, local.record, None, None, None)
           event == [kind |-> "record.created", record |-> local.record,
                     to |-> None, approval |-> None]
<1>1. local \in CreateReady /\ local.pc = "create.ready"
  BY LocalOfPc DEF TypeOK, CreateRecordCommit
<1>2. row \in AuditRow /\ row.action = "record.create" /\ row.target = local.record
  BY <1>1 DEF Row, AuditRow, CreateReady
<1>3. event \in EventRow /\ event.kind = "record.created"
  BY <1>1 DEF EventRow, CreateReady
<1>4. /\ audit_logs' = Append(audit_logs, row)
      /\ events' = Append(events, event)
      /\ records' = [records EXCEPT ![local.record] = local.initial]
  BY DEF CreateRecordCommit, Audit, Emit
<1>5. local.record \in Records /\ local.initial \in States \cup {None}
  BY <1>1 DEF CreateReady
<1> HIDE DEF row, event
<1>6. ASSUME NEW r \in Records, r # local.record
      PROVE  Trail(audit_logs', events', r, records'[r])
  <2>1. ~SetsState(row, r) /\ ~Announces(event, r)
    BY <1>2, <1>3, <1>6 DEF SetsState, Announces
  <2>2. records'[r] = records[r]
    BY <1>4, <1>6 DEF TypeOK
  <2>. QED
    BY <1>2, <1>3, <1>4, <2>1, <2>2, RowAndEventElsewhere
<1>7. Trail(audit_logs', events', local.record, records'[local.record])
  <2>1. records'[local.record] = local.initial /\ local.initial # NoRecord
    BY <1>4, <1>5, ConstantsAssumption DEF TypeOK
  <2>2. local.initial = None \/ InitialIn(audit_logs, local.initial)
    BY <1>1 DEF CreatesKnown
  <2>3. audit_logs \in Seq(AuditRow) /\ events' \in Seq(EventRow)
    BY DEF TypeOK
  <2>4. Trail(Append(audit_logs, row), events', local.record, local.initial)
    BY <1>2, <2>1, <2>2, <2>3, TrailCreated
  <2>. QED
    BY <1>4, <2>1, <2>4
<1>. QED
  BY <1>6, <1>7 DEF TrailsTold

(* A move, direct or by approval: its row and its event tell the same.     *)
LEMMA MoveKeepsTrails ==
    ASSUME TypeOK, TypeOK', TrailsTold, NEW m \in Records, NEW to \in States,
           NEW row \in AuditRow, NEW event \in EventRow,
           records' = [records EXCEPT ![m] = to],
           audit_logs' = Append(audit_logs, row), events' = Append(events, event),
           row.action = "workflow.transition", row.target = m, row.after = to,
           event.kind = "workflow.transitioned", event.record = m, event.to = to,
           event.approval = row.approval
    PROVE  TrailsTold'
<1>1. ASSUME NEW r \in Records, r # m
      PROVE  Trail(audit_logs', events', r, records'[r])
  <2>1. ~SetsState(row, r) /\ ~Announces(event, r)
    BY <1>1 DEF SetsState, Announces
  <2>2. records'[r] = records[r]
    BY <1>1 DEF TypeOK
  <2>. QED
    BY <2>1, <2>2, RowAndEventElsewhere
<1>2. Trail(audit_logs', events', m, records'[m])
  <2>1. records'[m] = to /\ to # NoRecord
    BY ConstantsAssumption DEF TypeOK
  <2>2. audit_logs \in Seq(AuditRow) /\ events \in Seq(EventRow)
    BY DEF TypeOK
  <2>3. Trail(Append(audit_logs, row), Append(events, event), m, to)
    BY <2>1, <2>2, TrailMoved
  <2>. QED
    BY <2>1, <2>3
<1>. QED
  BY <1>1, <1>2 DEF TrailsTold

LEMMA DirectMoveKeepsTrails ==
    ASSUME WellFormed, TypeOK', TrailsTold, NEW q \in Requests, TransitionRecordMove(q)
    PROVE  TrailsTold'
<1>. TypeOK
  BY DEF WellFormed
<1> DEFINE local == inflight[q]
           row == Row("workflow.transition", local.actor, local.record,
                      local.step.from, local.step.to, None)
           event == [kind |-> "workflow.transitioned", record |-> local.record,
                     to |-> local.step.to, approval |-> None]
<1>1. local \in TransitionReady
  BY LocalOfPc DEF TypeOK, TransitionRecordMove
<1>2. local.record \in Records /\ local.step.to \in States
  BY <1>1 DEF TransitionReady, Transition
<1>3. row \in AuditRow
  BY <1>1 DEF Row, AuditRow, TransitionReady, Transition
<1>4. event \in EventRow
  BY <1>2 DEF EventRow
<1>5. /\ row.action = "workflow.transition" /\ row.target = local.record
      /\ row.after = local.step.to /\ row.approval = None
  BY DEF Row
<1>6. /\ event.kind = "workflow.transitioned" /\ event.record = local.record
      /\ event.to = local.step.to /\ event.approval = None
  OBVIOUS
<1>7. /\ audit_logs' = Append(audit_logs, row)
      /\ events' = Append(events, event)
      /\ records' = [records EXCEPT ![local.record] = local.step.to]
  BY DEF TransitionRecordMove, Audit, Emit
<1> HIDE DEF row, event
<1>. QED
  BY <1>2, <1>3, <1>4, <1>5, <1>6, <1>7, MoveKeepsTrails

LEMMA ApprovedMoveKeepsTrails ==
    ASSUME WellFormed, TypeOK', TrailsTold, NEW q \in Requests, DecideApprovalApprove(q)
    PROVE  TrailsTold'
<1>. TypeOK
  BY DEF WellFormed
<1> DEFINE local == inflight[q]
           p == local.approval
           approval == approvals[p]
           row == Row("workflow.transition", local.actor, approval.record,
                      local.before, approval.target, p)
           event == [kind |-> "workflow.transitioned", record |-> approval.record,
                     to |-> approval.target, approval |-> p]
<1>1. local \in DecideReady
  BY LocalOfPc DEF TypeOK, DecideApprovalApprove
<1>2. approval.record \in Records /\ approval.target \in States
  BY <1>1 DEF WellFormed, ApprovalsFilled, HandlersHoldRows, FilledApproval, DecideReady
<1>3. row \in AuditRow
  BY <1>1, <1>2 DEF Row, AuditRow, DecideReady
<1>4. event \in EventRow
  BY <1>1, <1>2 DEF EventRow, DecideReady
<1>5. /\ row.action = "workflow.transition" /\ row.target = approval.record
      /\ row.after = approval.target /\ row.approval = p
  BY DEF Row
<1>6. /\ event.kind = "workflow.transitioned" /\ event.record = approval.record
      /\ event.to = approval.target /\ event.approval = p
  OBVIOUS
<1>7. /\ audit_logs' = Append(audit_logs, row)
      /\ events' = Append(events, event)
      /\ records' = [records EXCEPT ![approval.record] = approval.target]
  BY DEF DecideApprovalApprove, Audit, Emit
<1> HIDE DEF row, event, approval
<1>. QED
  BY <1>2, <1>3, <1>4, <1>5, <1>6, <1>7, MoveKeepsTrails

(* The request of an approval and a rejection set no state.                *)
LEMMA RequestKeepsTrails ==
    ASSUME WellFormed, TypeOK', TrailsTold, NEW q \in Requests, TransitionRecordRequest(q)
    PROVE  TrailsTold'
<1>. TypeOK
  BY DEF WellFormed
<1> DEFINE local == inflight[q]
           row(p) == Row("workflow.transition.requested", local.actor, local.record,
                         local.step.from, local.step.to, p)
           event(p) == [kind |-> "approval.requested", record |-> local.record,
                        to |-> None, approval |-> p]
<1>1. local \in TransitionReady
  BY LocalOfPc DEF TypeOK, TransitionRecordRequest
<1>2. PICK p \in ApprovalIds : Audit(row(p)) /\ Emit("approval.requested", local.record, None, p)
  BY DEF TransitionRecordRequest
<1>3. row(p) \in AuditRow /\ row(p).action = "workflow.transition.requested"
  BY <1>1 DEF Row, AuditRow, TransitionReady, Transition
<1>4. event(p) \in EventRow /\ event(p).kind = "approval.requested"
  BY <1>1 DEF EventRow, TransitionReady
<1>5. /\ audit_logs' = Append(audit_logs, row(p))
      /\ events' = Append(events, event(p))
      /\ records' = records
  BY <1>2 DEF TransitionRecordRequest, Audit, Emit
<1> HIDE DEF row, event
<1>. QED
  BY <1>3, <1>4, <1>5, RowAndEventElsewhere DEF TrailsTold, SetsState, Announces

LEMMA RejectKeepsTrails ==
    ASSUME WellFormed, TypeOK', TrailsTold, NEW q \in Requests, DecideApprovalReject(q)
    PROVE  TrailsTold'
<1>. TypeOK
  BY DEF WellFormed
<1> DEFINE row == Row("approval.reject", inflight[q].actor,
                      approvals[inflight[q].approval].record, None, None,
                      inflight[q].approval)
<1>1. row.action = "approval.reject"
  BY DEF Row
<1>2. audit_logs' = Append(audit_logs, row) /\ UNCHANGED <<records, events>>
  BY DEF DecideApprovalReject, Audit
<1> HIDE DEF row
<1>3. /\ Grown(audit_logs, audit_logs')
      /\ \A r \in Records : \A i \in (Len(audit_logs) + 1)..Len(audit_logs') :
            ~SetsState(audit_logs'[i], r)
  BY <1>1, <1>2 DEF TypeOK, Grown, SetsState
<1>4. Grown(events, events') /\ \A n \in (Len(events) + 1)..Len(events') : FALSE
  BY <1>2 DEF TypeOK, Grown
<1>. QED
  BY <1>2, <1>3, <1>4, OtherTrailStays DEF TrailsTold

LEMMA QuietKeepsTrails ==
    ASSUME TypeOK, TypeOK', TrailsTold, Quiet
    PROVE  TrailsTold'
<1>1. /\ Grown(audit_logs, audit_logs')
      /\ \A r \in Records : \A i \in (Len(audit_logs) + 1)..Len(audit_logs') :
            ~SetsState(audit_logs'[i], r)
  BY DEF Quiet, AddsNoTrail, TrailActions, SetsState
<1>2. Grown(events, events') /\ \A n \in (Len(events) + 1)..Len(events') : FALSE
  BY DEF Quiet, TypeOK, Grown
<1>. QED
  BY <1>1, <1>2, OtherTrailStays DEF TrailsTold, Quiet

LEMMA NextTrailsTold ==
    ASSUME WellFormed, CreatesKnown, TrailsTold, [Next]_vars
    PROVE  TrailsTold'
<1>1. TypeOK /\ TypeOK'
  BY NextTypeOK DEF WellFormed
<1>. QED
  BY <1>1, StepKinds, QuietKeepsTrails, CreateKeepsTrails, DirectMoveKeepsTrails,
     ApprovedMoveKeepsTrails, RequestKeepsTrails, RejectKeepsTrails

-----------------------------------------------------------------------------
(* A step that leaves approval p alone and writes no row that decides it.  *)
LEMMA OtherVerdictStays ==
    ASSUME TypeOK, TypeOK', VerdictsTold, NEW p \in ApprovalIds,
           approvals'[p] = approvals[p], Grown(audit_logs, audit_logs'),
           \A i \in (Len(audit_logs) + 1)..Len(audit_logs') : ~Decides(audit_logs'[i], p)
    PROVE  Verdict(audit_logs', p, approvals'[p])
<1>1. audit_logs \in Seq(AuditRow) /\ audit_logs' \in Seq(AuditRow)
  BY DEF TypeOK
<1>2. Verdict(audit_logs, p, approvals[p])
  BY DEF VerdictsTold
<1>3. Verdict(audit_logs', p, approvals[p])
  BY <1>1, <1>2, VerdictStays
<1>. QED
  BY <1>3

LEMMA RowElsewhere ==
    ASSUME TypeOK, TypeOK', VerdictsTold, NEW p \in ApprovalIds,
           approvals'[p] = approvals[p], NEW row \in AuditRow,
           audit_logs' = Append(audit_logs, row), ~Decides(row, p)
    PROVE  Verdict(audit_logs', p, approvals'[p])
<1>1. /\ Grown(audit_logs, audit_logs')
      /\ Len(audit_logs') = Len(audit_logs) + 1
      /\ audit_logs'[Len(audit_logs) + 1] = row
      /\ Len(audit_logs) \in Nat
  BY AppendGrows DEF TypeOK
<1>2. \A i \in (Len(audit_logs) + 1)..Len(audit_logs') : ~Decides(audit_logs'[i], p)
  BY <1>1
<1>. QED
  BY <1>1, <1>2, OtherVerdictStays

LEMMA QuietKeepsVerdicts ==
    ASSUME TypeOK, TypeOK', VerdictsTold, Quiet
    PROVE  VerdictsTold'
<1>1. /\ Grown(audit_logs, audit_logs')
      /\ \A p \in ApprovalIds : \A i \in (Len(audit_logs) + 1)..Len(audit_logs') :
            ~Decides(audit_logs'[i], p)
  BY DEF Quiet, AddsNoTrail, TrailActions, Decides
<1>. QED
  BY <1>1, OtherVerdictStays DEF VerdictsTold, Quiet

LEMMA CreateKeepsVerdicts ==
    ASSUME TypeOK, TypeOK', VerdictsTold, NEW q \in Requests, CreateRecordCommit(q)
    PROVE  VerdictsTold'
<1> DEFINE row == Row("record.create", inflight[q].actor, inflight[q].record,
                      None, None, None)
<1>1. inflight[q] \in CreateReady
  BY LocalOfPc DEF TypeOK, CreateRecordCommit
<1>2. row \in AuditRow /\ row.action = "record.create"
  BY <1>1 DEF Row, AuditRow, CreateReady
<1>3. audit_logs' = Append(audit_logs, row) /\ UNCHANGED approvals
  BY DEF CreateRecordCommit, Audit
<1> HIDE DEF row
<1>. QED
  BY <1>2, <1>3, RowElsewhere DEF VerdictsTold, Decides

(* A direct move carries no approval, so it decides none.                  *)
LEMMA DirectMoveKeepsVerdicts ==
    ASSUME TypeOK, TypeOK', VerdictsTold, NEW q \in Requests, TransitionRecordMove(q)
    PROVE  VerdictsTold'
<1> DEFINE local == inflight[q]
           row == Row("workflow.transition", local.actor, local.record,
                      local.step.from, local.step.to, None)
<1>1. local \in TransitionReady
  BY LocalOfPc DEF TypeOK, TransitionRecordMove
<1>2. row \in AuditRow /\ row.approval = None
  BY <1>1 DEF Row, AuditRow, TransitionReady, Transition
<1>3. audit_logs' = Append(audit_logs, row) /\ UNCHANGED approvals
  BY DEF TransitionRecordMove, Audit
<1> HIDE DEF row
<1>4. \A p \in ApprovalIds : ~Decides(row, p)
  BY <1>2, ConstantsAssumption DEF Decides
<1>. QED
  BY <1>2, <1>3, <1>4, RowElsewhere DEF VerdictsTold

(* A fresh approval is undecided in its row and in the trail.              *)
LEMMA RequestKeepsVerdicts ==
    ASSUME TypeOK, TypeOK', VerdictsTold, NEW q \in Requests, TransitionRecordRequest(q)
    PROVE  VerdictsTold'
<1> DEFINE local == inflight[q]
           row(p) == Row("workflow.transition.requested", local.actor, local.record,
                         local.step.from, local.step.to, p)
           fresh == [status |-> "pending", requested_by |-> local.actor,
                     record |-> local.record, from |-> local.step.from,
                     target |-> local.step.to, decided_by |-> None]
<1>1. local \in TransitionReady
  BY LocalOfPc DEF TypeOK, TransitionRecordRequest
<1>2. PICK p \in ApprovalIds : /\ approvals[p].status = "absent"
                               /\ approvals' = [approvals EXCEPT ![p] = fresh]
                               /\ Audit(row(p))
  BY DEF TransitionRecordRequest
<1>3. row(p) \in AuditRow /\ row(p).action = "workflow.transition.requested"
  BY <1>1 DEF Row, AuditRow, TransitionReady, Transition
<1>4. fresh.status \notin Decided /\ fresh.decided_by = None
  BY DEF Decided
<1>5. audit_logs' = Append(audit_logs, row(p))
  BY <1>2 DEF Audit
<1> HIDE DEF row, fresh
<1>6. ASSUME NEW other \in ApprovalIds, other # p
      PROVE  Verdict(audit_logs', other, approvals'[other])
  <2>1. approvals'[other] = approvals[other]
    BY <1>2, <1>6 DEF TypeOK
  <2>2. ~Decides(row(p), other)
    BY <1>3 DEF Decides
  <2>. QED
    BY <1>3, <1>5, <2>1, <2>2, RowElsewhere
<1>7. Verdict(audit_logs', p, approvals'[p])
  <2>1. \A i \in DOMAIN audit_logs : ~Decides(audit_logs[i], p)
    BY <1>2 DEF VerdictsTold, Verdict, Decided
  <2>2. \A i \in DOMAIN audit_logs' : ~Decides(audit_logs'[i], p)
    BY <1>3, <1>5, <2>1 DEF TypeOK, Decides
  <2>3. approvals'[p] = fresh
    BY <1>2 DEF TypeOK
  <2>. QED
    BY <1>4, <2>2, <2>3 DEF Verdict
<1>. QED
  BY <1>6, <1>7 DEF VerdictsTold

(* A decision, of a first or of a second decider: the row overwrites the   *)
(* verdict and the trail's last row is its own.                            *)
LEMMA DecisionKeepsVerdicts ==
    ASSUME TypeOK, TypeOK', VerdictsTold, NEW p \in ApprovalIds, NEW row \in AuditRow,
           audit_logs' = Append(audit_logs, row),
           Decides(row, p), row.approval = p,
           SetDecision(p, IF row.action = "approval.reject" THEN "rejected" ELSE "approved",
                       row.actor)
    PROVE  VerdictsTold'
<1>1. ASSUME NEW other \in ApprovalIds, other # p
      PROVE  Verdict(audit_logs', other, approvals'[other])
  <2>1. approvals'[other] = approvals[other]
    BY <1>1 DEF TypeOK, SetDecision
  <2>2. ~Decides(row, other)
    BY <1>1 DEF Decides
  <2>. QED
    BY <2>1, <2>2, RowElsewhere
<1>2. Verdict(audit_logs', p, approvals'[p])
  <2>1. /\ approvals'[p].decided_by = row.actor
        /\ approvals'[p].status = IF row.action = "approval.reject"
                                  THEN "rejected" ELSE "approved"
    BY DEF TypeOK, Approval, SetDecision
  <2>2. audit_logs \in Seq(AuditRow)
    BY DEF TypeOK
  <2>. QED
    BY <2>1, <2>2, VerdictGiven
<1>. QED
  BY <1>1, <1>2 DEF VerdictsTold

LEMMA ApproveKeepsVerdicts ==
    ASSUME WellFormed, TypeOK', VerdictsTold, NEW q \in Requests, DecideApprovalApprove(q)
    PROVE  VerdictsTold'
<1>. TypeOK
  BY DEF WellFormed
<1> DEFINE local == inflight[q]
           p == local.approval
           row == Row("workflow.transition", local.actor, approvals[p].record,
                      local.before, approvals[p].target, p)
<1>1. local \in DecideReady
  BY LocalOfPc DEF TypeOK, DecideApprovalApprove
<1>2. approvals[p].record \in Records /\ approvals[p].target \in States
  BY <1>1 DEF WellFormed, ApprovalsFilled, HandlersHoldRows, FilledApproval, DecideReady
<1>3. p \in ApprovalIds /\ row \in AuditRow
  BY <1>1, <1>2 DEF Row, AuditRow, DecideReady
<1>4. row.action = "workflow.transition" /\ row.approval = p /\ row.actor = local.actor
  BY DEF Row
<1>5. audit_logs' = Append(audit_logs, row) /\ SetDecision(p, "approved", local.actor)
  BY DEF DecideApprovalApprove, Audit
<1> HIDE DEF row
<1>. QED
  BY <1>3, <1>4, <1>5, DecisionKeepsVerdicts DEF Decides

LEMMA RejectKeepsVerdicts ==
    ASSUME WellFormed, TypeOK', VerdictsTold, NEW q \in Requests, DecideApprovalReject(q)
    PROVE  VerdictsTold'
<1>. TypeOK
  BY DEF WellFormed
<1> DEFINE local == inflight[q]
           p == local.approval
           row == Row("approval.reject", local.actor, approvals[p].record, None, None, p)
<1>1. local \in DecideReady
  BY LocalOfPc DEF TypeOK, DecideApprovalReject
<1>2. approvals[p].record \in Records
  BY <1>1 DEF WellFormed, ApprovalsFilled, HandlersHoldRows, FilledApproval, DecideReady
<1>3. p \in ApprovalIds /\ row \in AuditRow
  BY <1>1, <1>2 DEF Row, AuditRow, DecideReady
<1>4. row.action = "approval.reject" /\ row.approval = p /\ row.actor = local.actor
  BY DEF Row
<1>5. audit_logs' = Append(audit_logs, row) /\ SetDecision(p, "rejected", local.actor)
  BY DEF DecideApprovalReject, Audit
<1> HIDE DEF row
<1>. QED
  BY <1>3, <1>4, <1>5, DecisionKeepsVerdicts DEF Decides

LEMMA NextVerdictsTold ==
    ASSUME WellFormed, VerdictsTold, [Next]_vars
    PROVE  VerdictsTold'
<1>1. TypeOK /\ TypeOK'
  BY NextTypeOK DEF WellFormed
<1>. QED
  BY <1>1, StepKinds, QuietKeepsVerdicts, CreateKeepsVerdicts, DirectMoveKeepsVerdicts,
     RequestKeepsVerdicts, ApproveKeepsVerdicts, RejectKeepsVerdicts

-----------------------------------------------------------------------------
(***************************************************************************)
(* The tasks the engine opens.  Counting them needs them one by one: task  *)
(* t is the engine's task of p.                                            *)
(***************************************************************************)
IsTaskOf(task, p) ==
    task.status # "absent" /\ task.origin = "engine" /\ task.approval = p

OneTaskEach ==
    \A p \in ApprovalIds :
        /\ approvals[p].status = "absent" =>
              \A t \in TaskIds : ~IsTaskOf(tasks[t], p)
        /\ approvals[p].status # "absent" =>
              \E t \in TaskIds : /\ IsTaskOf(tasks[t], p)
                                 /\ \A u \in TaskIds : IsTaskOf(tasks[u], p) => u = t
        /\ approvals[p].status \in Decided =>
              \A t \in TaskIds : IsTaskOf(tasks[t], p) => tasks[t].status # "open"

LEMMA OneTaskSays == OneTaskEach => ApprovalsHaveTheirTask
<1>. SUFFICES ASSUME OneTaskEach, NEW p \in ApprovalIds
              PROVE  /\ Cardinality(EngineTasksOf(p)) =
                           IF approvals[p].status = "absent" THEN 0 ELSE 1
                     /\ approvals[p].status \in Decided =>
                           \A t \in EngineTasksOf(p) : tasks[t].status # "open"
  BY DEF ApprovalsHaveTheirTask
<1>1. EngineTasksOf(p) = {t \in TaskIds : IsTaskOf(tasks[t], p)}
  BY DEF EngineTasksOf, IsTaskOf
<1>2. CASE approvals[p].status = "absent"
  <2>1. EngineTasksOf(p) = {}
    BY <1>1, <1>2 DEF OneTaskEach
  <2>. QED
    BY <1>2, <2>1, FS_EmptySet DEF Decided
<1>3. CASE approvals[p].status # "absent"
  <2>1. PICK t \in TaskIds : /\ IsTaskOf(tasks[t], p)
                             /\ \A u \in TaskIds : IsTaskOf(tasks[u], p) => u = t
    BY <1>3 DEF OneTaskEach
  <2>2. EngineTasksOf(p) = {t}
    BY <1>1, <2>1
  <2>3. Cardinality(EngineTasksOf(p)) = 1
    BY <2>2, FS_Singleton
  <2>. QED
    BY <1>1, <1>3, <2>3 DEF OneTaskEach
<1>. QED
  BY <1>2, <1>3

(* What every step but a request preserves of the tasks: it neither makes  *)
(* nor unmakes an engine task, and reopens none.                           *)
TasksStay ==
    \A t \in TaskIds : \A p \in ApprovalIds :
        /\ IsTaskOf(tasks'[t], p) <=> IsTaskOf(tasks[t], p)
        /\ IsTaskOf(tasks[t], p) /\ tasks[t].status # "open" => tasks'[t].status # "open"

TasksKept == \A t \in TaskIds : tasks[t].status # "absent" => tasks'[t].status # "absent"

LEMMA CloseKeepsTasks ==
    ASSUME TypeOK, NEW p \in ApprovalIds, NEW status \in {"done", "cancelled"},
           CloseTasksForApproval(p, status)
    PROVE  /\ TasksStay /\ TasksKept
           /\ \A t \in TaskIds : IsTaskOf(tasks[t], p) => tasks'[t].status = status
BY DEF TypeOK, Task, CloseTasksForApproval, TasksStay, TasksKept, IsTaskOf

LEMMA CompleteKeepsTasks ==
    ASSUME TypeOK, CompletesHoldTasks, NEW q \in Requests, CompleteTaskCommit(q)
    PROVE  TasksStay /\ TasksKept
<1>1. inflight[q] \in CompleteReady
  BY LocalOfPc DEF TypeOK, CompleteTaskCommit
<1>2. /\ inflight[q].task \in TaskIds
      /\ inflight[q].status \in {"done", "cancelled"}
      /\ tasks[inflight[q].task].status # "absent"
  BY <1>1 DEF CompleteReady, CompletesHoldTasks
<1>3. tasks' = [tasks EXCEPT ![inflight[q].task].status = inflight[q].status]
  BY DEF CompleteTaskCommit
<1>. QED
  BY <1>2, <1>3 DEF TypeOK, Task, TasksStay, TasksKept, IsTaskOf

LEMMA CreateTaskKeepsTasks ==
    ASSUME TypeOK, NEW q \in Requests, NEW a \in Actors, NEW t \in TaskIds,
           NEW assignee \in Actors \cup {None}, NEW p \in ApprovalIds \cup {None},
           CreateTask(q, a, t, assignee, p)
    PROVE  TasksStay /\ TasksKept
<1>1. CASE UNCHANGED tasks
  BY <1>1 DEF TasksStay, TasksKept
<1>2. CASE tasks' = [tasks EXCEPT ![t] =
               [status |-> "open", approval |-> p, created_by |-> a,
                assignee |-> assignee, origin |-> "user"]]
  <2>1. tasks[t].status = "absent"
    BY DEF CreateTask
  <2>. QED
    BY <1>2, <2>1 DEF TypeOK, TasksStay, TasksKept, IsTaskOf
<1>. QED
  BY <1>1, <1>2 DEF CreateTask

(* Every step but a request and the two decisions.                         *)
LEMMA OtherStepsKeepTasks ==
    ASSUME TypeOK, CompletesHoldTasks, [Next]_vars,
           ~(\E q \in Requests : \/ TransitionRecordRequest(q)
                                 \/ DecideApprovalApprove(q)
                                 \/ DecideApprovalReject(q))
    PROVE  TasksStay /\ TasksKept
<1>1. CASE UNCHANGED tasks
  BY <1>1 DEF TasksStay, TasksKept
<1>2. ASSUME NEW q \in Requests, Arrive(q) PROVE TasksStay /\ TasksKept
  BY <1>1, <1>2, CreateTaskKeepsTasks
  DEF Arrive, CreateWorkflow, CreateRecordLoad, TransitionRecordLoad,
      DecideApprovalLoad, CompleteTaskLoad, tables
<1>3. ASSUME NEW q \in Requests, Continue(q) PROVE TasksStay /\ TasksKept
  BY <1>1, <1>3, CompleteKeepsTasks
  DEF Continue, CreateRecordCommit, TransitionRecordResolve, TransitionRecordRefuse,
      TransitionRecordMove, DecideApprovalAuthorize, tables
<1>. QED
  BY <1>1, <1>2, <1>3 DEF Next, Abandon, Rest, vars, tables

LEMMA RequestKeepsOneTask ==
    ASSUME TypeOK, OneTaskEach, NEW q \in Requests, TransitionRecordRequest(q)
    PROVE  OneTaskEach' /\ TasksKept
<1> DEFINE local == inflight[q]
           fresh == [status |-> "pending", requested_by |-> local.actor,
                     record |-> local.record, from |-> local.step.from,
                     target |-> local.step.to, decided_by |-> None]
           task(p) == [status |-> "open", approval |-> p, created_by |-> local.actor,
                       assignee |-> None, origin |-> "engine"]
<1>1. PICK p \in ApprovalIds, t \in TaskIds :
         /\ approvals[p].status = "absent"
         /\ tasks[t].status = "absent"
         /\ approvals' = [approvals EXCEPT ![p] = fresh]
         /\ tasks' = [tasks EXCEPT ![t] = task(p)]
  BY DEF TransitionRecordRequest
<1>2. fresh.status = "pending"
  OBVIOUS
<1>3. /\ task(p).status = "open" /\ task(p).approval = p
      /\ task(p).origin = "engine"
  OBVIOUS
<1> HIDE DEF fresh, task
<1>4. tasks'[t] = task(p) /\ \A u \in TaskIds : u # t => tasks'[u] = tasks[u]
  BY <1>1 DEF TypeOK
<1>5. approvals'[p] = fresh /\ \A o \in ApprovalIds : o # p => approvals'[o] = approvals[o]
  BY <1>1 DEF TypeOK
<1>6. \A o \in ApprovalIds : ~IsTaskOf(tasks[t], o)
  BY <1>1 DEF IsTaskOf
<1>7. IsTaskOf(tasks'[t], p) /\ \A o \in ApprovalIds : o # p => ~IsTaskOf(tasks'[t], o)
  BY <1>3, <1>4 DEF IsTaskOf
<1>8. ASSUME NEW o \in ApprovalIds
      PROVE  /\ approvals'[o].status = "absent" =>
                   \A u \in TaskIds : ~IsTaskOf(tasks'[u], o)
             /\ approvals'[o].status # "absent" =>
                   \E u \in TaskIds : /\ IsTaskOf(tasks'[u], o)
                                      /\ \A w \in TaskIds : IsTaskOf(tasks'[w], o) => w = u
             /\ approvals'[o].status \in Decided =>
                   \A u \in TaskIds : IsTaskOf(tasks'[u], o) => tasks'[u].status # "open"
  <2>1. CASE o = p
    <3>1. \A u \in TaskIds : ~IsTaskOf(tasks[u], p)
      BY <1>1 DEF OneTaskEach
    <3>2. \A u \in TaskIds : IsTaskOf(tasks'[u], p) => u = t
      BY <1>4, <3>1
    <3>. QED
      BY <1>2, <1>5, <1>7, <2>1, <3>2 DEF Decided
  <2>2. CASE o # p
    <3>1. \A u \in TaskIds : IsTaskOf(tasks'[u], o) <=> IsTaskOf(tasks[u], o)
      BY <1>4, <1>6, <1>7, <2>2
    <3>2. \A u \in TaskIds : IsTaskOf(tasks[u], o) => tasks'[u].status = tasks[u].status
      BY <1>4, <1>6
    <3>3. approvals'[o] = approvals[o]
      BY <1>5, <2>2
    <3>. QED
      BY <3>1, <3>2, <3>3 DEF OneTaskEach
  <2>. QED
    BY <2>1, <2>2
<1>. QED
  BY <1>1, <1>3, <1>4, <1>8 DEF OneTaskEach, TasksKept

LEMMA DecisionKeepsOneTask ==
    ASSUME TypeOK, OneTaskEach, NEW p \in ApprovalIds, approvals[p].status # "absent",
           NEW status \in Decided, NEW a, SetDecision(p, status, a),
           NEW closed \in {"done", "cancelled"}, CloseTasksForApproval(p, closed)
    PROVE  OneTaskEach' /\ TasksKept
<1>1. /\ TasksStay /\ TasksKept
      /\ \A t \in TaskIds : IsTaskOf(tasks[t], p) => tasks'[t].status = closed
  BY CloseKeepsTasks
<1>2. approvals'[p].status = status
  BY DEF TypeOK, Approval, SetDecision
<1>3. \A o \in ApprovalIds : o # p => approvals'[o] = approvals[o]
  BY DEF TypeOK, SetDecision
<1>4. status # "absent" /\ closed # "open"
  BY DEF Decided
<1>5. ASSUME NEW o \in ApprovalIds
      PROVE  /\ approvals'[o].status = "absent" =>
                   \A u \in TaskIds : ~IsTaskOf(tasks'[u], o)
             /\ approvals'[o].status # "absent" =>
                   \E u \in TaskIds : /\ IsTaskOf(tasks'[u], o)
                                      /\ \A w \in TaskIds : IsTaskOf(tasks'[w], o) => w = u
             /\ approvals'[o].status \in Decided =>
                   \A u \in TaskIds : IsTaskOf(tasks'[u], o) => tasks'[u].status # "open"
  <2>1. CASE o = p
    BY <1>1, <1>2, <1>4, <2>1 DEF OneTaskEach, TasksStay
  <2>2. CASE o # p
    BY <1>1, <1>3, <2>2 DEF OneTaskEach, TasksStay
  <2>. QED
    BY <2>1, <2>2
<1>. QED
  BY <1>1, <1>5 DEF OneTaskEach

LEMMA NextOneTaskEach ==
    ASSUME WellFormed, CompletesHoldTasks, OneTaskEach, [Next]_vars
    PROVE  OneTaskEach' /\ TasksKept
<1>. TypeOK
  BY DEF WellFormed
<1>1. ASSUME NEW q \in Requests, DecideApprovalApprove(q) \/ DecideApprovalReject(q)
      PROVE  OneTaskEach' /\ TasksKept
  <2>1. inflight[q] \in DecideReady
    BY <1>1, LocalOfPc DEF TypeOK, DecideApprovalApprove, DecideApprovalReject
  <2>2. inflight[q].approval \in ApprovalIds /\ approvals[inflight[q].approval].status # "absent"
    BY <2>1 DEF WellFormed, HandlersHoldRows, DecideReady
  <2>3. CASE DecideApprovalApprove(q)
    BY <2>2, <2>3, DecisionKeepsOneTask DEF DecideApprovalApprove, Decided
  <2>4. CASE DecideApprovalReject(q)
    BY <2>2, <2>4, DecisionKeepsOneTask DEF DecideApprovalReject, Decided
  <2>. QED
    BY <1>1, <2>3, <2>4
<1>2. CASE ~(\E q \in Requests : \/ TransitionRecordRequest(q)
                                 \/ DecideApprovalApprove(q)
                                 \/ DecideApprovalReject(q))
  <2>1. TasksStay /\ TasksKept
    BY <1>2, OtherStepsKeepTasks
  <2>2. UNCHANGED approvals
    BY <1>2, StepKinds DEF Quiet, CreateRecordCommit, TransitionRecordMove
  <2>. QED
    BY <2>1, <2>2 DEF OneTaskEach, TasksStay
<1>. QED
  BY <1>1, <1>2, RequestKeepsOneTask

LEMMA NextCompletesHoldTasks ==
    ASSUME WellFormed, CompletesHoldTasks, TasksKept, [Next]_vars
    PROVE  CompletesHoldTasks'
<1>. TypeOK
  BY DEF WellFormed
<1>1. SUFFICES ASSUME NEW q \in Requests, inflight'[q].pc = "complete.ready"
               PROVE  tasks'[inflight'[q].task].status # "absent"
  BY DEF CompletesHoldTasks
<1>2. CASE inflight'[q] = inflight[q]
  <2>1. inflight[q].task \in TaskIds
    BY <1>1, <1>2, LocalOfPc DEF TypeOK, CompleteReady
  <2>. QED
    BY <1>1, <1>2, <2>1 DEF CompletesHoldTasks, TasksKept
<1>3. CASE inflight'[q] # inflight[q]
  <2>1. PICK a \in Actors, t \in TaskIds, status \in {"done", "cancelled"} :
           CompleteTaskLoad(q, a, t, status)
    BY <1>1, <1>3, HandlerBegins
  <2>2. inflight'[q].task = t /\ tasks[t].status # "absent"
    BY <1>3, <2>1 DEF CompleteTaskLoad, Proceed, TypeOK
  <2>. QED
    BY <2>2 DEF TasksKept
<1>. QED
  BY <1>2, <1>3

-----------------------------------------------------------------------------
(* The whole invariant.                                                    *)
Told ==
    /\ Consented
    /\ CreatesKnown
    /\ CompletesHoldTasks
    /\ TrailsTold
    /\ VerdictsTold
    /\ OneTaskEach

LEMMA ToldInductive ==
    /\ Init => Told
    /\ Told /\ [Next]_vars => Told'
<1>1. ASSUME Init PROVE Told
  <2>1. CreatesKnown /\ CompletesHoldTasks
    BY <1>1 DEF Init, Idle, CreatesKnown, CompletesHoldTasks
  <2>2. TrailsTold
    BY <1>1 DEF Init, TrailsTold, Trail
  <2>3. VerdictsTold
    BY <1>1 DEF Init, NoApproval, VerdictsTold, Verdict, Decided
  <2>4. OneTaskEach
    BY <1>1 DEF Init, NoApproval, NoTask, OneTaskEach, IsTaskOf, Decided
  <2>. QED
    BY <1>1, <2>1, <2>2, <2>3, <2>4, ConsentedInductive DEF Told
<1>2. ASSUME Told, [Next]_vars PROVE Told'
  <2>1. Consented /\ Consented' /\ WellFormed
    BY <1>2, ConsentedInductive DEF Told, Consented
  <2>2. OneTaskEach' /\ TasksKept
    BY <1>2, <2>1, NextOneTaskEach DEF Told
  <2>. QED
    BY <1>2, <2>1, <2>2, NextCreatesKnown, NextCompletesHoldTasks, NextTrailsTold,
       NextVerdictsTold
    DEF Told
<1>. QED
  BY <1>1, <1>2

(***************************************************************************)
(* The audit log and the event outbox tell the state of every record, for  *)
(* any number of handlers and any redefinition of the workflow: the last   *)
(* row that sets a state and the last event that announces one agree with  *)
(* the records table, and a record that never moved is in the initial      *)
(* state of a definition installed before it was created.                  *)
(***************************************************************************)
THEOREM TrailsTellTheState == Spec => []TrailsAgree
<1>1. Told => TrailsAgree
  BY TrailSays DEF Told, TrailsTold
<1>. QED
  BY <1>1, ToldInductive, PTL DEF Spec

(***************************************************************************)
(* However many deciders pass the pending check at once, an approval shows *)
(* the verdict and the decider of the last row that decided it, and an     *)
(* undecided one has no such row.                                          *)
(***************************************************************************)
THEOREM LastDeciderIsRecorded == Spec => []LastDecisionStands
<1>1. Told => LastDecisionStands
  BY VerdictSays DEF Told, VerdictsTold
<1>. QED
  BY <1>1, ToldInductive, PTL DEF Spec

(***************************************************************************)
(* Every approval has exactly the one task the engine opened with it, and  *)
(* no decided approval leaves it open, whoever completes tasks meanwhile.  *)
(***************************************************************************)
THEOREM WorkListIsComplete == Spec => []ApprovalsHaveTheirTask
<1>1. Told => ApprovalsHaveTheirTask
  BY OneTaskSays DEF Told
<1>. QED
  BY <1>1, ToldInductive, PTL DEF Spec

-----------------------------------------------------------------------------
(***************************************************************************)
(* What holds while the clients send one request at a time: the engine     *)
(* implements WorkflowPromise, decisions are final, and the trail of a     *)
(* record is an unbroken chain.  The proofs rest on Told.                  *)
(***************************************************************************)
\* There is one slot for handlers.
OneAtATime == \A q, other \in Requests : q = other

(***************************************************************************)
(* With one handler at a time, what it has read is still so: no row has    *)
(* changed since.                                                          *)
(***************************************************************************)
ReadsTransition(local) ==
    /\ local.pc = "transition.loaded" => local.seen = records[local.record]
    /\ local.pc = "transition.ready" =>
         /\ workflow # None
         /\ local.step \in workflow.transitions
         /\ local.step.from = CurrentState(workflow, records[local.record])

ReadsApproval(local) ==
    /\ local.pc \in {"decide.loaded", "decide.ready"} =>
         approvals[local.approval].status = "pending"
    /\ local.pc = "decide.ready" =>
         local.before = records[approvals[local.approval].record]

ReadsOther(local) ==
    /\ local.pc = "create.ready" =>
         /\ records[local.record] = NoRecord
         /\ local.initial = IF workflow = None THEN None ELSE workflow.initial
    /\ local.pc = "complete.ready" => tasks[local.task].status = "open"

ReadsAreFresh ==
    \A q \in Requests : /\ ReadsTransition(inflight[q])
                        /\ ReadsApproval(inflight[q])
                        /\ ReadsOther(inflight[q])

(* A handler that ends has nothing left to be stale.                       *)
LEMMA IdleIsFresh ==
    ASSUME OneAtATime, TypeOK, NEW q \in Requests, inflight'[q].pc = "idle"
    PROVE  ReadsAreFresh'
<1>1. \A other \in Requests : inflight'[other].pc = "idle"
  BY DEF OneAtATime
<1>. QED
  BY <1>1 DEF ReadsAreFresh, ReadsTransition, ReadsApproval, ReadsOther

LEMMA FinishIsFresh ==
    ASSUME OneAtATime, TypeOK, NEW q \in Requests, Finish(q)
    PROVE  ReadsAreFresh'
<1>1. inflight'[q].pc = "idle"
  BY DEF TypeOK, Finish, Idle
<1>. QED
  BY <1>1, IdleIsFresh

(* A handler that has not moved is idle or no table changed.               *)
LEMMA StartIsFresh ==
    ASSUME OneAtATime, TypeOK, NEW q \in Requests, Starts(q), UNCHANGED inflight
    PROVE  ReadsAreFresh'
<1>1. inflight'[q].pc = "idle"
  BY DEF Starts, Idle
<1>. QED
  BY <1>1, IdleIsFresh

LEMMA ProceedIsFresh ==
    ASSUME OneAtATime, TypeOK, NEW q \in Requests, NEW local, Proceed(q, local),
           ReadsTransition(local)', ReadsApproval(local)', ReadsOther(local)'
    PROVE  ReadsAreFresh'
<1>1. \A other \in Requests : inflight'[other] = local
  BY DEF OneAtATime, TypeOK, Proceed
<1>. QED
  BY <1>1 DEF ReadsAreFresh, ReadsTransition, ReadsApproval, ReadsOther

LEMMA ArriveReadsFresh ==
    ASSUME OneAtATime, TypeOK, NEW q \in Requests, Arrive(q)
    PROVE  ReadsAreFresh'
<1>1. ASSUME NEW a \in Actors, NEW d \in Definitions, CreateWorkflow(q, a, d)
      PROVE  ReadsAreFresh'
  BY <1>1, StartIsFresh DEF CreateWorkflow
<1>2. ASSUME NEW a \in Actors, NEW r \in Records, CreateRecordLoad(q, a, r)
      PROVE  ReadsAreFresh'
  <2> DEFINE local == [pc |-> "create.ready", actor |-> a, record |-> r,
                       initial |-> IF workflow = None THEN None ELSE workflow.initial]
  <2>1. /\ local.pc = "create.ready" /\ local.record = r
        /\ local.initial = IF workflow = None THEN None ELSE workflow.initial
    OBVIOUS
  <2>2. UNCHANGED inflight \/ Proceed(q, local)
    BY <1>2 DEF CreateRecordLoad
  <2>3. Starts(q) /\ records[r] = NoRecord /\ UNCHANGED <<workflow, records>>
    BY <1>2 DEF CreateRecordLoad
  <2> HIDE DEF local
  <2>4. local' = local
    BY <2>3 DEF local
  <2>5. ReadsTransition(local)' /\ ReadsApproval(local)' /\ ReadsOther(local)'
    BY <2>1, <2>3, <2>4 DEF ReadsTransition, ReadsApproval, ReadsOther
  <2>. QED
    BY <2>2, <2>3, <2>4, <2>5, StartIsFresh, ProceedIsFresh
<1>3. ASSUME NEW a \in Actors, NEW r \in Records, NEW k \in Keys,
             TransitionRecordLoad(q, a, r, k)
      PROVE  ReadsAreFresh'
  <2>1. /\ inflight'[q].pc = "transition.loaded" /\ inflight'[q].record = r
        /\ inflight'[q].seen = records[r]
    BY <1>3 DEF TypeOK, TransitionRecordLoad, Proceed
  <2>2. UNCHANGED records
    BY <1>3 DEF TransitionRecordLoad, tables
  <2>3. ReadsTransition(inflight[q])' /\ ReadsApproval(inflight[q])' /\ ReadsOther(inflight[q])'
    BY <2>1, <2>2 DEF ReadsTransition, ReadsApproval, ReadsOther
  <2>. QED
    BY <2>3 DEF OneAtATime, ReadsAreFresh
<1>4. ASSUME NEW a \in Actors, NEW p \in ApprovalIds, NEW approved \in BOOLEAN,
             DecideApprovalLoad(q, a, p, approved)
      PROVE  ReadsAreFresh'
  <2>1. CASE UNCHANGED inflight
    BY <1>4, <2>1, StartIsFresh DEF DecideApprovalLoad
  <2>2. CASE Proceed(q, [pc |-> "decide.loaded", actor |-> a, approval |-> p,
                         approved |-> approved])
    <3>1. inflight'[q].pc = "decide.loaded" /\ inflight'[q].approval = p
      BY <2>2 DEF TypeOK, Proceed
    <3>2. approvals'[p].status = "pending"
      BY <1>4 DEF DecideApprovalLoad
    <3>3. ReadsTransition(inflight[q])' /\ ReadsApproval(inflight[q])'
            /\ ReadsOther(inflight[q])'
      BY <3>1, <3>2 DEF ReadsTransition, ReadsApproval, ReadsOther
    <3>. QED
      BY <3>3 DEF OneAtATime, ReadsAreFresh
  <2>. QED
    BY <1>4, <2>1, <2>2 DEF DecideApprovalLoad
<1>5. ASSUME NEW a \in Actors, NEW t \in TaskIds, NEW assignee \in Actors \cup {None},
             NEW p \in ApprovalIds \cup {None}, CreateTask(q, a, t, assignee, p)
      PROVE  ReadsAreFresh'
  BY <1>5, StartIsFresh DEF CreateTask
<1>6. ASSUME NEW a \in Actors, NEW t \in TaskIds, NEW status \in {"done", "cancelled"},
             CompleteTaskLoad(q, a, t, status)
      PROVE  ReadsAreFresh'
  <2>1. CASE UNCHANGED inflight
    BY <1>6, <2>1, StartIsFresh DEF CompleteTaskLoad
  <2>2. CASE tasks[t].status = "open" /\ Proceed(q, [pc |-> "complete.ready",
                  actor |-> a, task |-> t, status |-> status])
    <3>1. inflight'[q].pc = "complete.ready" /\ inflight'[q].task = t
      BY <2>2 DEF TypeOK, Proceed
    <3>2. tasks'[t].status = "open"
      BY <1>6, <2>2 DEF CompleteTaskLoad
    <3>3. ReadsTransition(inflight[q])' /\ ReadsApproval(inflight[q])'
            /\ ReadsOther(inflight[q])'
      BY <3>1, <3>2 DEF ReadsTransition, ReadsApproval, ReadsOther
    <3>. QED
      BY <3>3 DEF OneAtATime, ReadsAreFresh
  <2>. QED
    BY <1>6, <2>1, <2>2 DEF CompleteTaskLoad
<1>. QED
  BY <1>1, <1>2, <1>3, <1>4, <1>5, <1>6 DEF Arrive

LEMMA ContinueReadsFresh ==
    ASSUME OneAtATime, TypeOK, ReadsAreFresh, NEW q \in Requests, Continue(q)
    PROVE  ReadsAreFresh'
<1>1. CASE TransitionRecordResolve(q)
  <2>1. ASSUME NEW t \in TransitionsFrom(workflow,
                           CurrentState(workflow, inflight[q].seen), inflight[q].key),
               Proceed(q, [pc |-> "transition.ready", actor |-> inflight[q].actor,
                           record |-> inflight[q].record, step |-> t])
        PROVE  ReadsAreFresh'
    <3>1. /\ inflight'[q].pc = "transition.ready" /\ inflight'[q].step = t
          /\ inflight'[q].record = inflight[q].record
      BY <2>1 DEF TypeOK, Proceed
    <3>2. workflow # None /\ UNCHANGED <<workflow, records>>
      BY <1>1 DEF TransitionRecordResolve
    <3>3. t \in workflow.transitions /\ t.from = CurrentState(workflow, inflight[q].seen)
      BY <2>1 DEF TransitionsFrom
    <3>4. inflight[q].seen = records[inflight[q].record]
      BY <1>1 DEF ReadsAreFresh, ReadsTransition, TransitionRecordResolve
    <3>5. ReadsTransition(inflight[q])' /\ ReadsApproval(inflight[q])'
            /\ ReadsOther(inflight[q])'
      BY <3>1, <3>2, <3>3, <3>4
      DEF ReadsTransition, ReadsApproval, ReadsOther, CurrentState
    <3>. QED
      BY <3>5 DEF OneAtATime, ReadsAreFresh
  <2>. QED
    BY <1>1, <2>1, FinishIsFresh DEF TransitionRecordResolve
<1>2. CASE DecideApprovalAuthorize(q)
  <2>1. ASSUME Proceed(q, [pc |-> "decide.ready", actor |-> inflight[q].actor,
                           approval |-> inflight[q].approval,
                           approved |-> inflight[q].approved,
                           before |-> records[approvals[inflight[q].approval].record]])
        PROVE  ReadsAreFresh'
    <3>1. /\ inflight'[q].pc = "decide.ready"
          /\ inflight'[q].approval = inflight[q].approval
          /\ inflight'[q].before = records[approvals[inflight[q].approval].record]
      BY <2>1 DEF TypeOK, Proceed
    <3>2. UNCHANGED <<records, approvals>>
      BY <1>2 DEF DecideApprovalAuthorize
    <3>3. approvals[inflight[q].approval].status = "pending"
      BY <1>2 DEF ReadsAreFresh, ReadsApproval, DecideApprovalAuthorize
    <3>4. ReadsTransition(inflight[q])' /\ ReadsApproval(inflight[q])'
            /\ ReadsOther(inflight[q])'
      BY <3>1, <3>2, <3>3 DEF ReadsTransition, ReadsApproval, ReadsOther
    <3>. QED
      BY <3>4 DEF OneAtATime, ReadsAreFresh
  <2>. QED
    BY <1>2, <2>1, FinishIsFresh DEF DecideApprovalAuthorize
<1>. QED
  BY <1>1, <1>2, FinishIsFresh
  DEF Continue, CreateRecordCommit, TransitionRecordRefuse, TransitionRecordMove,
      TransitionRecordRequest, DecideApprovalApprove, DecideApprovalReject,
      CompleteTaskCommit

LEMMA NextReadsFresh ==
    ASSUME OneAtATime, TypeOK, ReadsAreFresh, [Next]_vars
    PROVE  ReadsAreFresh'
<1>1. CASE UNCHANGED vars
  BY <1>1 DEF vars, ReadsAreFresh, ReadsTransition, ReadsApproval, ReadsOther, CurrentState
<1>. QED
  BY <1>1, ArriveReadsFresh, ContinueReadsFresh, FinishIsFresh DEF Next, Abandon, Rest

-----------------------------------------------------------------------------
(***************************************************************************)
(* The refinement, step by step.  Every read and every refusal stutters;   *)
(* each commit is the action of WorkflowPromise it is named after.         *)
(***************************************************************************)
Verdicts == [p \in ApprovalIds |-> approvals[p].status]
Subjects == [p \in ApprovalIds |-> [record |-> approvals[p].record,
                                    target |-> approvals[p].target]]

LEMMA PromiseStutters ==
    ASSUME UNCHANGED <<workflow, records, approvals>>
    PROVE  UNCHANGED Promise!vars
BY DEF Promise!vars

LEMMA CreateIsCreate ==
    ASSUME TypeOK, ReadsAreFresh, NEW q \in Requests, CreateRecordCommit(q)
    PROVE  Promise!Next
<1>1. inflight[q] \in CreateReady
  BY LocalOfPc DEF TypeOK, CreateRecordCommit
<1>2. /\ inflight[q].record \in Records
      /\ records[inflight[q].record] = NoRecord
      /\ inflight[q].initial = IF workflow = None THEN None ELSE workflow.initial
  BY <1>1 DEF CreateReady, ReadsAreFresh, ReadsOther
<1>3. Promise!Create(inflight[q].record)
  BY <1>2 DEF CreateRecordCommit, Promise!Create
<1>. QED
  BY <1>2, <1>3 DEF Promise!Next

LEMMA MoveIsMove ==
    ASSUME TypeOK, ReadsAreFresh, NEW q \in Requests, TransitionRecordMove(q)
    PROVE  Promise!Next
<1> DEFINE local == inflight[q]
<1>1. local \in TransitionReady
  BY LocalOfPc DEF TypeOK, TransitionRecordMove
<1>2. /\ local.record \in Records
      /\ workflow # None
      /\ local.step \in workflow.transitions
      /\ local.step.from = CurrentState(workflow, records[local.record])
  BY <1>1 DEF TransitionReady, ReadsAreFresh, ReadsTransition
<1>3. Promise!StandsAt(local.record, local.step.from)
  BY <1>2 DEF Promise!StandsAt, CurrentState
<1>4. Promise!Move(local.record)
  BY <1>2, <1>3 DEF TransitionRecordMove, Promise!Move
<1>. QED
  BY <1>2, <1>4 DEF Promise!Next

LEMMA RequestIsAsk ==
    ASSUME TypeOK, ReadsAreFresh, NEW q \in Requests, TransitionRecordRequest(q)
    PROVE  Promise!Next
<1> DEFINE local == inflight[q]
           fresh == [status |-> "pending", requested_by |-> local.actor,
                     record |-> local.record, from |-> local.step.from,
                     target |-> local.step.to, decided_by |-> None]
           subject == [record |-> local.record, target |-> local.step.to]
<1>1. local \in TransitionReady
  BY LocalOfPc DEF TypeOK, TransitionRecordRequest
<1>2. /\ local.record \in Records
      /\ workflow # None
      /\ local.step \in workflow.transitions /\ local.step.gated
      /\ local.step.from = CurrentState(workflow, records[local.record])
  BY <1>1 DEF TransitionReady, ReadsAreFresh, ReadsTransition, TransitionRecordRequest
<1>3. PICK p \in ApprovalIds : /\ approvals[p].status = "absent"
                               /\ approvals' = [approvals EXCEPT ![p] = fresh]
  BY DEF TransitionRecordRequest
<1>4. Promise!StandsAt(local.record, local.step.from)
  BY <1>2 DEF Promise!StandsAt, CurrentState
<1>5. /\ fresh.status = "pending"
      /\ [record |-> fresh.record, target |-> fresh.target] = subject
  OBVIOUS
<1> HIDE DEF fresh
<1>6. /\ approvals'[p] = fresh
      /\ \A o \in ApprovalIds : o # p => approvals'[o] = approvals[o]
  BY <1>3 DEF TypeOK
<1>7. Verdicts' = [Verdicts EXCEPT ![p] = "pending"]
  BY <1>5, <1>6 DEF Verdicts
<1>8. Subjects' = [Subjects EXCEPT ![p] = subject]
  BY <1>5, <1>6 DEF Subjects
<1>9. UNCHANGED <<workflow, records>>
  BY DEF TransitionRecordRequest
<1>10. \E t \in workflow.transitions :
          /\ t.gated
          /\ Promise!StandsAt(local.record, t.from)
          /\ Subjects' = [Subjects EXCEPT ![p] = [record |-> local.record, target |-> t.to]]
  BY <1>2, <1>4, <1>8
<1>11. Verdicts[p] = "absent" /\ local.record \in Records /\ workflow # None
  BY <1>2, <1>3 DEF Verdicts
<1> HIDE DEF local
<1>12. \E o \in ApprovalIds, r \in Records :
          /\ Verdicts[o] = "absent"
          /\ workflow # None
          /\ \E t \in workflow.transitions :
                /\ t.gated
                /\ Promise!StandsAt(r, t.from)
                /\ Subjects' = [Subjects EXCEPT ![o] = [record |-> r, target |-> t.to]]
          /\ Verdicts' = [Verdicts EXCEPT ![o] = "pending"]
          /\ UNCHANGED <<workflow, records>>
  BY <1>7, <1>9, <1>10, <1>11
<1>13. \E o \in ApprovalIds, r \in Records : Promise!Ask(o, r)
  BY <1>12 DEF Promise!Ask, Verdicts, Subjects
<1>. QED
  BY <1>13 DEF Promise!Next

(* The columns of the approvals after a decision.                          *)
LEMMA DecisionMapped ==
    ASSUME TypeOK, NEW p \in ApprovalIds, NEW status, NEW a, SetDecision(p, status, a)
    PROVE  /\ Verdicts' = [Verdicts EXCEPT ![p] = status]
           /\ Subjects' = Subjects
<1>1. /\ approvals'[p].status = status
      /\ approvals'[p].record = approvals[p].record
      /\ approvals'[p].target = approvals[p].target
  BY DEF TypeOK, Approval, SetDecision
<1>2. \A o \in ApprovalIds : o # p => approvals'[o] = approvals[o]
  BY DEF TypeOK, SetDecision
<1>. QED
  BY <1>1, <1>2 DEF Verdicts, Subjects

LEMMA DecisionIsVerdict ==
    ASSUME TypeOK, ReadsAreFresh, NEW q \in Requests,
           DecideApprovalApprove(q) \/ DecideApprovalReject(q)
    PROVE  Promise!Next
<1> DEFINE p == inflight[q].approval
<1>1. inflight[q] \in DecideReady
  BY LocalOfPc DEF TypeOK, DecideApprovalApprove, DecideApprovalReject
<1>2. p \in ApprovalIds /\ Verdicts[p] = "pending"
  BY <1>1 DEF DecideReady, ReadsAreFresh, ReadsApproval, Verdicts
<1>3. Subjects[p].record = approvals[p].record /\ Subjects[p].target = approvals[p].target
  BY <1>2 DEF Subjects
<1>4. CASE DecideApprovalApprove(q)
  <2>1. /\ Verdicts' = [Verdicts EXCEPT ![p] = "approved"]
        /\ Subjects' = Subjects
    BY <1>2, <1>4, DecisionMapped DEF DecideApprovalApprove
  <2>2. /\ records' = [records EXCEPT ![Subjects[p].record] = Subjects[p].target]
        /\ UNCHANGED workflow
    BY <1>3, <1>4 DEF DecideApprovalApprove
  <2>3. \E o \in ApprovalIds : Promise!Approve(o)
    BY <1>2, <2>1, <2>2 DEF Promise!Approve, Verdicts, Subjects
  <2>. QED
    BY <2>3 DEF Promise!Next
<1>5. CASE DecideApprovalReject(q)
  <2>1. /\ Verdicts' = [Verdicts EXCEPT ![p] = "rejected"]
        /\ Subjects' = Subjects
    BY <1>2, <1>5, DecisionMapped DEF DecideApprovalReject
  <2>2. UNCHANGED <<workflow, records>>
    BY <1>5 DEF DecideApprovalReject
  <2>3. \E o \in ApprovalIds : Promise!Reject(o)
    BY <1>2, <2>1, <2>2 DEF Promise!Reject, Verdicts, Subjects
  <2>. QED
    BY <2>3 DEF Promise!Next
<1>. QED
  BY <1>4, <1>5

LEMMA StepKeepsPromise ==
    ASSUME TypeOK, ReadsAreFresh, [Next]_vars
    PROVE  [Promise!Next]_(Promise!vars)
<1>1. CASE UNCHANGED <<workflow, records, approvals>>
  BY <1>1, PromiseStutters
<1>2. ASSUME NEW q \in Requests, Arrive(q) PROVE [Promise!Next]_(Promise!vars)
  <2>1. ASSUME NEW a \in Actors, NEW d \in Definitions, CreateWorkflow(q, a, d)
        PROVE  [Promise!Next]_(Promise!vars)
    <3>1. CASE UNCHANGED workflow
      BY <1>1, <2>1, <3>1 DEF CreateWorkflow
    <3>2. CASE workflow' = d
      <4>1. UNCHANGED <<records, approvals>>
        BY <2>1 DEF CreateWorkflow
      <4>2. Promise!Install(d)
        BY <3>2, <4>1 DEF Promise!Install
      <4>. QED
        BY <4>2 DEF Promise!Next
    <3>. QED
      BY <2>1, <3>1, <3>2 DEF CreateWorkflow
  <2>. QED
    BY <1>1, <1>2, <2>1
    DEF Arrive, CreateRecordLoad, TransitionRecordLoad, DecideApprovalLoad, CreateTask,
        CompleteTaskLoad, tables
<1>3. ASSUME NEW q \in Requests, Continue(q) PROVE [Promise!Next]_(Promise!vars)
  BY <1>1, <1>3, CreateIsCreate, MoveIsMove, RequestIsAsk, DecisionIsVerdict
  DEF Continue, TransitionRecordResolve, TransitionRecordRefuse,
      DecideApprovalAuthorize, CompleteTaskCommit, tables
<1>. QED
  BY <1>1, <1>2, <1>3 DEF Next, Abandon, Rest, vars, tables

LEMMA InitKeepsPromise == Init => Promise!Init
BY DEF Init, NoApproval, Promise!Init, Promise!NoSubject

-----------------------------------------------------------------------------
(***************************************************************************)
(* The states handlers hold.  A transition and a decision remember the     *)
(* state their record was in, and write it into the audit log as the state *)
(* before the move; it has to be the record's state until then.            *)
(***************************************************************************)
StateStands(local) ==
    /\ local.pc = "transition.loaded" => local.seen = records[local.record]
    /\ local.pc = "transition.ready" /\ records[local.record] # None =>
         local.step.from = records[local.record]
    /\ local.pc = "decide.ready" =>
         local.before = records[approvals[local.approval].record]

HeldStatesStand == \A q \in Requests : StateStands(inflight[q])

\* The record of a running create is not stored, and nobody else creates it.
CreatesAlone ==
    \A q \in Requests : inflight[q].pc = "create.ready" =>
        /\ records[inflight[q].record] = NoRecord
        /\ \A other \in Requests \ {q} : inflight[other].pc = "create.ready" =>
              inflight[other].record # inflight[q].record

LEMMA FreshStands ==
    ASSUME TypeOK, ReadsAreFresh
    PROVE  HeldStatesStand
<1>. SUFFICES ASSUME NEW q \in Requests PROVE StateStands(inflight[q])
  BY DEF HeldStatesStand
<1>1. ReadsTransition(inflight[q]) /\ ReadsApproval(inflight[q])
  BY DEF ReadsAreFresh
<1>. QED
  BY <1>1 DEF ReadsTransition, ReadsApproval, StateStands, CurrentState

LEMMA CreatesStayAlone ==
    ASSUME WellFormed, CreatesAlone, [Next]_vars
    PROVE  CreatesAlone'
<1>. TypeOK
  BY DEF WellFormed
<1>. DEFINE Creating(q) == inflight[q].pc = "create.ready"
(* A create that goes on finds its record as it was.                       *)
<1>1. ASSUME NEW q \in Requests, Creating(q), inflight'[q] = inflight[q]
      PROVE  records'[inflight[q].record] = NoRecord
  <2> DEFINE r == inflight[q].record
  <2>1. r \in Records /\ records[r] = NoRecord
    BY <1>1, LocalOfPc DEF TypeOK, CreateReady, CreatesAlone
  <2> HIDE DEF r
  <2>2. ASSUME NEW o \in Requests, CreateRecordCommit(o) PROVE records'[r] = records[r]
    <3>1. inflight'[o].pc = "idle" /\ Creating(o)
      BY <2>2 DEF TypeOK, CreateRecordCommit, Finish, Idle
    <3>2. o # q
      BY <1>1, <3>1
    <3>3. inflight[o].record # r
      BY <1>1, <3>1, <3>2 DEF CreatesAlone, r
    <3>4. inflight[o].record \in Records
      BY <3>1, LocalOfPc DEF TypeOK, CreateReady
    <3>. QED
      BY <2>1, <2>2, <3>3, <3>4 DEF TypeOK, CreateRecordCommit
  <2>3. ASSUME NEW o \in Requests, TransitionRecordMove(o) PROVE records'[r] = records[r]
    <3>1. inflight[o] \in TransitionReady
      BY <2>3, LocalOfPc DEF TypeOK, TransitionRecordMove
    <3>2. inflight[o].record \in Records /\ records[inflight[o].record] # NoRecord
      BY <3>1 DEF TransitionReady, WellFormed, HandlersHoldRows
    <3>. QED
      BY <2>1, <2>3, <3>2 DEF TypeOK, TransitionRecordMove
  <2>4. ASSUME NEW o \in Requests, DecideApprovalApprove(o) PROVE records'[r] = records[r]
    <3> DEFINE m == approvals[inflight[o].approval].record
    <3>1. inflight[o] \in DecideReady
      BY <2>4, LocalOfPc DEF TypeOK, DecideApprovalApprove
    <3>2. m \in Records /\ records[m] # NoRecord
      BY <3>1
      DEF WellFormed, ApprovalsFilled, HandlersHoldRows, FilledApproval, DecideReady
    <3>. QED
      BY <2>1, <2>4, <3>2 DEF TypeOK, DecideApprovalApprove
  <2>5. records'[r] = records[r]
    BY <2>2, <2>3, <2>4, StepKinds
    DEF Quiet, TransitionRecordRequest, DecideApprovalReject
  <2>. QED
    BY <2>1, <2>5 DEF r
(* A create that begins has an id that is neither stored nor held.         *)
<1>2. ASSUME NEW q \in Requests, inflight'[q].pc = "create.ready", inflight'[q] # inflight[q]
      PROVE  /\ records'[inflight'[q].record] = NoRecord
             /\ \A other \in Requests \ {q} :
                   /\ inflight'[other] = inflight[other]
                   /\ Creating(other) => inflight[other].record # inflight'[q].record
  <2>1. PICK a \in Actors, r \in Records : CreateRecordLoad(q, a, r)
    BY <1>2, HandlerBegins
  <2>2. inflight'[q].record = r /\ \A other \in Requests \ {q} : inflight'[other] = inflight[other]
    BY <1>2, <2>1 DEF TypeOK, CreateRecordLoad, Proceed
  <2>3. ASSUME NEW other \in Requests, Creating(other) PROVE inflight[other].record # r
    <3>1. inflight[other] \in CreateReady
      BY <2>3, LocalOfPc DEF TypeOK
    <3>. QED
      BY <2>1, <3>1 DEF CreateRecordLoad
  <2>. QED
    BY <2>1, <2>2, <2>3 DEF CreateRecordLoad
<1>. HIDE DEF Creating
<1>. SUFFICES ASSUME NEW q \in Requests, inflight'[q].pc = "create.ready"
              PROVE  /\ records'[inflight'[q].record] = NoRecord
                     /\ \A other \in Requests \ {q} : inflight'[other].pc = "create.ready" =>
                           inflight'[other].record # inflight'[q].record
  BY DEF CreatesAlone
<1>3. CASE inflight'[q] = inflight[q]
  <2>1. Creating(q)
    BY <1>3 DEF Creating
  <2>2. ASSUME NEW other \in Requests \ {q}, inflight'[other].pc = "create.ready"
        PROVE  inflight'[other].record # inflight'[q].record
    <3>1. CASE inflight'[other] = inflight[other]
      BY <1>3, <2>1, <2>2, <3>1 DEF CreatesAlone, Creating
    <3>2. CASE inflight'[other] # inflight[other]
      BY <1>2, <1>3, <2>1, <2>2, <3>2
    <3>. QED
      BY <3>1, <3>2
  <2>. QED
    BY <1>1, <1>3, <2>1, <2>2
<1>4. CASE inflight'[q] # inflight[q]
  <2>1. ASSUME NEW other \in Requests \ {q}, inflight'[other].pc = "create.ready"
        PROVE  inflight'[other].record # inflight'[q].record
    BY <1>2, <1>4, <2>1 DEF Creating
  <2>. QED
    BY <1>2, <1>4, <2>1
<1>. QED
  BY <1>3, <1>4

-----------------------------------------------------------------------------
(***************************************************************************)
(* The chain of a record's moves, its last link being the present state.   *)
(***************************************************************************)
MovesRow(row, r) == row.action = "workflow.transition" /\ row.target = r

Linked(log, r) ==
    \A i, j \in DOMAIN log :
        (/\ i < j
         /\ MovesRow(log[i], r) /\ MovesRow(log[j], r)
         /\ \A k \in (i + 1)..(j - 1) : ~MovesRow(log[k], r))
        => log[i].after = log[j].before

EndsAt(log, r, state) ==
    \A i \in DOMAIN log :
        (MovesRow(log[i], r) /\ \A k \in (i + 1)..Len(log) : ~MovesRow(log[k], r))
        => log[i].after = state /\ state # None

Chained ==
    \A r \in Records : Linked(audit_logs, r) /\ EndsAt(audit_logs, r, records[r])

LEMMA ChainStays ==
    ASSUME NEW S, NEW log \in Seq(S), NEW log2 \in Seq(S), NEW r, NEW state,
           Grown(log, log2),
           \A i \in (Len(log) + 1)..Len(log2) : ~MovesRow(log2[i], r),
           Linked(log, r), EndsAt(log, r, state)
    PROVE  Linked(log2, r) /\ EndsAt(log2, r, state)
<1>1. \A i \in DOMAIN log2 : MovesRow(log2[i], r) => i \in 1..Len(log) /\ log2[i] = log[i]
  BY DEF Grown
<1>2. \A i \in 1..Len(log) : log2[i] = log[i] /\ i \in DOMAIN log
  BY DEF Grown
<1>3. Len(log) \in Nat /\ Len(log2) \in Nat /\ Len(log) <= Len(log2)
  BY DEF Grown
<1>4. Linked(log2, r)
  <2>. SUFFICES ASSUME NEW i \in DOMAIN log2, NEW j \in DOMAIN log2, i < j,
                       MovesRow(log2[i], r), MovesRow(log2[j], r),
                       \A k \in (i + 1)..(j - 1) : ~MovesRow(log2[k], r)
                PROVE  log2[i].after = log2[j].before
    BY DEF Linked
  <2>1. /\ i \in DOMAIN log /\ j \in DOMAIN log
        /\ log2[i] = log[i] /\ log2[j] = log[j]
    BY <1>1, <1>2
  <2>2. \A k \in (i + 1)..(j - 1) : ~MovesRow(log[k], r)
    BY <1>2, <1>3, <2>1
  <2>. QED
    BY <2>1, <2>2 DEF Linked
<1>5. EndsAt(log2, r, state)
  <2>. SUFFICES ASSUME NEW i \in DOMAIN log2, MovesRow(log2[i], r),
                       \A k \in (i + 1)..Len(log2) : ~MovesRow(log2[k], r)
                PROVE  log2[i].after = state /\ state # None
    BY DEF EndsAt
  <2>1. i \in DOMAIN log /\ log2[i] = log[i]
    BY <1>1, <1>2
  <2>2. \A k \in (i + 1)..Len(log) : ~MovesRow(log[k], r)
    BY <1>2, <1>3, <2>1
  <2>. QED
    BY <2>1, <2>2 DEF EndsAt
<1>. QED
  BY <1>4, <1>5

(* A move from the state the chain ends at is its next link.               *)
LEMMA ChainGrows ==
    ASSUME NEW S, NEW log \in Seq(S), NEW row \in S, NEW r, NEW state,
           Linked(log, r), EndsAt(log, r, state),
           MovesRow(row, r), state # None => row.before = state, row.after # None
    PROVE  /\ Linked(Append(log, row), r)
           /\ EndsAt(Append(log, row), r, row.after)
<1> DEFINE log2 == Append(log, row)
           n == Len(log) + 1
<1>1. /\ n \in Nat /\ Len(log) \in Nat /\ Len(log2) = n
      /\ log2[n] = row /\ DOMAIN log2 = 1..n
      /\ \A i \in 1..Len(log) : log2[i] = log[i] /\ i \in DOMAIN log
  OBVIOUS
<1>2. Linked(log2, r)
  <2>. SUFFICES ASSUME NEW i \in 1..n, NEW j \in 1..n, i < j,
                       MovesRow(log2[i], r), MovesRow(log2[j], r),
                       \A k \in (i + 1)..(j - 1) : ~MovesRow(log2[k], r)
                PROVE  log2[i].after = log2[j].before
    BY <1>1 DEF Linked
  <2>1. i \in 1..Len(log) /\ log2[i] = log[i]
    BY <1>1
  <2>2. CASE j = n
    <3>1. \A k \in (i + 1)..Len(log) : ~MovesRow(log[k], r)
      BY <1>1, <2>1, <2>2
    <3>2. log[i].after = state /\ state # None
      BY <1>1, <2>1, <3>1 DEF EndsAt
    <3>. QED
      BY <1>1, <2>1, <2>2, <3>2
  <2>3. CASE j # n
    <3>1. j \in 1..Len(log) /\ log2[j] = log[j]
      BY <1>1, <2>3
    <3>2. \A k \in (i + 1)..(j - 1) : ~MovesRow(log[k], r)
      BY <1>1, <2>1, <3>1
    <3>. QED
      BY <1>1, <2>1, <3>1, <3>2 DEF Linked
  <2>. QED
    BY <2>2, <2>3
<1>3. EndsAt(log2, r, row.after)
  <2>. SUFFICES ASSUME NEW i \in 1..n, MovesRow(log2[i], r),
                       \A k \in (i + 1)..n : ~MovesRow(log2[k], r)
                PROVE  log2[i].after = row.after
    BY <1>1 DEF EndsAt
  <2>1. i = n
    BY <1>1
  <2>. QED
    BY <1>1, <2>1
<1>. QED
  BY <1>2, <1>3

(* A record without a row was never moved.                                 *)
LEMMA ChainOfNothing ==
    ASSUME TypeOK, TrailsTold, NEW r \in Records, records[r] = NoRecord, NEW state
    PROVE  EndsAt(audit_logs, r, state)
BY DEF TrailsTold, Trail, SetsState, EndsAt, MovesRow

(* A step whose rows do not move record r.                                 *)
LEMMA OtherChainStays ==
    ASSUME TypeOK, TypeOK', TrailsTold, Chained, NEW r \in Records,
           records'[r] = records[r] \/ records[r] = NoRecord,
           Grown(audit_logs, audit_logs'),
           \A i \in (Len(audit_logs) + 1)..Len(audit_logs') : ~MovesRow(audit_logs'[i], r)
    PROVE  Linked(audit_logs', r) /\ EndsAt(audit_logs', r, records'[r])
<1>1. audit_logs \in Seq(AuditRow) /\ audit_logs' \in Seq(AuditRow)
  BY DEF TypeOK
<1>2. Linked(audit_logs, r) /\ EndsAt(audit_logs, r, records[r])
  BY DEF Chained
<1>3. EndsAt(audit_logs, r, records'[r])
  <2>1. CASE records'[r] = records[r]
    BY <1>2, <2>1
  <2>2. CASE records[r] = NoRecord
    <3>1. ASSUME NEW state PROVE EndsAt(audit_logs, r, state)
      BY <2>2, ChainOfNothing
    <3>. QED
      BY <3>1
  <2>. QED
    BY <2>1, <2>2
<1>4. ASSUME NEW state, EndsAt(audit_logs, r, state)
      PROVE  Linked(audit_logs', r) /\ EndsAt(audit_logs', r, state)
  BY <1>1, <1>2, <1>4, ChainStays
<1>. QED
  BY <1>3, <1>4

LEMMA RowKeepsOtherChain ==
    ASSUME TypeOK, TypeOK', TrailsTold, Chained, NEW r \in Records,
           records'[r] = records[r] \/ records[r] = NoRecord,
           NEW row \in AuditRow, audit_logs' = Append(audit_logs, row), ~MovesRow(row, r)
    PROVE  Linked(audit_logs', r) /\ EndsAt(audit_logs', r, records'[r])
<1>1. /\ Grown(audit_logs, audit_logs')
      /\ Len(audit_logs') = Len(audit_logs) + 1
      /\ audit_logs'[Len(audit_logs) + 1] = row
      /\ Len(audit_logs) \in Nat
  BY AppendGrows DEF TypeOK
<1>2. \A i \in (Len(audit_logs) + 1)..Len(audit_logs') : ~MovesRow(audit_logs'[i], r)
  BY <1>1
<1>. QED
  BY <1>1, <1>2, OtherChainStays

LEMMA MoveKeepsChains ==
    ASSUME TypeOK, TypeOK', TrailsTold, Chained, NEW m \in Records, NEW row \in AuditRow,
           MovesRow(row, m), row.after \in States,
           records[m] # None => row.before = records[m],
           records' = [records EXCEPT ![m] = row.after],
           audit_logs' = Append(audit_logs, row)
    PROVE  Chained'
<1>1. ASSUME NEW r \in Records, r # m
      PROVE  Linked(audit_logs', r) /\ EndsAt(audit_logs', r, records'[r])
  <2>1. records'[r] = records[r] /\ ~MovesRow(row, r)
    BY <1>1 DEF TypeOK, MovesRow
  <2>. QED
    BY <2>1, RowKeepsOtherChain
<1>2. Linked(audit_logs', m) /\ EndsAt(audit_logs', m, records'[m])
  <2>1. audit_logs \in Seq(AuditRow) /\ records'[m] = row.after /\ row.after # None
    BY ConstantsAssumption DEF TypeOK
  <2>2. Linked(audit_logs, m) /\ EndsAt(audit_logs, m, records[m])
    BY DEF Chained
  <2>3. Linked(Append(audit_logs, row), m) /\ EndsAt(Append(audit_logs, row), m, row.after)
    BY <2>1, <2>2, ChainGrows
  <2>. QED
    BY <2>1, <2>3
<1>. QED
  BY <1>1, <1>2 DEF Chained

(* A direct move starts from the record's state, or from the initial one.  *)
LEMMA DirectMoveKeepsChains ==
    ASSUME WellFormed, TypeOK', TrailsTold, Chained, HeldStatesStand,
           NEW q \in Requests, TransitionRecordMove(q)
    PROVE  Chained'
<1>. TypeOK
  BY DEF WellFormed
<1> DEFINE local == inflight[q]
           row == Row("workflow.transition", local.actor, local.record,
                      local.step.from, local.step.to, None)
<1>1. local \in TransitionReady
  BY LocalOfPc DEF TypeOK, TransitionRecordMove
<1>2. /\ local.record \in Records /\ local.step.to \in States
      /\ records[local.record] # None => local.step.from = records[local.record]
  BY <1>1 DEF TransitionReady, Transition, HeldStatesStand, StateStands
<1>3. row \in AuditRow /\ MovesRow(row, local.record)
  BY <1>1 DEF Row, AuditRow, TransitionReady, Transition, MovesRow
<1>4. row.after = local.step.to /\ row.before = local.step.from
  BY DEF Row
<1>5. /\ audit_logs' = Append(audit_logs, row)
      /\ records' = [records EXCEPT ![local.record] = local.step.to]
  BY DEF TransitionRecordMove, Audit
<1> HIDE DEF row
<1>. QED
  BY <1>2, <1>3, <1>4, <1>5, MoveKeepsChains

LEMMA ApprovedMoveKeepsChains ==
    ASSUME WellFormed, TypeOK', TrailsTold, Chained, HeldStatesStand,
           NEW q \in Requests, DecideApprovalApprove(q)
    PROVE  Chained'
<1>. TypeOK
  BY DEF WellFormed
<1> DEFINE local == inflight[q]
           approval == approvals[local.approval]
           row == Row("workflow.transition", local.actor, approval.record,
                      local.before, approval.target, local.approval)
<1>1. local \in DecideReady
  BY LocalOfPc DEF TypeOK, DecideApprovalApprove
<1>2. approval.record \in Records /\ approval.target \in States
  BY <1>1 DEF WellFormed, ApprovalsFilled, HandlersHoldRows, FilledApproval, DecideReady
<1>3. local.before = records[approval.record]
  BY <1>1 DEF DecideReady, HeldStatesStand, StateStands
<1>4. row \in AuditRow /\ MovesRow(row, approval.record)
  BY <1>1, <1>2 DEF Row, AuditRow, DecideReady, MovesRow
<1>5. row.after = approval.target /\ row.before = local.before
  BY DEF Row
<1>6. /\ audit_logs' = Append(audit_logs, row)
      /\ records' = [records EXCEPT ![approval.record] = approval.target]
  BY DEF DecideApprovalApprove, Audit
<1> HIDE DEF row, approval
<1>. QED
  BY <1>2, <1>3, <1>4, <1>5, <1>6, MoveKeepsChains

(* The commits that move nothing.                                          *)
LEMMA CreateKeepsChains ==
    ASSUME TypeOK, TypeOK', TrailsTold, Chained, CreatesAlone,
           NEW q \in Requests, CreateRecordCommit(q)
    PROVE  Chained'
<1> DEFINE local == inflight[q]
           row == Row("record.create", local.actor, local.record, None, None, None)
<1>1. local \in CreateReady
  BY LocalOfPc DEF TypeOK, CreateRecordCommit
<1>2. local.record \in Records /\ records[local.record] = NoRecord
  BY <1>1 DEF CreateReady, CreatesAlone
<1>3. row \in AuditRow /\ row.action = "record.create"
  BY <1>1 DEF Row, AuditRow, CreateReady
<1>4. /\ audit_logs' = Append(audit_logs, row)
      /\ records' = [records EXCEPT ![local.record] = local.initial]
  BY DEF CreateRecordCommit, Audit
<1> HIDE DEF row
<1>5. \A r \in Records : records'[r] = records[r] \/ records[r] = NoRecord
  BY <1>2, <1>4 DEF TypeOK
<1>6. \A r \in Records : ~MovesRow(row, r)
  BY <1>3 DEF MovesRow
<1>. QED
  BY <1>3, <1>4, <1>5, <1>6, RowKeepsOtherChain DEF Chained

LEMMA RequestKeepsChains ==
    ASSUME TypeOK, TypeOK', TrailsTold, Chained,
           NEW q \in Requests, TransitionRecordRequest(q)
    PROVE  Chained'
<1> DEFINE local == inflight[q]
           row(p) == Row("workflow.transition.requested", local.actor, local.record,
                         local.step.from, local.step.to, p)
<1>1. local \in TransitionReady
  BY LocalOfPc DEF TypeOK, TransitionRecordRequest
<1>2. PICK p \in ApprovalIds : Audit(row(p))
  BY DEF TransitionRecordRequest
<1>3. row(p) \in AuditRow /\ row(p).action = "workflow.transition.requested"
  BY <1>1 DEF Row, AuditRow, TransitionReady, Transition
<1>4. audit_logs' = Append(audit_logs, row(p)) /\ UNCHANGED records
  BY <1>2 DEF TransitionRecordRequest, Audit
<1> HIDE DEF row
<1>5. \A r \in Records : ~MovesRow(row(p), r)
  BY <1>3 DEF MovesRow
<1>. QED
  BY <1>3, <1>4, <1>5, RowKeepsOtherChain DEF Chained

LEMMA RejectKeepsChains ==
    ASSUME WellFormed, TypeOK', TrailsTold, Chained,
           NEW q \in Requests, DecideApprovalReject(q)
    PROVE  Chained'
<1>. TypeOK
  BY DEF WellFormed
<1> DEFINE local == inflight[q]
           row == Row("approval.reject", local.actor, approvals[local.approval].record,
                      None, None, local.approval)
<1>1. local \in DecideReady
  BY LocalOfPc DEF TypeOK, DecideApprovalReject
<1>2. approvals[local.approval].record \in Records
  BY <1>1 DEF WellFormed, ApprovalsFilled, HandlersHoldRows, FilledApproval, DecideReady
<1>3. row \in AuditRow /\ row.action = "approval.reject"
  BY <1>1, <1>2 DEF Row, AuditRow, DecideReady
<1>4. audit_logs' = Append(audit_logs, row) /\ UNCHANGED records
  BY DEF DecideApprovalReject, Audit
<1> HIDE DEF row
<1>5. \A r \in Records : ~MovesRow(row, r)
  BY <1>3 DEF MovesRow
<1>. QED
  BY <1>3, <1>4, <1>5, RowKeepsOtherChain DEF Chained

LEMMA QuietKeepsChains ==
    ASSUME TypeOK, TypeOK', TrailsTold, Chained, Quiet
    PROVE  Chained'
<1>1. /\ Grown(audit_logs, audit_logs')
      /\ \A r \in Records : \A i \in (Len(audit_logs) + 1)..Len(audit_logs') :
            ~MovesRow(audit_logs'[i], r)
  BY DEF Quiet, AddsNoTrail, TrailActions, MovesRow
<1>. QED
  BY <1>1, OtherChainStays DEF Chained, Quiet

LEMMA NextChained ==
    ASSUME WellFormed, TrailsTold, Chained, HeldStatesStand, CreatesAlone, [Next]_vars
    PROVE  Chained'
<1>1. TypeOK /\ TypeOK'
  BY NextTypeOK DEF WellFormed
<1>. QED
  BY <1>1, StepKinds, QuietKeepsChains, CreateKeepsChains, DirectMoveKeepsChains,
     ApprovedMoveKeepsChains, RequestKeepsChains, RejectKeepsChains

-----------------------------------------------------------------------------
(***************************************************************************)
(* The one row that moves a record for an approved approval.               *)
(***************************************************************************)
MovesFor(row, p) == row.action = "workflow.transition" /\ row.approval = p

MovedOnce(log, p, status) ==
    IF status = "approved"
    THEN \E i \in DOMAIN log : /\ MovesFor(log[i], p)
                               /\ \A j \in DOMAIN log : MovesFor(log[j], p) => j = i
    ELSE \A i \in DOMAIN log : ~MovesFor(log[i], p)

MovedAsApproved ==
    \A p \in ApprovalIds : MovedOnce(audit_logs, p, approvals[p].status)

LEMMA MovedOnceSays ==
    MovedAsApproved => ApprovedExactlyWhenMoved
<1>. SUFFICES ASSUME MovedAsApproved, NEW p \in ApprovalIds
              PROVE  Cardinality({i \in DOMAIN audit_logs :
                                    /\ audit_logs[i].action = "workflow.transition"
                                    /\ audit_logs[i].approval = p})
                       = IF approvals[p].status = "approved" THEN 1 ELSE 0
  BY DEF ApprovedExactlyWhenMoved
<1> DEFINE moved == {i \in DOMAIN audit_logs :
                       /\ audit_logs[i].action = "workflow.transition"
                       /\ audit_logs[i].approval = p}
<1>1. CASE approvals[p].status = "approved"
  <2>1. PICK i \in DOMAIN audit_logs :
           /\ MovesFor(audit_logs[i], p)
           /\ \A j \in DOMAIN audit_logs : MovesFor(audit_logs[j], p) => j = i
    BY <1>1 DEF MovedAsApproved, MovedOnce
  <2>2. moved = {i}
    BY <2>1 DEF MovesFor
  <2>3. Cardinality(moved) = 1
    BY <2>2, FS_Singleton
  <2>. QED
    BY <1>1, <2>3
<1>2. CASE approvals[p].status # "approved"
  <2>1. moved = {}
    BY <1>2 DEF MovedAsApproved, MovedOnce, MovesFor
  <2>2. Cardinality(moved) = 0
    BY <2>1, FS_EmptySet
  <2>. QED
    BY <1>2, <2>2
<1>. QED
  BY <1>1, <1>2

LEMMA MovedOnceStays ==
    ASSUME NEW S, NEW log \in Seq(S), NEW log2 \in Seq(S), NEW p, NEW status, NEW status2,
           Grown(log, log2), status2 = "approved" <=> status = "approved",
           \A i \in (Len(log) + 1)..Len(log2) : ~MovesFor(log2[i], p),
           MovedOnce(log, p, status)
    PROVE  MovedOnce(log2, p, status2)
<1>1. \A i \in DOMAIN log2 : MovesFor(log2[i], p) => i \in DOMAIN log /\ log2[i] = log[i]
  BY DEF Grown
<1>2. \A i \in DOMAIN log : i \in DOMAIN log2 /\ log2[i] = log[i]
  BY DEF Grown
<1>. QED
  BY <1>1, <1>2 DEF MovedOnce

LEMMA MovedOnceByApproval ==
    ASSUME NEW S, NEW log \in Seq(S), NEW row \in S, NEW p, NEW status,
           status # "approved", MovedOnce(log, p, status), MovesFor(row, p)
    PROVE  MovedOnce(Append(log, row), p, "approved")
<1> DEFINE log2 == Append(log, row)
           n == Len(log) + 1
<1>1. /\ n \in DOMAIN log2 /\ log2[n] = row
      /\ \A i \in DOMAIN log2 : i = n \/ (i \in DOMAIN log /\ log2[i] = log[i])
  OBVIOUS
<1> HIDE DEF log2, n
<1>2. MovedOnce(log2, p, "approved")
  BY <1>1 DEF MovedOnce
<1>. QED
  BY <1>2 DEF log2

LEMMA RowKeepsMoved ==
    ASSUME TypeOK, TypeOK', MovedAsApproved, NEW p \in ApprovalIds,
           approvals'[p].status = "approved" <=> approvals[p].status = "approved",
           NEW row \in AuditRow, audit_logs' = Append(audit_logs, row), ~MovesFor(row, p)
    PROVE  MovedOnce(audit_logs', p, approvals'[p].status)
<1>1. /\ Grown(audit_logs, audit_logs')
      /\ Len(audit_logs') = Len(audit_logs) + 1
      /\ audit_logs'[Len(audit_logs) + 1] = row
      /\ Len(audit_logs) \in Nat
      /\ audit_logs \in Seq(AuditRow) /\ audit_logs' \in Seq(AuditRow)
  BY AppendGrows DEF TypeOK
<1>2. \A i \in (Len(audit_logs) + 1)..Len(audit_logs') : ~MovesFor(audit_logs'[i], p)
  BY <1>1
<1>3. MovedOnce(audit_logs, p, approvals[p].status)
  BY DEF MovedAsApproved
<1>. QED
  BY <1>1, <1>2, <1>3, MovedOnceStays

(* The rows of the commits that move nothing for an approval.              *)
LEMMA CreateRow ==
    ASSUME TypeOK, NEW q \in Requests, CreateRecordCommit(q)
    PROVE  \E row \in AuditRow : /\ audit_logs' = Append(audit_logs, row)
                                 /\ row.action = "record.create"
<1> DEFINE row == Row("record.create", inflight[q].actor, inflight[q].record,
                      None, None, None)
<1>1. inflight[q] \in CreateReady
  BY LocalOfPc DEF TypeOK, CreateRecordCommit
<1>2. row \in AuditRow /\ row.action = "record.create"
  BY <1>1 DEF Row, AuditRow, CreateReady
<1>3. audit_logs' = Append(audit_logs, row)
  BY DEF CreateRecordCommit, Audit
<1> HIDE DEF row
<1>. QED
  BY <1>2, <1>3

LEMMA DirectMoveRow ==
    ASSUME TypeOK, NEW q \in Requests, TransitionRecordMove(q)
    PROVE  \E row \in AuditRow : /\ audit_logs' = Append(audit_logs, row)
                                 /\ row.approval = None
<1> DEFINE local == inflight[q]
           row == Row("workflow.transition", local.actor, local.record,
                      local.step.from, local.step.to, None)
<1>1. local \in TransitionReady
  BY LocalOfPc DEF TypeOK, TransitionRecordMove
<1>2. row \in AuditRow /\ row.approval = None
  BY <1>1 DEF Row, AuditRow, TransitionReady, Transition
<1>3. audit_logs' = Append(audit_logs, row)
  BY DEF TransitionRecordMove, Audit
<1> HIDE DEF row
<1>. QED
  BY <1>2, <1>3

LEMMA RequestRow ==
    ASSUME TypeOK, NEW q \in Requests, TransitionRecordRequest(q)
    PROVE  /\ \E row \in AuditRow : /\ audit_logs' = Append(audit_logs, row)
                                    /\ row.action = "workflow.transition.requested"
           /\ \A p \in ApprovalIds : \/ approvals'[p] = approvals[p]
                                     \/ /\ approvals[p].status = "absent"
                                        /\ approvals'[p].status = "pending"
<1> DEFINE local == inflight[q]
           row(p) == Row("workflow.transition.requested", local.actor, local.record,
                         local.step.from, local.step.to, p)
           fresh == [status |-> "pending", requested_by |-> local.actor,
                     record |-> local.record, from |-> local.step.from,
                     target |-> local.step.to, decided_by |-> None]
<1>1. local \in TransitionReady
  BY LocalOfPc DEF TypeOK, TransitionRecordRequest
<1>2. PICK p \in ApprovalIds : /\ approvals[p].status = "absent"
                               /\ approvals' = [approvals EXCEPT ![p] = fresh]
                               /\ audit_logs' = Append(audit_logs, row(p))
  BY DEF TransitionRecordRequest, Audit
<1>3. row(p) \in AuditRow /\ row(p).action = "workflow.transition.requested"
  BY <1>1 DEF Row, AuditRow, TransitionReady, Transition
<1>4. fresh.status = "pending"
  OBVIOUS
<1> HIDE DEF row, fresh
<1>. QED
  BY <1>2, <1>3, <1>4 DEF TypeOK

\* The approval a decision is under way for is still pending.
StillPending ==
    \A q \in Requests : inflight[q].pc \in {"decide.loaded", "decide.ready"} =>
        approvals[inflight[q].approval].status = "pending"

LEMMA FreshIsPending == ReadsAreFresh => StillPending
BY DEF ReadsAreFresh, ReadsApproval, StillPending

LEMMA DecisionRow ==
    ASSUME WellFormed, StillPending, NEW q \in Requests,
           DecideApprovalApprove(q) \/ DecideApprovalReject(q)
    PROVE  /\ inflight[q].approval \in ApprovalIds
           /\ approvals[inflight[q].approval].status = "pending"
           /\ approvals'[inflight[q].approval].status =
                IF DecideApprovalApprove(q) THEN "approved" ELSE "rejected"
           /\ \A p \in ApprovalIds : p # inflight[q].approval =>
                approvals'[p] = approvals[p]
           /\ \E row \in AuditRow : /\ audit_logs' = Append(audit_logs, row)
                                    /\ row.approval = inflight[q].approval
                                    /\ row.action = IF DecideApprovalApprove(q)
                                                    THEN "workflow.transition"
                                                    ELSE "approval.reject"
<1>. TypeOK
  BY DEF WellFormed
<1> DEFINE local == inflight[q]
           p == local.approval
           approving == Row("workflow.transition", local.actor, approvals[p].record,
                            local.before, approvals[p].target, p)
           rejecting == Row("approval.reject", local.actor, approvals[p].record,
                            None, None, p)
<1>1. local \in DecideReady /\ local.pc = "decide.ready"
  BY LocalOfPc DEF TypeOK, DecideApprovalApprove, DecideApprovalReject
<1>2. p \in ApprovalIds /\ approvals[p].status = "pending"
  BY <1>1 DEF DecideReady, StillPending
<1>3. approvals[p].record \in Records /\ approvals[p].target \in States
  BY <1>2 DEF WellFormed, ApprovalsFilled, FilledApproval
<1>4. /\ approving \in AuditRow /\ approving.approval = p
      /\ approving.action = "workflow.transition"
      /\ rejecting \in AuditRow /\ rejecting.approval = p
      /\ rejecting.action = "approval.reject"
  BY <1>1, <1>2, <1>3 DEF Row, AuditRow, DecideReady
<1>5. ~(DecideApprovalApprove(q) /\ DecideApprovalReject(q))
  BY DEF DecideApprovalApprove, DecideApprovalReject
<1>6. ASSUME NEW status, SetDecision(p, status, local.actor)
      PROVE  /\ approvals'[p].status = status
             /\ \A o \in ApprovalIds : o # p => approvals'[o] = approvals[o]
  BY <1>2, <1>6 DEF TypeOK, Approval, SetDecision
<1>7. CASE DecideApprovalApprove(q)
  <2>1. audit_logs' = Append(audit_logs, approving) /\ SetDecision(p, "approved", local.actor)
    BY <1>7 DEF DecideApprovalApprove, Audit
  <2> HIDE DEF approving, rejecting
  <2>. QED
    BY <1>2, <1>4, <1>6, <1>7, <2>1
<1>8. CASE DecideApprovalReject(q)
  <2>1. audit_logs' = Append(audit_logs, rejecting) /\ SetDecision(p, "rejected", local.actor)
    BY <1>8 DEF DecideApprovalReject, Audit
  <2> HIDE DEF approving, rejecting
  <2>. QED
    BY <1>2, <1>4, <1>5, <1>6, <1>8, <2>1
<1>. QED
  BY <1>7, <1>8

LEMMA NextMovedAsApproved ==
    ASSUME WellFormed, StillPending, MovedAsApproved, [Next]_vars
    PROVE  MovedAsApproved'
<1>1. TypeOK /\ TypeOK'
  BY NextTypeOK DEF WellFormed
<1>2. CASE Quiet
  <2>1. /\ Grown(audit_logs, audit_logs')
        /\ \A p \in ApprovalIds : \A i \in (Len(audit_logs) + 1)..Len(audit_logs') :
              ~MovesFor(audit_logs'[i], p)
    BY <1>2 DEF Quiet, AddsNoTrail, TrailActions, MovesFor
  <2>2. audit_logs \in Seq(AuditRow) /\ audit_logs' \in Seq(AuditRow)
    BY <1>1 DEF TypeOK
  <2>3. ASSUME NEW p \in ApprovalIds
        PROVE  MovedOnce(audit_logs', p, approvals'[p].status)
    <3>1. MovedOnce(audit_logs, p, approvals[p].status) /\ approvals' = approvals
      BY <1>2 DEF MovedAsApproved, Quiet
    <3>. QED
      BY <2>1, <2>2, <3>1, MovedOnceStays
  <2>. QED
    BY <2>3 DEF MovedAsApproved
<1>3. ASSUME NEW q \in Requests, CreateRecordCommit(q) PROVE MovedAsApproved'
  <2>1. UNCHANGED approvals
    BY <1>3 DEF CreateRecordCommit
  <2>. QED
    BY <1>1, <1>3, <2>1, CreateRow, RowKeepsMoved DEF MovedAsApproved, MovesFor
<1>4. ASSUME NEW q \in Requests, TransitionRecordMove(q) PROVE MovedAsApproved'
  <2>1. UNCHANGED approvals
    BY <1>4 DEF TransitionRecordMove
  <2>2. PICK row \in AuditRow : audit_logs' = Append(audit_logs, row) /\ row.approval = None
    BY <1>1, <1>4, DirectMoveRow
  <2>3. \A p \in ApprovalIds : ~MovesFor(row, p)
    BY <2>2, ConstantsAssumption DEF MovesFor
  <2>. QED
    BY <1>1, <2>1, <2>2, <2>3, RowKeepsMoved DEF MovedAsApproved
<1>5. ASSUME NEW q \in Requests, TransitionRecordRequest(q) PROVE MovedAsApproved'
  <2>1. PICK row \in AuditRow : /\ audit_logs' = Append(audit_logs, row)
                                /\ row.action = "workflow.transition.requested"
    BY <1>1, <1>5, RequestRow
  <2>2. \A p \in ApprovalIds :
           approvals'[p].status = "approved" <=> approvals[p].status = "approved"
    BY <1>1, <1>5, RequestRow
  <2>3. \A p \in ApprovalIds : ~MovesFor(row, p)
    BY <2>1 DEF MovesFor
  <2>. QED
    BY <1>1, <2>1, <2>2, <2>3, RowKeepsMoved DEF MovedAsApproved
<1>6. ASSUME NEW q \in Requests, DecideApprovalApprove(q) \/ DecideApprovalReject(q)
      PROVE  MovedAsApproved'
  <2> DEFINE p == inflight[q].approval
  <2>1. /\ p \in ApprovalIds
        /\ approvals[p].status = "pending"
        /\ approvals'[p].status = IF DecideApprovalApprove(q) THEN "approved" ELSE "rejected"
        /\ \A o \in ApprovalIds : o # p => approvals'[o] = approvals[o]
    BY <1>6, DecisionRow
  <2>2. PICK row \in AuditRow :
           /\ audit_logs' = Append(audit_logs, row)
           /\ row.approval = p
           /\ row.action = IF DecideApprovalApprove(q)
                           THEN "workflow.transition" ELSE "approval.reject"
    BY <1>6, DecisionRow
  <2> HIDE DEF p
  <2>3. \A o \in ApprovalIds : o # p => ~MovesFor(row, o)
    BY <2>2 DEF MovesFor
  <2>4. ASSUME NEW o \in ApprovalIds, o # p
        PROVE  MovedOnce(audit_logs', o, approvals'[o].status)
    BY <1>1, <2>1, <2>2, <2>3, <2>4, RowKeepsMoved
  <2>5. MovedOnce(audit_logs', p, approvals'[p].status)
    <3>1. CASE DecideApprovalApprove(q)
      <4>1. MovesFor(row, p) /\ MovedOnce(audit_logs, p, approvals[p].status)
        BY <2>1, <2>2, <3>1 DEF MovesFor, MovedAsApproved
      <4>2. audit_logs \in Seq(AuditRow)
        BY <1>1 DEF TypeOK
      <4>3. MovedOnce(Append(audit_logs, row), p, "approved")
        BY <2>1, <4>1, <4>2, MovedOnceByApproval
      <4>. QED
        BY <2>1, <2>2, <3>1, <4>3
    <3>2. CASE ~DecideApprovalApprove(q)
      <4>1. ~MovesFor(row, p)
        BY <2>2, <3>2 DEF MovesFor
      <4>2. approvals'[p].status = "rejected" /\ approvals[p].status = "pending"
        BY <2>1, <3>2
      <4>. QED
        BY <1>1, <2>1, <2>2, <4>1, <4>2, RowKeepsMoved
    <3>. QED
      BY <3>1, <3>2
  <2>. QED
    BY <2>4, <2>5 DEF MovedAsApproved
<1>. QED
  BY <1>1, <1>2, <1>3, <1>4, <1>5, <1>6, StepKinds

-----------------------------------------------------------------------------
(***************************************************************************)
(* The engine's tasks one by one.                                          *)
(***************************************************************************)
Mirrored ==
    \A p \in ApprovalIds : \A t \in TaskIds : IsTaskOf(tasks[t], p) =>
        /\ approvals[p].status = "approved" => tasks[t].status = "done"
        /\ approvals[p].status = "rejected" => tasks[t].status = "cancelled"

LEMMA MirroredSays == Mirrored => TaskMirrorsDecision
BY DEF Mirrored, TaskMirrorsDecision, EngineTasksOf, IsTaskOf

(* A task completed by hand was open, so no decided approval's.            *)
LEMMA CompleteKeepsMirrored ==
    ASSUME TypeOK, ReadsAreFresh, Mirrored, NEW q \in Requests, CompleteTaskCommit(q)
    PROVE  Mirrored'
<1>1. inflight[q] \in CompleteReady
  BY LocalOfPc DEF TypeOK, CompleteTaskCommit
<1>2. inflight[q].task \in TaskIds /\ tasks[inflight[q].task].status = "open"
  BY <1>1 DEF CompleteReady, ReadsAreFresh, ReadsOther
<1>3. /\ tasks' = [tasks EXCEPT ![inflight[q].task].status = inflight[q].status]
      /\ UNCHANGED approvals
  BY DEF CompleteTaskCommit
<1>. QED
  BY <1>2, <1>3 DEF TypeOK, Task, Mirrored, IsTaskOf

LEMMA CreateTaskKeepsMirrored ==
    ASSUME TypeOK, Mirrored, NEW q \in Requests, NEW a \in Actors, NEW t \in TaskIds,
           NEW assignee \in Actors \cup {None}, NEW p \in ApprovalIds \cup {None},
           CreateTask(q, a, t, assignee, p)
    PROVE  Mirrored'
<1>1. UNCHANGED approvals
  BY DEF CreateTask
<1>2. CASE UNCHANGED tasks
  BY <1>1, <1>2 DEF Mirrored
<1>3. CASE tasks' = [tasks EXCEPT ![t] =
               [status |-> "open", approval |-> p, created_by |-> a,
                assignee |-> assignee, origin |-> "user"]]
  BY <1>1, <1>3 DEF TypeOK, Mirrored, IsTaskOf
<1>. QED
  BY <1>2, <1>3 DEF CreateTask

LEMMA RequestKeepsMirrored ==
    ASSUME TypeOK, Mirrored, NEW q \in Requests, TransitionRecordRequest(q)
    PROVE  Mirrored'
<1> DEFINE local == inflight[q]
           fresh == [status |-> "pending", requested_by |-> local.actor,
                     record |-> local.record, from |-> local.step.from,
                     target |-> local.step.to, decided_by |-> None]
           task(p) == [status |-> "open", approval |-> p, created_by |-> local.actor,
                       assignee |-> None, origin |-> "engine"]
<1>1. PICK p \in ApprovalIds, t \in TaskIds :
         /\ approvals' = [approvals EXCEPT ![p] = fresh]
         /\ tasks' = [tasks EXCEPT ![t] = task(p)]
  BY DEF TransitionRecordRequest
<1>2. fresh.status = "pending" /\ task(p).approval = p
  OBVIOUS
<1> HIDE DEF fresh, task
<1>3. /\ approvals'[p] = fresh
      /\ \A o \in ApprovalIds : o # p => approvals'[o] = approvals[o]
      /\ tasks'[t] = task(p)
      /\ \A u \in TaskIds : u # t => tasks'[u] = tasks[u]
  BY <1>1 DEF TypeOK
<1>. QED
  BY <1>2, <1>3 DEF Mirrored, IsTaskOf

LEMMA DecisionKeepsMirrored ==
    ASSUME WellFormed, ReadsAreFresh, Mirrored, NEW q \in Requests,
           DecideApprovalApprove(q) \/ DecideApprovalReject(q)
    PROVE  Mirrored'
<1>. TypeOK
  BY DEF WellFormed
<1> DEFINE p == inflight[q].approval
<1>1. /\ p \in ApprovalIds
      /\ approvals'[p].status = IF DecideApprovalApprove(q) THEN "approved" ELSE "rejected"
      /\ \A o \in ApprovalIds : o # p => approvals'[o] = approvals[o]
  BY DecisionRow, FreshIsPending
<1>2. CloseTasksForApproval(p, IF DecideApprovalApprove(q) THEN "done" ELSE "cancelled")
  BY DEF DecideApprovalApprove, DecideApprovalReject
<1> HIDE DEF p
<1>3. \A t \in TaskIds : \A o \in ApprovalIds :
         /\ IsTaskOf(tasks'[t], o) <=> IsTaskOf(tasks[t], o)
         /\ o # p /\ IsTaskOf(tasks[t], o) => tasks'[t] = tasks[t]
         /\ IsTaskOf(tasks[t], p) => tasks'[t].status =
               IF DecideApprovalApprove(q) THEN "done" ELSE "cancelled"
  BY <1>1, <1>2 DEF TypeOK, Task, CloseTasksForApproval, IsTaskOf
<1>. QED
  BY <1>1, <1>3 DEF Mirrored

LEMMA NextMirrored ==
    ASSUME WellFormed, ReadsAreFresh, Mirrored, [Next]_vars
    PROVE  Mirrored'
<1>. TypeOK
  BY DEF WellFormed
<1>1. CASE UNCHANGED <<approvals, tasks>>
  BY <1>1 DEF Mirrored
<1>2. ASSUME NEW q \in Requests, Arrive(q) PROVE Mirrored'
  BY <1>1, <1>2, CreateTaskKeepsMirrored
  DEF Arrive, CreateWorkflow, CreateRecordLoad, TransitionRecordLoad,
      DecideApprovalLoad, CompleteTaskLoad, tables
<1>3. ASSUME NEW q \in Requests, Continue(q) PROVE Mirrored'
  BY <1>1, <1>3, CompleteKeepsMirrored, RequestKeepsMirrored, DecisionKeepsMirrored
  DEF Continue, CreateRecordCommit, TransitionRecordResolve, TransitionRecordRefuse,
      TransitionRecordMove, DecideApprovalAuthorize, tables
<1>. QED
  BY <1>1, <1>2, <1>3 DEF Next, Abandon, Rest, vars, tables

-----------------------------------------------------------------------------
(* The invariant of the engine with one handler at a time.                 *)
Serial ==
    /\ Told
    /\ ReadsAreFresh
    /\ Chained
    /\ MovedAsApproved
    /\ Mirrored

LEMMA SerialInit == Init => Serial
<1>. SUFFICES ASSUME Init PROVE Serial
  OBVIOUS
<1>1. ReadsAreFresh
  BY DEF Init, Idle, ReadsAreFresh, ReadsTransition, ReadsApproval, ReadsOther
<1>2. Chained
  BY DEF Init, Chained, Linked, EndsAt
<1>3. MovedAsApproved
  BY DEF Init, NoApproval, MovedAsApproved, MovedOnce
<1>4. Mirrored
  BY DEF Init, NoApproval, Mirrored
<1>. QED
  BY <1>1, <1>2, <1>3, <1>4, ToldInductive DEF Serial

LEMMA SerialStep ==
    ASSUME OneAtATime, Serial, [Next]_vars
    PROVE  Serial'
<1>1. Told /\ WellFormed /\ TypeOK /\ TrailsTold
  BY DEF Serial, Told, Consented, WellFormed
<1>2. Told'
  BY <1>1, ToldInductive
<1>3. HeldStatesStand /\ CreatesAlone
  BY <1>1, FreshStands DEF Serial, ReadsAreFresh, ReadsOther, CreatesAlone, OneAtATime
<1>. QED
  BY <1>1, <1>2, <1>3, NextReadsFresh, NextChained, FreshIsPending, NextMovedAsApproved,
     NextMirrored
  DEF Serial

LEMMA Serially == ASSUME OneAtATime PROVE Spec => []Serial
<1>1. Serial /\ [Next]_vars => Serial'
  BY SerialStep
<1>. QED
  BY <1>1, SerialInit, PTL DEF Spec

(***************************************************************************)
(* The engine implements WorkflowPromise for a client that sends one       *)
(* request at a time: reads, refusals and handlers that are cut off leave  *)
(* state, verdicts and workflow as they are, and each commit is one step   *)
(* of the promise, although it acts on what earlier steps have read.       *)
(***************************************************************************)
THEOREM EngineKeepsPromise == OneAtATime => (Spec => KeepsPromise)
<1>. SUFFICES ASSUME OneAtATime PROVE Spec => KeepsPromise
  OBVIOUS
<1>1. Serial /\ [Next]_vars => [Promise!Next]_(Promise!vars)
  BY StepKeepsPromise DEF Serial, Told, Consented, WellFormed
<1>. QED
  BY <1>1, InitKeepsPromise, Serially, PTL DEF Spec, KeepsPromise, Promise!Spec

(***************************************************************************)
(* With one request at a time an approval moves its record exactly once if *)
(* it was approved and never otherwise.                                    *)
(***************************************************************************)
THEOREM ApprovalMovesOnce == OneAtATime => (Spec => []ApprovedExactlyWhenMoved)
<1>. SUFFICES ASSUME OneAtATime PROVE Spec => []ApprovedExactlyWhenMoved
  OBVIOUS
<1>1. Serial => ApprovedExactlyWhenMoved
  BY MovedOnceSays DEF Serial
<1>. QED
  BY <1>1, Serially, PTL

(***************************************************************************)
(* With one request at a time the engine's task shows the verdict: a task  *)
(* that was completed by hand earlier is overwritten by the decision, and  *)
(* none is completed by hand after it.                                     *)
(***************************************************************************)
THEOREM TasksShowTheVerdict == OneAtATime => (Spec => []TaskMirrorsDecision)
<1>. SUFFICES ASSUME OneAtATime PROVE Spec => []TaskMirrorsDecision
  OBVIOUS
<1>1. Serial => TaskMirrorsDecision
  BY MirroredSays DEF Serial
<1>. QED
  BY <1>1, Serially, PTL

(***************************************************************************)
(* With one request at a time the moves of a record form an unbroken       *)
(* chain: each row's before is the after of the move that precedes it.     *)
(***************************************************************************)
THEOREM MovesAreChained == OneAtATime => (Spec => []AuditChains)
<1>. SUFFICES ASSUME OneAtATime PROVE Spec => []AuditChains
  OBVIOUS
<1>1. Serial => AuditChains
  BY DEF Serial, Chained, Linked, MovesRow, AuditChains, Moves
<1>. QED
  BY <1>1, Serially, PTL

LEMMA DecidedStays ==
    ASSUME WellFormed, StillPending, [Next]_vars
    PROVE  \A p \in ApprovalIds :
              approvals[p].status \in Decided => approvals'[p] = approvals[p]
<1>. SUFFICES ASSUME NEW p \in ApprovalIds, approvals[p].status \in Decided
              PROVE  approvals'[p] = approvals[p]
  OBVIOUS
<1>1. TypeOK /\ approvals[p].status \notin {"absent", "pending"}
  BY DEF WellFormed, Decided
<1>2. ASSUME NEW q \in Requests, DecideApprovalApprove(q) \/ DecideApprovalReject(q)
      PROVE  approvals'[p] = approvals[p]
  BY <1>1, <1>2, DecisionRow
<1>3. ASSUME NEW q \in Requests, TransitionRecordRequest(q)
      PROVE  approvals'[p] = approvals[p]
  BY <1>1, <1>3, RequestRow
<1>. QED
  BY <1>1, <1>2, <1>3, StepKinds DEF Quiet, CreateRecordCommit, TransitionRecordMove

(***************************************************************************)
(* With one request at a time a decision is final.                         *)
(***************************************************************************)
THEOREM DecisionsAreFinal == OneAtATime => (Spec => ApprovalDecidedOnce)
<1>. SUFFICES ASSUME OneAtATime PROVE Spec => ApprovalDecidedOnce
  OBVIOUS
<1>1. Serial /\ [Next]_vars =>
        [\A p \in ApprovalIds :
            approvals[p].status \in Decided => approvals'[p] = approvals[p]]_vars
  BY DecidedStays, FreshIsPending DEF Serial, Told, Consented
<1>. QED
  BY <1>1, Serially, PTL DEF Spec, ApprovalDecidedOnce

-----------------------------------------------------------------------------
(***************************************************************************)
(* Decisions that do not overlap.  Any number of handlers run at once, and *)
(* nothing is asked of requests, tasks, redefinitions or of decisions about*)
(* different approvals.                                                    *)
(***************************************************************************)
Deciding(q) == inflight[q].pc \in {"decide.loaded", "decide.ready"}

\* In this step no verdict is stored on an approval another handler decides.
DecisionsApart ==
    \A q, r \in Requests :
        /\ DecideApprovalApprove(q) \/ DecideApprovalReject(q)
        /\ Deciding(r)
        /\ r # q
        => inflight[r].approval # inflight[q].approval

LEMMA PendingStays ==
    ASSUME WellFormed, StillPending, [Next]_vars, [DecisionsApart]_vars
    PROVE  StillPending'
<1>. TypeOK
  BY DEF WellFormed
<1>. SUFFICES ASSUME NEW q \in Requests,
                     inflight'[q].pc \in {"decide.loaded", "decide.ready"}
              PROVE  approvals'[inflight'[q].approval].status = "pending"
  BY DEF StillPending
<1>1. CASE inflight'[q] = inflight[q]
  <2> DEFINE p == inflight[q].approval
  <2>1. p \in ApprovalIds /\ approvals[p].status = "pending" /\ Deciding(q)
    BY <1>1, LocalOfPc DEF TypeOK, DecideLoaded, DecideReady, StillPending, Deciding
  <2>2. ASSUME NEW r \in Requests, DecideApprovalApprove(r) \/ DecideApprovalReject(r)
        PROVE  approvals'[p] = approvals[p]
    <3>1. inflight'[r].pc = "idle"
      BY <2>2 DEF TypeOK, DecideApprovalApprove, DecideApprovalReject, Finish, Idle
    <3>2. r # q /\ inflight' # inflight
      BY <1>1, <2>2, <3>1 DEF DecideApprovalApprove, DecideApprovalReject
    <3>3. DecisionsApart
      BY <3>2 DEF vars
    <3>4. inflight[r].approval # p
      BY <2>1, <2>2, <3>2, <3>3 DEF DecisionsApart
    <3> HIDE DEF p
    <3>. QED
      BY <2>1, <2>2, <3>4, DecisionRow
  <2>3. ASSUME NEW r \in Requests, TransitionRecordRequest(r)
        PROVE  approvals'[p] = approvals[p]
    BY <2>1, <2>3, RequestRow
  <2> HIDE DEF p
  <2>4. approvals'[p] = approvals[p]
    BY <2>2, <2>3, StepKinds DEF Quiet, CreateRecordCommit, TransitionRecordMove
  <2>. QED
    BY <1>1, <2>1, <2>4 DEF p
<1>2. CASE inflight'[q] # inflight[q]
  <2>1. ASSUME NEW a \in Actors, NEW p \in ApprovalIds, NEW approved \in BOOLEAN,
               DecideApprovalLoad(q, a, p, approved)
        PROVE  approvals'[inflight'[q].approval].status = "pending"
    <3>1. inflight'[q].approval = p
      BY <1>2, <2>1 DEF TypeOK, DecideApprovalLoad, Proceed
    <3>. QED
      BY <2>1, <3>1 DEF DecideApprovalLoad
  <2>2. ASSUME DecideApprovalAuthorize(q), inflight'[q].pc = "decide.ready"
        PROVE  approvals'[inflight'[q].approval].status = "pending"
    <3>1. inflight'[q].approval = inflight[q].approval
      BY <2>2 DEF TypeOK, DecideApprovalAuthorize, Proceed, Finish, Idle
    <3>. QED
      BY <2>2, <3>1 DEF StillPending, DecideApprovalAuthorize
  <2>. QED
    BY <1>2, <2>1, <2>2, HandlerChanges
<1>. QED
  BY <1>1, <1>2

(* The invariant while decisions of an approval do not overlap.            *)
Undisputed ==
    /\ Told
    /\ StillPending
    /\ MovedAsApproved

LEMMA UndisputedInit == Init => Undisputed
BY SerialInit, FreshIsPending DEF Serial, Undisputed

LEMMA UndisputedStep == Undisputed /\ [Next]_vars /\ [DecisionsApart]_vars => Undisputed'
<1>. SUFFICES ASSUME Undisputed, [Next]_vars, [DecisionsApart]_vars PROVE Undisputed'
  OBVIOUS
<1>1. Told /\ StillPending /\ MovedAsApproved /\ WellFormed
  BY DEF Undisputed, Told, Consented
<1>2. Told'
  BY <1>1, ToldInductive
<1>. QED
  BY <1>1, <1>2, PendingStays, NextMovedAsApproved DEF Undisputed

(***************************************************************************)
(* decide_approval checks that the approval is pending, and stores the     *)
(* verdict in a later transaction that does not check again.  Only another *)
(* decision of the same approval, under way when the verdict is stored, can*)
(* come between: as long as there is none, a decision is final and an      *)
(* approval moves its record exactly once if it was approved and never     *)
(* otherwise, however many handlers run and whatever else they do.         *)
(***************************************************************************)
THEOREM DecisionsApartAreFinal ==
    Spec /\ [][DecisionsApart]_vars => ApprovalDecidedOnce /\ []ApprovedExactlyWhenMoved
<1>1. Undisputed => ApprovedExactlyWhenMoved
  BY MovedOnceSays DEF Undisputed
<1>2. Undisputed /\ [Next]_vars =>
        [\A p \in ApprovalIds :
            approvals[p].status \in Decided => approvals'[p] = approvals[p]]_vars
  BY DecidedStays DEF Undisputed, Told, Consented
<1>. QED
  BY <1>1, <1>2, UndisputedInit, UndisputedStep, PTL DEF Spec, ApprovalDecidedOnce

-----------------------------------------------------------------------------
(***************************************************************************)
(* Moves of a record that do not overlap.  Any number of handlers run at   *)
(* once, on one record too; nothing is asked of creates, requests, tasks or*)
(* redefinitions, nor of moves of different records.                       *)
(***************************************************************************)
\* Handler q has read the state record r is in.
HoldsState(q, r) ==
    \/ inflight[q].pc \in {"transition.loaded", "transition.ready"} /\ inflight[q].record = r
    \/ inflight[q].pc = "decide.ready" /\ approvals[inflight[q].approval].record = r

\* In this step no record changes its state while another handler than the one
\* that moves it holds that state.
MovesApart ==
    \A q \in Requests, r \in Records :
        HoldsState(q, r) /\ inflight'[q] = inflight[q] => records'[r] = records[r]

LEMMA LoadBegins ==
    ASSUME TypeOK, [Next]_vars, NEW q \in Requests, inflight'[q] # inflight[q],
           inflight'[q].pc = "transition.loaded"
    PROVE  \E a \in Actors, r \in Records, k \in Keys : TransitionRecordLoad(q, a, r, k)
<1>. inflight \in [Requests -> Local]
  BY DEF TypeOK
<1>1. ASSUME NEW other \in Requests, NEW local,
             inflight' = [inflight EXCEPT ![other] = local]
      PROVE  other = q /\ local.pc = "transition.loaded"
  BY <1>1
<1>2. ASSUME NEW other \in Requests, Finish(other) PROVE FALSE
  BY <1>1, <1>2 DEF Finish, Idle
<1>3. ASSUME NEW other \in Requests, Continue(other) PROVE FALSE
  <2>1. ASSUME TransitionRecordResolve(other) PROVE FALSE
    BY <1>1, <1>2, <2>1 DEF TransitionRecordResolve, Proceed
  <2>2. ASSUME DecideApprovalAuthorize(other) PROVE FALSE
    BY <1>1, <1>2, <2>2 DEF DecideApprovalAuthorize, Proceed
  <2>. QED
    BY <1>2, <1>3, <2>1, <2>2
    DEF Continue, CreateRecordCommit, TransitionRecordRefuse, TransitionRecordMove,
        TransitionRecordRequest, DecideApprovalApprove, DecideApprovalReject,
        CompleteTaskCommit
<1>4. PICK other \in Requests : Arrive(other)
  BY <1>2, <1>3 DEF Next, Rest, Abandon, vars
<1>5. ASSUME NEW a \in Actors, NEW r \in Records, NEW k \in Keys,
             TransitionRecordLoad(other, a, r, k)
      PROVE  other = q
  BY <1>1, <1>5 DEF TransitionRecordLoad, Proceed
<1>6. CASE \E a \in Actors, r \in Records, k \in Keys : TransitionRecordLoad(other, a, r, k)
  BY <1>5, <1>6
<1>7. ASSUME NEW a \in Actors, NEW r \in Records, CreateRecordLoad(other, a, r)
      PROVE  FALSE
  BY <1>1, <1>7 DEF CreateRecordLoad, Proceed
<1>8. ASSUME NEW a \in Actors, NEW p \in ApprovalIds, NEW approved \in BOOLEAN,
             DecideApprovalLoad(other, a, p, approved)
      PROVE  FALSE
  BY <1>1, <1>8 DEF DecideApprovalLoad, Proceed
<1>9. ASSUME NEW a \in Actors, NEW t \in TaskIds, NEW status \in {"done", "cancelled"},
             CompleteTaskLoad(other, a, t, status)
      PROVE  FALSE
  BY <1>1, <1>9 DEF CompleteTaskLoad, Proceed
<1>. QED
  BY <1>4, <1>6, <1>7, <1>8, <1>9 DEF Arrive, CreateWorkflow, CreateTask

LEMMA HeldStatesStay ==
    ASSUME WellFormed, HeldStatesStand, [Next]_vars, [MovesApart]_vars
    PROVE  HeldStatesStand'
<1>. TypeOK
  BY DEF WellFormed
<1>. SUFFICES ASSUME NEW q \in Requests PROVE StateStands(inflight[q])'
  BY DEF HeldStatesStand
<1>1. StateStands(inflight[q])
  BY DEF HeldStatesStand
<1>2. CASE UNCHANGED vars
  BY <1>1, <1>2 DEF vars, StateStands
<1>3. CASE inflight'[q] = inflight[q] /\ vars' # vars
  <2>1. MovesApart
    BY <1>3
  <2>2. CASE inflight[q].pc \in {"transition.loaded", "transition.ready"}
    <3>1. inflight[q].record \in Records /\ HoldsState(q, inflight[q].record)
      BY <2>2, LocalOfPc DEF TypeOK, TransitionLoaded, TransitionReady, HoldsState
    <3>2. records'[inflight[q].record] = records[inflight[q].record]
      BY <1>3, <2>1, <3>1 DEF MovesApart
    <3>. QED
      BY <1>1, <1>3, <2>2, <3>2 DEF StateStands
  <2>3. CASE inflight[q].pc = "decide.ready"
    <3> DEFINE p == inflight[q].approval
    <3>1. /\ p \in ApprovalIds /\ approvals[p].status # "absent"
          /\ approvals[p].record \in Records
      BY <2>3, LocalOfPc
      DEF TypeOK, DecideReady, WellFormed, HandlersHoldRows, ApprovalsFilled, FilledApproval
    <3>2. approvals'[p].record = approvals[p].record
      BY <3>1, NextKeepsApprovals DEF ApprovalsStay
    <3>3. records'[approvals[p].record] = records[approvals[p].record]
      BY <1>3, <2>1, <2>3, <3>1 DEF MovesApart, HoldsState
    <3>. QED
      BY <1>1, <1>3, <2>3, <3>2, <3>3 DEF StateStands
  <2>. QED
    BY <1>3, <2>2, <2>3 DEF StateStands
<1>4. CASE inflight'[q] # inflight[q]
  <2>1. ASSUME TransitionRecordResolve(q), inflight'[q].pc = "transition.ready"
        PROVE  StateStands(inflight[q])'
    <3>1. PICK t \in TransitionsFrom(workflow,
                        CurrentState(workflow, inflight[q].seen), inflight[q].key) :
            Proceed(q, [pc |-> "transition.ready", actor |-> inflight[q].actor,
                        record |-> inflight[q].record, step |-> t])
      BY <2>1 DEF TypeOK, TransitionRecordResolve, Finish, Idle
    <3>2. /\ inflight'[q].record = inflight[q].record /\ inflight'[q].step = t
          /\ t.from = CurrentState(workflow, inflight[q].seen)
      BY <3>1 DEF TypeOK, Proceed, TransitionsFrom
    <3>3. inflight[q].seen = records[inflight[q].record] /\ UNCHANGED records
      BY <1>1, <2>1 DEF StateStands, TransitionRecordResolve
    <3>. QED
      BY <2>1, <3>2, <3>3 DEF StateStands, CurrentState
  <2>2. ASSUME DecideApprovalAuthorize(q), inflight'[q].pc = "decide.ready"
        PROVE  StateStands(inflight[q])'
    <3>1. /\ inflight'[q].approval = inflight[q].approval
          /\ inflight'[q].before = records[approvals[inflight[q].approval].record]
          /\ UNCHANGED <<records, approvals>>
      BY <2>2 DEF TypeOK, DecideApprovalAuthorize, Proceed, Finish, Idle
    <3>. QED
      BY <2>2, <3>1 DEF StateStands
  <2>3. ASSUME inflight'[q].pc = "transition.loaded"
        PROVE  StateStands(inflight[q])'
    <3>1. PICK a \in Actors, r \in Records, k \in Keys : TransitionRecordLoad(q, a, r, k)
      BY <1>4, <2>3, LoadBegins
    <3>2. /\ inflight'[q].record = r /\ inflight'[q].seen = records[r]
          /\ UNCHANGED records
      BY <3>1 DEF TypeOK, TransitionRecordLoad, Proceed, tables
    <3>. QED
      BY <2>3, <3>2 DEF StateStands
  <2>. QED
    BY <1>4, <2>1, <2>2, <2>3, HandlerChanges DEF StateStands
<1>. QED
  BY <1>2, <1>3, <1>4

(* The invariant while moves of a record do not overlap.                   *)
InOrder ==
    /\ Told
    /\ HeldStatesStand
    /\ CreatesAlone
    /\ Chained

LEMMA InOrderInit == Init => InOrder
<1>. SUFFICES ASSUME Init PROVE InOrder
  OBVIOUS
<1>1. Told /\ Chained /\ TypeOK /\ ReadsAreFresh
  BY SerialInit, InitTypeOK DEF Serial
<1>2. CreatesAlone
  BY DEF Init, Idle, CreatesAlone
<1>. QED
  BY <1>1, <1>2, FreshStands DEF InOrder

LEMMA InOrderStep == InOrder /\ [Next]_vars /\ [MovesApart]_vars => InOrder'
<1>. SUFFICES ASSUME InOrder, [Next]_vars, [MovesApart]_vars PROVE InOrder'
  OBVIOUS
<1>1. /\ Told /\ HeldStatesStand /\ CreatesAlone /\ Chained
      /\ WellFormed /\ TrailsTold
  BY DEF InOrder, Told, Consented
<1>2. Told'
  BY <1>1, ToldInductive
<1>. QED
  BY <1>1, <1>2, HeldStatesStay, CreatesStayAlone, NextChained DEF InOrder

(***************************************************************************)
(* transition_record and decide_approval write into the audit log the state*)
(* they read before their transaction, and the transaction does not look   *)
(* again.  Only another move of the same record in between can make that   *)
(* row wrong: as long as there is none, the moves of every record form an  *)
(* unbroken chain, however many handlers run, whatever workflows are       *)
(* installed meanwhile and wherever handlers are cut off.                  *)
(***************************************************************************)
THEOREM MovesApartAreChained == Spec /\ [][MovesApart]_vars => []AuditChains
<1>1. InOrder => AuditChains
  BY DEF InOrder, Chained, Linked, MovesRow, AuditChains, Moves
<1>. QED
  BY <1>1, InOrderInit, InOrderStep, PTL DEF Spec
=============================================================================
