-------------------------- MODULE Migration_proofs --------------------------
(***************************************************************************)
(* Proofs about the migration session for any number of overlapping calls  *)
(* and cut-off calls: its type invariant, and the account of its updates,  *)
(* audit rows and events; and for one call at a time what the session      *)
(* tells of itself.                                                        *)
(*                                                                         *)
(* TypeOK is not inductive: what a call stores was put together from what  *)
(* it read, so the calls under way must be well formed too.                *)
(***************************************************************************)
EXTENDS Migration, FiniteSetTheorems, TLAPS

\* set_active_system has read a session, and only a report for the selected
\* system has a plan.
CallsFormed ==
    \A q \in Requests :
        /\ At(q, "activate") => call[q].status # "none"
        /\ At(q, "store") /\ call[q].target # None => call[q].for = "selected"

\* Once there is a session there always is one; an activation needs one.
SessionHeld == \A q \in Requests : At(q, "activate") => Started

Formed == TypeOK /\ CallsFormed /\ SessionHeld

-----------------------------------------------------------------------------
\* An idle call, and one that is about to do a step, are calls.
LEMMA IdleCall ==
    /\ Idle \in Call
    /\ \A step \in Steps : [Idle EXCEPT !.step = step] \in Call
    /\ \A step \in Steps : [Idle EXCEPT !.step = step].step = step
    /\ Idle.step = "idle"
  BY DEF Idle, Call, Steps, Statuses, Systems, Target

LEMMA FormedInit == Init => Formed
  BY IdleCall
  DEF Init, Formed, TypeOK, CallsFormed, SessionHeld, At, Started, NoSession, NoReport,
      Session, Statuses, Systems, Target, Report

\* An update to a session with a status of its own keeps everything formed.
LEMMA UpdateFormed ==
    ASSUME Formed, NEW q \in Requests, NEW row \in Session, NEW step \in Steps,
           step # "activate", step # "store",
           row.status # "none",
           row.report.target # None => row.report.for = "selected",
           Update(q, row, step)
    PROVE  Formed'
  <1>1. call' \in [Requests -> Call]
    BY IdleCall DEF Update, Formed, TypeOK
  <1>2. session' = row /\ Started'
    BY DEF Update, Started
  <1>3. TypeOK'
    BY <1>1, <1>2 DEF Update, Formed, TypeOK, Started
  <1>4. \A r \in Requests : r # q => call'[r] = call[r]
    BY DEF Update, Formed, TypeOK
  <1>5. call'[q].step = step
    BY IdleCall DEF Update, Formed, TypeOK
  <1>. QED
    BY <1>2, <1>3, <1>4, <1>5 DEF Formed, CallsFormed, SessionHeld, At

\* A call goes on, or ends, without a change of the session.
LEMMA ContinueFormed ==
    ASSUME Formed, NEW q \in Requests, NEW c \in Call,
           c.step = "activate" => c.status # "none" /\ Started,
           c.step = "store" /\ c.target # None => c.for = "selected",
           call' = [call EXCEPT ![q] = c],
           UNCHANGED session,
           updates' \in Nat, audited' \in Nat, announced' \in Nat, aborts' \in Nat
    PROVE  Formed'
  <1>1. call' \in [Requests -> Call]
    BY DEF Formed, TypeOK
  <1>2. TypeOK' /\ (Started' <=> Started)
    BY <1>1 DEF Formed, TypeOK, Started
  <1>3. call'[q] = c /\ \A r \in Requests : r # q => call'[r] = call[r]
    BY DEF Formed, TypeOK
  <1>. QED
    BY <1>2, <1>3 DEF Formed, CallsFormed, SessionHeld, At

LEMMA StartFormed ==
    ASSUME Formed, NEW q \in Requests, NEW target \in Target,
           StartMigration(q, target)
    PROVE  Formed'
  <1>. DEFINE row == [session EXCEPT
                !.status = IF target = None THEN "booted_old" ELSE "target_selected",
                !.target = target]
  <1>1. row \in Session
    BY DEF Formed, TypeOK, Session, Statuses
  <1>2. row.status # "none" /\ row.report = session.report
    BY DEF Formed, TypeOK, Session
  <1>3. Update(q, row, "audit")
    BY DEF StartMigration
  <1>. HIDE DEF row
  <1>. QED
    BY <1>1, <1>2, <1>3, UpdateFormed DEF Formed, TypeOK, Steps

LEMMA SelectFormed ==
    ASSUME Formed, NEW q \in Requests, NEW target \in Templates,
           SelectTargetSystem(q, target)
    PROVE  Formed'
  <1>. DEFINE row == [session EXCEPT !.target = target, !.status = "target_selected"]
  <1>1. row \in Session
    BY DEF Formed, TypeOK, Session, Statuses, Target
  <1>2. row.status # "none" /\ row.report = session.report
    BY DEF Formed, TypeOK, Session
  <1>3. Update(q, row, "audit")
    BY DEF SelectTargetSystem
  <1>. HIDE DEF row
  <1>. QED
    BY <1>1, <1>2, <1>3, UpdateFormed DEF Formed, TypeOK, Steps

LEMMA ActivateReadFormed ==
    ASSUME Formed, NEW q \in Requests, NEW system \in Systems,
           SetActiveSystemRead(q, system)
    PROVE  Formed'
  <1>. DEFINE c == [Idle EXCEPT !.step = "activate", !.for = system,
                                !.status = session.status]
  <1>1. c \in Call /\ c.step = "activate" /\ c.status = session.status
    BY DEF Formed, TypeOK, Session, Idle, Call, Steps, Target, Systems
  <1>2. call' = [call EXCEPT ![q] = c] /\ Started
    BY DEF SetActiveSystemRead
  <1>. HIDE DEF c
  <1>. QED
    BY <1>1, <1>2, ContinueFormed DEF SetActiveSystemRead, Formed, TypeOK, Started

LEMMA ActivateUpdateFormed ==
    ASSUME Formed, NEW q \in Requests, SetActiveSystemUpdate(q)
    PROVE  Formed'
  <1>. DEFINE row == [session EXCEPT !.active = call[q].for,
                 !.status = ActivatedStatus(call[q].for, call[q].status)]
  <1>0. call[q] \in Call
    BY DEF Formed, TypeOK
  <1>1. row \in Session
    BY <1>0 DEF Formed, TypeOK, Session, Statuses, ActivatedStatus, Call
  <1>2. row.status # "none" /\ row.report = session.report
    BY DEF Formed, TypeOK, CallsFormed, SetActiveSystemUpdate, Session, ActivatedStatus
  <1>3. Update(q, row, "audit")
    BY DEF SetActiveSystemUpdate
  <1>. HIDE DEF row
  <1>. QED
    BY <1>1, <1>2, <1>3, UpdateFormed DEF Formed, TypeOK, Steps

LEMMA ReportBeginFormed ==
    ASSUME Formed, NEW q \in Requests, NEW system \in Systems, ReportBegin(q, system)
    PROVE  Formed'
  <1>. DEFINE c == [Idle EXCEPT !.step = "report", !.for = system]
  <1>1. c \in Call /\ c.step = "report"
    BY DEF Idle, Call, Steps, Target, Systems, Statuses
  <1>2. call' = [call EXCEPT ![q] = c]
    BY DEF ReportBegin
  <1>. HIDE DEF c
  <1>. QED
    BY <1>1, <1>2, ContinueFormed DEF ReportBegin, Formed, TypeOK

LEMMA ReportBuildFormed ==
    ASSUME Formed, NEW q \in Requests, ReportBuild(q)
    PROVE  Formed'
  <1>. DEFINE plan == IF call[q].for = "selected" THEN session.target ELSE None
              c == [call[q] EXCEPT !.step = "store", !.target = plan]
  <1>1. call[q] \in Call /\ plan \in Target
    BY DEF Formed, TypeOK, Session, Target
  <1>2. c \in Call /\ c.step = "store" /\ c.target = plan /\ c.for = call[q].for
    BY <1>1 DEF Call, Steps
  <1>3. call' = [call EXCEPT ![q] = c]
    BY <1>1 DEF ReportBuild, Formed, TypeOK, Call
  <1>4. plan # None => call[q].for = "selected"
    OBVIOUS
  <1>5. UNCHANGED <<session, updates, audited, announced, aborts>>
    BY DEF ReportBuild
  <1>6. {updates, audited, announced, aborts} \subseteq Nat
    BY DEF Formed, TypeOK
  <1>. HIDE DEF c, plan
  <1>. QED
    BY <1>2, <1>3, <1>4, <1>5, <1>6, ContinueFormed DEF Formed, TypeOK

LEMMA ReportStoreFormed ==
    ASSUME Formed, NEW q \in Requests, ReportStore(q)
    PROVE  Formed'
  <1>. DEFINE report == [for |-> call[q].for, target |-> call[q].target]
              row == [session EXCEPT !.report = report, !.status = "reported"]
  <1>0. call[q] \in Call
    BY DEF Formed, TypeOK
  <1>1. report \in Report
    BY <1>0 DEF Call, Report, Systems
  <1>2. row \in Session
    BY <1>1 DEF Formed, TypeOK, Session, Statuses
  <1>3. row.status # "none" /\ row.report = report
    BY DEF Formed, TypeOK, Session
  <1>4. report.target # None => report.for = "selected"
    BY DEF ReportStore, Formed, CallsFormed
  <1>5. Update(q, row, "audit_report")
    BY DEF ReportStore
  <1>. HIDE DEF row, report
  <1>. QED
    BY <1>2, <1>3, <1>4, <1>5, UpdateFormed DEF Steps

\* The steps after the update, and the end of a call that is cut off.
LEMMA TailFormed ==
    ASSUME Formed, NEW q \in Requests, Audit(q) \/ Announce(q) \/ Abort(q)
    PROVE  Formed'
  <1>. DEFINE announcing == [Idle EXCEPT !.step = "announce"]
  <1>1. announcing \in Call /\ announcing.step = "announce"
    BY IdleCall DEF Steps
  <1>2. call' = [call EXCEPT ![q] = Idle] \/ call' = [call EXCEPT ![q] = announcing]
    BY DEF Audit, Announce, Abort
  <1>3. /\ UNCHANGED session
        /\ updates' \in Nat /\ audited' \in Nat /\ announced' \in Nat /\ aborts' \in Nat
    BY DEF Audit, Announce, Abort, Formed, TypeOK
  <1>. HIDE DEF announcing
  <1>. QED
    BY <1>1, <1>2, <1>3, IdleCall, ContinueFormed

LEMMA FormedStep == Formed /\ [Next]_vars => Formed'
  <1>. SUFFICES ASSUME Formed, [Next]_vars PROVE Formed'
    OBVIOUS
  <1>1. CASE UNCHANGED vars
    BY <1>1 DEF vars, Formed, TypeOK, CallsFormed, SessionHeld, At, Started
  <1>2. ASSUME NEW q \in Requests, MigrationReport(q) \/ LogoutMigrationOutput(q)
        PROVE  Formed'
    <2>1. session.active \in Systems
      BY DEF Formed, TypeOK, Session
    <2>. QED
      BY <1>2, <2>1, ReportBeginFormed DEF MigrationReport, LogoutMigrationOutput
  <1>. QED
    BY <1>1, <1>2, StartFormed, SelectFormed, ActivateReadFormed, ActivateUpdateFormed,
       ReportBuildFormed, ReportStoreFormed, TailFormed
       DEF Next, Rest

(***************************************************************************)
(* The session row and the calls stay well typed: a plan is stored with a  *)
(* report for the selected system only, and a session, once started, never *)
(* loses its status (migration.rs: one row, never deleted).                *)
(***************************************************************************)
THEOREM SessionTyped == Spec => []TypeOK
  <1>1. Formed => TypeOK
    BY DEF Formed
  <1>. QED
    BY <1>1, FormedInit, FormedStep, PTL DEF Spec

-----------------------------------------------------------------------------
(* The account of updates, audit rows and events.                          *)

\* The calls c that are at one of these steps.
AtSteps(c, steps) == {q \in Requests : c[q].step \in steps}

Owing     == {"audit", "audit_report"}
Reporting == {"announce"}

Account(u, a, n, x, c) ==
    /\ a + Cardinality(AtSteps(c, Owing)) <= u
    /\ u <= a + Cardinality(AtSteps(c, Owing)) + x
    /\ n + Cardinality(AtSteps(c, Reporting)) <= a

LEMMA AccountIsUpdatesAreAudited ==
    UpdatesAreAudited <=> Account(updates, audited, announced, aborts, call)
  <1>1. AtSteps(call, Owing) = {q \in Requests : call[q].step \in {"audit", "audit_report"}}
    BY DEF AtSteps, Owing
  <1>2. AtSteps(call, Reporting) = {q \in Requests : At(q, "announce")}
    BY DEF AtSteps, Reporting, At
  <1>. QED
    BY <1>1, <1>2 DEF UpdatesAreAudited, Account

\* What a step of one call does to the calls that are at some steps.
LEMMA OneCallMoves ==
    ASSUME NEW c, NEW d, NEW q \in Requests, NEW steps,
           \A r \in Requests : r # q => d[r] = c[r]
    PROVE  /\ Cardinality(AtSteps(c, steps)) \in Nat
           /\ Cardinality(AtSteps(d, steps)) =
                CASE c[q].step \in steps /\ d[q].step \notin steps ->
                        Cardinality(AtSteps(c, steps)) - 1
                  [] c[q].step \notin steps /\ d[q].step \in steps ->
                        Cardinality(AtSteps(c, steps)) + 1
                  [] OTHER -> Cardinality(AtSteps(c, steps))
  <1>1. IsFiniteSet(AtSteps(c, steps)) /\ IsFiniteSet(AtSteps(d, steps))
    BY MigrationAssumption, FS_Subset DEF AtSteps
  <1>2. Cardinality(AtSteps(c, steps)) \in Nat
    BY <1>1, FS_CardinalityType
  <1>3. CASE c[q].step \in steps /\ d[q].step \notin steps
    <2>1. AtSteps(d, steps) = AtSteps(c, steps) \ {q} /\ q \in AtSteps(c, steps)
      BY <1>3 DEF AtSteps
    <2>. QED
      BY <1>1, <1>2, <1>3, <2>1, FS_RemoveElement
  <1>4. CASE c[q].step \notin steps /\ d[q].step \in steps
    <2>1. AtSteps(d, steps) = AtSteps(c, steps) \cup {q} /\ q \notin AtSteps(c, steps)
      BY <1>4 DEF AtSteps
    <2>. QED
      BY <1>1, <1>2, <1>4, <2>1, FS_AddElement
  <1>5. CASE c[q].step \in steps <=> d[q].step \in steps
    <2>1. AtSteps(d, steps) = AtSteps(c, steps)
      BY <1>5 DEF AtSteps
    <2>. QED
      BY <1>2, <1>5, <2>1
  <1>. QED
    BY <1>3, <1>4, <1>5

\* A call that moves between other steps
LEMMA OneCallElsewhere ==
    ASSUME NEW c, NEW d, NEW q \in Requests, NEW steps,
           \A r \in Requests : r # q => d[r] = c[r],
           c[q].step \notin steps, d[q].step \notin steps
    PROVE  /\ Cardinality(AtSteps(c, steps)) \in Nat
           /\ Cardinality(AtSteps(d, steps)) = Cardinality(AtSteps(c, steps))
  <1>1. AtSteps(d, steps) = AtSteps(c, steps)
    BY DEF AtSteps
  <1>2. IsFiniteSet(AtSteps(c, steps))
    BY MigrationAssumption, FS_Subset DEF AtSteps
  <1>. QED
    BY <1>1, <1>2, FS_CardinalityType

\* An update makes its call owe an audit row.
LEMMA UpdateAccount ==
    ASSUME Formed, Account(updates, audited, announced, aborts, call),
           NEW q \in Requests, NEW row, NEW step \in Owing,
           call[q].step \notin Owing \cup Reporting,
           Update(q, row, step)
    PROVE  Account(updates, audited, announced, aborts, call)'
  <1>1. \A r \in Requests : r # q => call'[r] = call[r]
    BY DEF Update, Formed, TypeOK
  <1>2. call'[q].step = step
    BY IdleCall DEF Update, Formed, TypeOK, Owing, Steps
  <1>3. /\ Cardinality(AtSteps(call, Owing)) \in Nat
        /\ Cardinality(AtSteps(call', Owing)) = Cardinality(AtSteps(call, Owing)) + 1
    BY <1>1, <1>2, OneCallMoves
  <1>4. /\ Cardinality(AtSteps(call, Reporting)) \in Nat
        /\ Cardinality(AtSteps(call', Reporting)) = Cardinality(AtSteps(call, Reporting))
    <2>1. call[q].step \notin Reporting /\ call'[q].step \notin Reporting
      <3>1. call[q].step \notin Reporting
        OBVIOUS
      <3>2. step \notin Reporting
        BY DEF Owing, Reporting
      <3>. QED
        BY <1>2, <3>1, <3>2
    <2>. QED
      BY <1>1, <2>1, OneCallElsewhere
  <1>. QED
    BY <1>3, <1>4 DEF Account, Update, Formed, TypeOK

\* The reads of a call owe nothing and pay nothing.
LEMMA ReadAccount ==
    ASSUME Formed, Account(updates, audited, announced, aborts, call),
           NEW q \in Requests,
           call[q].step \notin Owing \cup Reporting,
           call'[q].step \notin Owing \cup Reporting,
           \A r \in Requests : r # q => call'[r] = call[r],
           UNCHANGED <<updates, audited, announced, aborts>>
    PROVE  Account(updates, audited, announced, aborts, call)'
  <1>1. ASSUME NEW steps \in {Owing, Reporting}
        PROVE  Cardinality(AtSteps(call', steps)) = Cardinality(AtSteps(call, steps))
    <2>1. call[q].step \notin steps /\ call'[q].step \notin steps
      BY <1>1
    <2>2. \A r \in Requests : call'[r].step \in steps <=> call[r].step \in steps
      BY <2>1
    <2>3. AtSteps(call', steps) = AtSteps(call, steps)
      BY <2>2 DEF AtSteps
    <2>. QED
      BY <2>3
  <1>. QED
    BY <1>1 DEF Account

LEMMA AuditAccount ==
    ASSUME Formed, Account(updates, audited, announced, aborts, call),
           NEW q \in Requests, Audit(q)
    PROVE  Account(updates, audited, announced, aborts, call)'
  <1>1. \A r \in Requests : r # q => call'[r] = call[r]
    BY DEF Audit, Formed, TypeOK
  <1>2. call[q].step \in Owing /\ call[q].step \notin Reporting
    BY DEF Audit, Owing, Reporting
  <1>3. call'[q].step \in {"idle", "announce"}
    BY IdleCall DEF Audit, Formed, TypeOK, Steps
  <1>4. /\ Cardinality(AtSteps(call, Owing)) \in Nat
        /\ Cardinality(AtSteps(call', Owing)) = Cardinality(AtSteps(call, Owing)) - 1
    BY <1>1, <1>2, <1>3, OneCallMoves DEF Owing
  <1>5. /\ Cardinality(AtSteps(call, Reporting)) \in Nat
        /\ Cardinality(AtSteps(call', Reporting)) \in
             {Cardinality(AtSteps(call, Reporting)), Cardinality(AtSteps(call, Reporting)) + 1}
    BY <1>1, <1>2, <1>3, OneCallMoves DEF Reporting
  <1>6. audited' = audited + 1 /\ UNCHANGED <<updates, announced, aborts>>
    BY DEF Audit
  <1>. QED
    BY <1>4, <1>5, <1>6 DEF Account, Formed, TypeOK

LEMMA AnnounceAccount ==
    ASSUME Formed, Account(updates, audited, announced, aborts, call),
           NEW q \in Requests, Announce(q)
    PROVE  Account(updates, audited, announced, aborts, call)'
  <1>1. \A r \in Requests : r # q => call'[r] = call[r]
    BY DEF Announce, Formed, TypeOK
  <1>2. call[q].step = "announce" /\ call'[q].step = "idle"
    BY IdleCall DEF Announce, At, Formed, TypeOK
  <1>3. Cardinality(AtSteps(call', Owing)) = Cardinality(AtSteps(call, Owing))
    BY <1>1, <1>2, OneCallMoves DEF Owing
  <1>4. /\ Cardinality(AtSteps(call, Reporting)) \in Nat
        /\ Cardinality(AtSteps(call', Reporting)) = Cardinality(AtSteps(call, Reporting)) - 1
    BY <1>1, <1>2, OneCallMoves DEF Reporting
  <1>. QED
    BY <1>3, <1>4 DEF Account, Announce, Formed, TypeOK

\* A call that is cut off leaves what it owes unpaid.
LEMMA AbortAccount ==
    ASSUME Formed, Account(updates, audited, announced, aborts, call),
           NEW q \in Requests, Abort(q)
    PROVE  Account(updates, audited, announced, aborts, call)'
  <1>1. \A r \in Requests : r # q => call'[r] = call[r]
    BY DEF Abort, Formed, TypeOK
  <1>2. call'[q].step = "idle"
    BY IdleCall DEF Abort, Formed, TypeOK
  <1>3. ASSUME NEW steps, "idle" \notin steps
        PROVE  /\ Cardinality(AtSteps(call, steps)) \in Nat
               /\ Cardinality(AtSteps(call', steps)) \in
                    {Cardinality(AtSteps(call, steps)), Cardinality(AtSteps(call, steps)) - 1}
    <2>1. CASE call[q].step \in steps
      BY <1>1, <1>2, <1>3, <2>1, OneCallMoves
    <2>2. CASE call[q].step \notin steps
      BY <1>1, <1>2, <1>3, <2>2, OneCallMoves
    <2>. QED
      BY <2>1, <2>2
  <1>4. "idle" \notin Owing /\ "idle" \notin Reporting
    BY DEF Owing, Reporting
  <1>5. aborts' = aborts + 1 /\ UNCHANGED <<updates, audited, announced>>
    BY DEF Abort
  <1>. QED
    BY <1>3, <1>4, <1>5 DEF Account, Formed, TypeOK

LEMMA AccountStep ==
    ASSUME Formed, Account(updates, audited, announced, aborts, call), [Next]_vars
    PROVE  Account(updates, audited, announced, aborts, call)'
  <1>1. CASE UNCHANGED vars
    BY <1>1 DEF vars, Account, AtSteps
  <1>2. ASSUME NEW q \in Requests,
               \/ \E target \in Target : StartMigration(q, target)
               \/ \E target \in Templates : SelectTargetSystem(q, target)
               \/ SetActiveSystemUpdate(q) \/ ReportStore(q)
        PROVE  Account(updates, audited, announced, aborts, call)'
    <2>1. call[q].step \notin Owing \cup Reporting
      BY <1>2 DEF StartMigration, SelectTargetSystem, SetActiveSystemUpdate, ReportStore,
                  Begin, At, Owing, Reporting
    <2>2. \E row : Update(q, row, "audit") \/ Update(q, row, "audit_report")
      BY <1>2 DEF StartMigration, SelectTargetSystem, SetActiveSystemUpdate, ReportStore
    <2>. QED
      BY <2>1, <2>2, UpdateAccount DEF Owing
  <1>3. ASSUME NEW q \in Requests, NEW system,
               SetActiveSystemRead(q, system) \/ ReportBegin(q, system) \/ ReportBuild(q)
        PROVE  Account(updates, audited, announced, aborts, call)'
    <2>1. /\ call[q].step \notin Owing \cup Reporting
          /\ \A r \in Requests : r # q => call'[r] = call[r]
          /\ UNCHANGED <<updates, audited, announced, aborts>>
      BY <1>3 DEF SetActiveSystemRead, ReportBegin, ReportBuild, Begin, At, Owing, Reporting,
                  Formed, TypeOK
    <2>2. call[q] \in Call
      BY DEF Formed, TypeOK
    <2>3. ASSUME SetActiveSystemRead(q, system)
          PROVE  call'[q].step = "activate"
      <3>1. [Idle EXCEPT !.step = "activate", !.for = system,
                         !.status = session.status].step = "activate"
        BY DEF Idle
      <3>. QED
        BY <2>3, <3>1 DEF SetActiveSystemRead, Formed, TypeOK
    <2>4. ASSUME ReportBegin(q, system)
          PROVE  call'[q].step = "report"
      <3>1. [Idle EXCEPT !.step = "report", !.for = system].step = "report"
        BY DEF Idle
      <3>. QED
        BY <2>4, <3>1 DEF ReportBegin, Formed, TypeOK
    <2>5. ASSUME ReportBuild(q)
          PROVE  call'[q].step = "store"
      BY <2>2, <2>5 DEF ReportBuild, Call, Formed, TypeOK
    <2>. QED
      BY <1>3, <2>1, <2>3, <2>4, <2>5, ReadAccount DEF Owing, Reporting
  <1>. QED
    BY <1>1, <1>2, <1>3, AuditAccount, AnnounceAccount, AbortAccount
       DEF Next, Rest, MigrationReport, LogoutMigrationOutput

(***************************************************************************)
(* However many calls overlap and wherever they are cut off, no audit row  *)
(* is without its update and no event without its audit row, and the       *)
(* updates without an audit row are at most those of calls about to write  *)
(* one and of calls that were cut off.                                     *)
(***************************************************************************)
THEOREM UpdatesAccountedFor == Spec => []UpdatesAreAudited
  <1>1. Init => Account(updates, audited, announced, aborts, call)
    <2>. SUFFICES ASSUME Init PROVE Account(updates, audited, announced, aborts, call)
      OBVIOUS
    <2>1. AtSteps(call, Owing) = {} /\ AtSteps(call, Reporting) = {}
      BY IdleCall DEF Init, AtSteps, Owing, Reporting
    <2>. QED
      BY <2>1, FS_EmptySet DEF Init, Account
  <1>2. /\ Formed /\ Account(updates, audited, announced, aborts, call) /\ [Next]_vars
        => Account(updates, audited, announced, aborts, call)'
    BY AccountStep
  <1>. QED
    BY <1>1, <1>2, FormedInit, FormedStep, AccountIsUpdatesAreAudited, PTL DEF Spec

-----------------------------------------------------------------------------
(***************************************************************************)
(* One call at a time.  StatusTellsTarget and ReportIsCurrent are about    *)
(* the session alone, but a step writes what an earlier one has read: they *)
(* are inductive only with the reads still being so.                       *)
(***************************************************************************)
OneCall == \A q, r \in Requests : q = r

ReadsHold ==
    \A q \in Requests :
        /\ At(q, "activate") =>
             /\ call[q].status = session.status
             /\ call[q].for = "selected" => session.target # None
        /\ At(q, "store") /\ call[q].for = "selected" => call[q].target = session.target

Consistent == Formed /\ ReadsHold /\ StatusTellsTarget /\ ReportIsCurrent

\* After an update no call holds a read.
LEMMA UpdateReadsHold ==
    ASSUME OneCall, Formed, NEW q \in Requests, NEW row, NEW step \in {"audit", "audit_report"},
           Update(q, row, step)
    PROVE  ReadsHold' /\ session' = row
  <1>1. call'[q].step = step
    BY DEF Update, Formed, TypeOK, Idle
  <1>2. \A r \in Requests : r = q
    BY DEF OneCall
  <1>. QED
    BY <1>1, <1>2 DEF Update, ReadsHold, At

LEMMA StartConsistent ==
    ASSUME OneCall, Consistent, NEW q \in Requests, NEW target \in Target,
           StartMigration(q, target)
    PROVE  ReadsHold' /\ StatusTellsTarget' /\ ReportIsCurrent'
  <1>. DEFINE row == [session EXCEPT
                !.status = IF target = None THEN "booted_old" ELSE "target_selected",
                !.target = target]
  <1>1. /\ row.status = IF target = None THEN "booted_old" ELSE "target_selected"
        /\ row.target = target
    BY DEF Consistent, Formed, TypeOK, Session
  <1>2. Update(q, row, "audit")
    BY DEF StartMigration
  <1>. HIDE DEF row
  <1>3. ReadsHold' /\ session' = row
    BY <1>2, UpdateReadsHold DEF Consistent
  <1>. QED
    BY <1>1, <1>3 DEF StatusTellsTarget, ReportIsCurrent

LEMMA SelectConsistent ==
    ASSUME OneCall, Consistent, NEW q \in Requests, NEW target \in Templates,
           SelectTargetSystem(q, target)
    PROVE  ReadsHold' /\ StatusTellsTarget' /\ ReportIsCurrent'
  <1>. DEFINE row == [session EXCEPT !.target = target, !.status = "target_selected"]
  <1>1. row.status = "target_selected" /\ row.target = target /\ target # None
    BY MigrationAssumption DEF Consistent, Formed, TypeOK, Session
  <1>2. Update(q, row, "audit")
    BY DEF SelectTargetSystem
  <1>. HIDE DEF row
  <1>3. ReadsHold' /\ session' = row
    BY <1>2, UpdateReadsHold DEF Consistent
  <1>. QED
    BY <1>1, <1>3 DEF StatusTellsTarget, ReportIsCurrent

\* The status read is still the session's, and selected has a target.
LEMMA ActivateConsistent ==
    ASSUME OneCall, Consistent, NEW q \in Requests, SetActiveSystemUpdate(q)
    PROVE  /\ ReadsHold' /\ StatusTellsTarget' /\ ReportIsCurrent'
           /\ session'.status = session.status
  <1>. DEFINE status == ActivatedStatus(call[q].for, call[q].status)
              row == [session EXCEPT !.active = call[q].for, !.status = status]
  <1>1. /\ row.status = status /\ row.target = session.target
        /\ row.report = session.report
    BY DEF Consistent, Formed, TypeOK, Session
  <1>2. status = session.status
    BY DEF Consistent, ReadsHold, StatusTellsTarget, SetActiveSystemUpdate, ActivatedStatus
  <1>3. Update(q, row, "audit")
    BY DEF SetActiveSystemUpdate
  <1>. HIDE DEF row, status
  <1>4. ReadsHold' /\ session' = row
    BY <1>3, UpdateReadsHold DEF Consistent
  <1>. QED
    BY <1>1, <1>2, <1>4 DEF Consistent, StatusTellsTarget, ReportIsCurrent

LEMMA ReportStoreConsistent ==
    ASSUME OneCall, Consistent, NEW q \in Requests, ReportStore(q)
    PROVE  ReadsHold' /\ StatusTellsTarget' /\ ReportIsCurrent'
  <1>. DEFINE report == [for |-> call[q].for, target |-> call[q].target]
              row == [session EXCEPT !.report = report, !.status = "reported"]
  <1>1. /\ row.status = "reported" /\ row.target = session.target
        /\ row.report.for = call[q].for /\ row.report.target = call[q].target
    BY DEF Consistent, Formed, TypeOK, Session
  <1>2. call[q].for = "selected" => call[q].target = session.target
    BY DEF Consistent, ReadsHold, ReportStore
  <1>3. Update(q, row, "audit_report")
    BY DEF ReportStore
  <1>. HIDE DEF row, report
  <1>4. ReadsHold' /\ session' = row
    BY <1>3, UpdateReadsHold DEF Consistent
  <1>. QED
    BY <1>1, <1>2, <1>4 DEF StatusTellsTarget, ReportIsCurrent

\* A step that leaves the session alone and reads what it is.
LEMMA ReadConsistent ==
    ASSUME OneCall, Consistent, UNCHANGED session, NEW q \in Requests, NEW c,
           call' = [call EXCEPT ![q] = c],
           c.step = "activate" =>
             /\ c.status = session.status
             /\ c.for = "selected" => session.target # None,
           c.step = "store" /\ c.for = "selected" => c.target = session.target
    PROVE  ReadsHold' /\ StatusTellsTarget' /\ ReportIsCurrent'
  <1>1. \A r \in Requests : call'[r] = c
    BY DEF OneCall, Consistent, Formed, TypeOK
  <1>. QED
    BY <1>1 DEF Consistent, ReadsHold, At, StatusTellsTarget, ReportIsCurrent

LEMMA OtherStepsConsistent ==
    ASSUME OneCall, Consistent, NEW q \in Requests,
           \/ \E system \in Systems : SetActiveSystemRead(q, system)
           \/ MigrationReport(q) \/ LogoutMigrationOutput(q)
           \/ ReportBuild(q) \/ Audit(q) \/ Announce(q) \/ Abort(q)
    PROVE  ReadsHold' /\ StatusTellsTarget' /\ ReportIsCurrent'
  <1>1. ASSUME NEW system \in Systems, SetActiveSystemRead(q, system)
        PROVE  ReadsHold' /\ StatusTellsTarget' /\ ReportIsCurrent'
    <2>. DEFINE c == [Idle EXCEPT !.step = "activate", !.for = system,
                                  !.status = session.status]
    <2>1. /\ c.step = "activate" /\ c.status = session.status /\ c.for = system
          /\ call' = [call EXCEPT ![q] = c] /\ UNCHANGED session
          /\ system = "selected" => session.target # None
      BY <1>1 DEF SetActiveSystemRead, Idle
    <2>. HIDE DEF c
    <2>. QED
      BY <2>1, ReadConsistent
  <1>2. ASSUME NEW system, ReportBegin(q, system)
        PROVE  ReadsHold' /\ StatusTellsTarget' /\ ReportIsCurrent'
    <2>. DEFINE c == [Idle EXCEPT !.step = "report", !.for = system]
    <2>1. c.step = "report" /\ call' = [call EXCEPT ![q] = c] /\ UNCHANGED session
      BY <1>2 DEF ReportBegin, Idle
    <2>. HIDE DEF c
    <2>. QED
      BY <2>1, ReadConsistent
  <1>3. CASE ReportBuild(q)
    <2>. DEFINE plan == IF call[q].for = "selected" THEN session.target ELSE None
                c == [call[q] EXCEPT !.step = "store", !.target = plan]
    <2>1. call[q] \in Call
      BY DEF Consistent, Formed, TypeOK
    <2>2. c.step = "store" /\ c.target = plan /\ c.for = call[q].for
      BY <2>1 DEF Call
    <2>3. call' = [call EXCEPT ![q] = c] /\ UNCHANGED session
      BY <1>3, <2>1 DEF ReportBuild, Consistent, Formed, TypeOK, Call
    <2>4. call[q].for = "selected" => plan = session.target
      OBVIOUS
    <2>. HIDE DEF c, plan
    <2>. QED
      BY <2>2, <2>3, <2>4, ReadConsistent
  <1>4. ASSUME Audit(q) \/ Announce(q) \/ Abort(q)
        PROVE  ReadsHold' /\ StatusTellsTarget' /\ ReportIsCurrent'
    <2>. DEFINE announcing == [Idle EXCEPT !.step = "announce"]
    <2>1. announcing.step = "announce" /\ Idle.step = "idle"
      BY DEF Idle
    <2>2. \/ call' = [call EXCEPT ![q] = Idle]
          \/ call' = [call EXCEPT ![q] = announcing]
      BY <1>4 DEF Audit, Announce, Abort
    <2>3. UNCHANGED session
      BY <1>4 DEF Audit, Announce, Abort
    <2>. HIDE DEF announcing
    <2>. QED
      BY <2>1, <2>2, <2>3, ReadConsistent
  <1>. QED
    BY <1>1, <1>2, <1>3, <1>4 DEF MigrationReport, LogoutMigrationOutput

LEMMA ConsistentInit == Init => Consistent
  BY FormedInit DEF Init, Consistent, ReadsHold, At, Idle, StatusTellsTarget,
     ReportIsCurrent, NoSession, NoReport

LEMMA ConsistentStep ==
    ASSUME OneCall, Consistent, [Next]_vars
    PROVE  Consistent'
  <1>1. Formed'
    BY FormedStep DEF Consistent
  <1>2. CASE UNCHANGED vars
    BY <1>1, <1>2 DEF vars, Consistent, ReadsHold, At, StatusTellsTarget, ReportIsCurrent
  <1>. QED
    BY <1>1, <1>2, StartConsistent, SelectConsistent, ActivateConsistent,
       ReportStoreConsistent, OtherStepsConsistent
    DEF Next, Rest, Consistent

LEMMA ConsistentAlways == ASSUME OneCall PROVE Spec => []Consistent
  <1>1. Consistent /\ [Next]_vars => Consistent'
    BY ConsistentStep
  <1>. QED
    BY <1>1, ConsistentInit, PTL DEF Spec

(***************************************************************************)
(* With one call at a time the status tells whether a target is selected,  *)
(* in whatever order the calls come and wherever they are cut off.         *)
(***************************************************************************)
THEOREM StatusAndTarget == OneCall => (Spec => []StatusTellsTarget)
  <1>. SUFFICES ASSUME OneCall PROVE Spec => []StatusTellsTarget
    OBVIOUS
  <1>1. Consistent => StatusTellsTarget
    BY DEF Consistent
  <1>. QED
    BY <1>1, ConsistentAlways, PTL

(***************************************************************************)
(* With one call at a time the plan of a reported session is for the       *)
(* target that is selected.                                                *)
(***************************************************************************)
THEOREM ReportedPlanIsCurrent == OneCall => (Spec => []ReportIsCurrent)
  <1>. SUFFICES ASSUME OneCall PROVE Spec => []ReportIsCurrent
    OBVIOUS
  <1>1. Consistent => ReportIsCurrent
    BY DEF Consistent
  <1>. QED
    BY <1>1, ConsistentAlways, PTL

(***************************************************************************)
(* With one call at a time activating a system never takes a reported      *)
(* session back: it writes the status it read.                             *)
(***************************************************************************)
THEOREM ActivationKeepsReports == OneCall => (Spec => ActivatingKeepsReported)
  <1>. SUFFICES ASSUME OneCall PROVE Spec => ActivatingKeepsReported
    OBVIOUS
  <1>1. Consistent /\ [Next]_vars =>
          [session.status = "reported" /\ session'.status # "reported" =>
              \A q \in Requests : ~SetActiveSystemUpdate(q)]_vars
    BY ActivateConsistent
  <1>. QED
    BY <1>1, ConsistentAlways, PTL DEF Spec, ActivatingKeepsReported

====
