------------------------------ MODULE Migration ------------------------------
(***************************************************************************)
(* The first-run migration session of a tenant (migration.rs): one row of  *)
(* migration_sessions that start, select, activate and report calls, and   *)
(* logouts, update.  None of these calls uses a transaction: the update,   *)
(* the audit row and, for a report, the event are written one after the    *)
(* other, and set_active_system and reports write what an earlier read of  *)
(* the session told them.                                                  *)
(*                                                                         *)
(* Snapshots, plans and the contents of reports are left out: a report is  *)
(* the system it is for and the target it was planned against.             *)
(***************************************************************************)
EXTENDS Naturals, FiniteSets

CONSTANTS
    Requests,   \* slots for concurrently running calls
    Templates,  \* keys of the built-in templates
    MaxCalls,   \* bound: calls that update the session
    MaxAborts,  \* bound: calls that may be cut off
    None

ASSUME MigrationAssumption ==
    /\ IsFiniteSet(Requests)
    /\ None \notin Templates
    /\ MaxCalls \in Nat /\ MaxAborts \in Nat

VARIABLES
    session,    \* the row of the tenant, NoSession before the first start
    call,       \* what each running call has read and does next
    updates,    \* history: committed updates of the session
    audited,    \* audit rows of these calls
    announced,  \* events migration.report_generated
    aborts

vars == <<session, call, updates, audited, announced, aborts>>

Systems  == {"old", "selected"}
Statuses == {"none", "booted_old", "target_selected", "reported"}
Target   == Templates \cup {None}
Report   == [for: Systems \cup {None}, target: Target]

Session   == [status: Statuses, active: Systems, target: Target, report: Report]
NoReport  == [for |-> None, target |-> None]
NoSession == [status |-> "none", active |-> "old", target |-> None, report |-> NoReport]

\* for, target: the system to report on or to activate and the target read;
\* status: the status set_active_system read.
Steps == {"idle", "activate", "report", "store", "audit", "audit_report", "announce"}
Call  == [step: Steps, status: Statuses, for: Systems, target: Target]
Idle  == [step |-> "idle", status |-> "none", for |-> "old", target |-> None]

TypeOK ==
    /\ session \in Session
    /\ session.status = "none" => session = NoSession
    /\ session.report.target # None => session.report.for = "selected"
    /\ call \in [Requests -> Call]
    /\ updates \in Nat /\ audited \in Nat /\ announced \in Nat /\ aborts \in Nat

Init ==
    /\ session = NoSession
    /\ call = [q \in Requests |-> Idle]
    /\ updates = 0 /\ audited = 0 /\ announced = 0 /\ aborts = 0

-----------------------------------------------------------------------------
At(q, step) == call[q].step = step
Started     == session.status # "none"

\* A call begins; the bound stands for as many calls as one likes.
Begin(q) == At(q, "idle") /\ updates < MaxCalls

\* The update of the session; the next step of the call is step.
Update(q, row, step) ==
    /\ session' = row
    /\ updates' = updates + 1
    /\ call' = [call EXCEPT ![q] = [Idle EXCEPT !.step = step]]
    /\ UNCHANGED <<audited, announced, aborts>>

\* Mutant: a selected target is kept when none is given.
StartMigrationKeepsTarget(q, target) ==
    /\ Begin(q)
    /\ Update(q, [session EXCEPT
                    !.status = IF target = None THEN "booted_old" ELSE "target_selected",
                    !.target = IF target = None THEN @ ELSE target], "audit")

\* start_migration: inserts the row, or overwrites status, target and snapshot
\* of the one there is.
StartMigration(q, target) ==
    /\ Begin(q)
    /\ Update(q, [session EXCEPT
                    !.status = IF target = None THEN "booted_old" ELSE "target_selected",
                    !.target = target], "audit")

\* Mutant: the status stays as it is.
SelectTargetSystemOnly(q, target) ==
    /\ Begin(q) /\ Started
    /\ Update(q, [session EXCEPT !.target = target,
                    !.status = IF @ = "booted_old" THEN "target_selected" ELSE @], "audit")

\* select_target_system; a session is never deleted, so that it was there when
\* it was read is enough.
SelectTargetSystem(q, target) ==
    /\ Begin(q) /\ Started
    /\ Update(q, [session EXCEPT !.target = target, !.status = "target_selected"],
              "audit")

\* set_active_system reads the session ...
SetActiveSystemRead(q, system) ==
    /\ Begin(q) /\ Started
    /\ system = "selected" => session.target # None
    /\ call' = [call EXCEPT ![q] = [Idle EXCEPT !.step = "activate", !.for = system,
                                                !.status = session.status]]
    /\ UNCHANGED <<session, updates, audited, announced, aborts>>

\* Mutant: the status follows the system that is activated.
ActivatedStatusOfSystem(system, status) ==
    IF system = "selected" THEN "target_selected" ELSE "booted_old"

\* The status it writes, given the one it read.
ActivatedStatus(system, status) ==
    IF system = "selected" /\ status = "booted_old" THEN "target_selected" ELSE status

\* ... and updates it.
SetActiveSystemUpdate(q) ==
    /\ At(q, "activate")
    /\ Update(q, [session EXCEPT !.active = call[q].for,
                                 !.status = ActivatedStatus(call[q].for, call[q].status)],
              "audit")

\* migration_report, and logout for the system that is active
ReportBegin(q, system) ==
    /\ Begin(q) /\ Started
    /\ call' = [call EXCEPT ![q] = [Idle EXCEPT !.step = "report", !.for = system]]
    /\ UNCHANGED <<session, updates, audited, announced, aborts>>

MigrationReport(q) == \E system \in Systems : ReportBegin(q, system)
LogoutMigrationOutput(q) == ReportBegin(q, session.active)

\* Mutant: a report for the old system gets a plan as well.
ReportBuildAlways(q) ==
    /\ At(q, "report")
    /\ call' = [call EXCEPT ![q].step = "store", ![q].target = session.target]
    /\ UNCHANGED <<session, updates, audited, announced, aborts>>

\* generate_and_store_report reads the session a second time: a report for the
\* selected system is planned against the target found now.
ReportBuild(q) ==
    /\ At(q, "report")
    /\ call' = [call EXCEPT
                  ![q].step = "store",
                  ![q].target = IF call[q].for = "selected" THEN session.target ELSE None]
    /\ UNCHANGED <<session, updates, audited, announced, aborts>>

ReportStore(q) ==
    /\ At(q, "store")
    /\ Update(q, [session EXCEPT
                    !.report = [for |-> call[q].for, target |-> call[q].target],
                    !.status = "reported"], "audit_report")

\* Mutant: a report gets no audit row.
AuditOnlyUpdates(q) ==
    /\ call[q].step \in {"audit", "audit_report"}
    /\ audited' = IF At(q, "audit") THEN audited + 1 ELSE audited
    /\ call' = [call EXCEPT ![q] = Idle]
    /\ UNCHANGED <<session, updates, announced, aborts>>

\* The audit row of an update; a report then goes on to its event.
Audit(q) ==
    /\ call[q].step \in {"audit", "audit_report"}
    /\ audited' = audited + 1
    /\ call' = [call EXCEPT ![q] = IF At(q, "audit") THEN Idle
                                   ELSE [Idle EXCEPT !.step = "announce"]]
    /\ UNCHANGED <<session, updates, announced, aborts>>

\* The event of a report.
Announce(q) ==
    /\ At(q, "announce")
    /\ announced' = announced + 1
    /\ call' = [call EXCEPT ![q] = Idle]
    /\ UNCHANGED <<session, updates, audited, aborts>>

\* A query fails, the client goes away or the process ends.
Abort(q) ==
    /\ ~At(q, "idle") /\ aborts < MaxAborts
    /\ aborts' = aborts + 1
    /\ call' = [call EXCEPT ![q] = Idle]
    /\ UNCHANGED <<session, updates, audited, announced>>

\* The bound on calls is reached.
Rest == updates >= MaxCalls /\ UNCHANGED vars

Next ==
    \/ \E q \in Requests :
          \/ \E target \in Target : StartMigration(q, target)
          \/ \E target \in Templates : SelectTargetSystem(q, target)
          \/ \E system \in Systems : SetActiveSystemRead(q, system)
          \/ SetActiveSystemUpdate(q)
          \/ MigrationReport(q) \/ LogoutMigrationOutput(q)
          \/ ReportBuild(q) \/ ReportStore(q)
          \/ Audit(q) \/ Announce(q) \/ Abort(q)
    \/ Rest

Spec == Init /\ [][Next]_vars

-----------------------------------------------------------------------------
(***************************************************************************)
(* The status tells whether a target is selected: booted_old is without    *)
(* one, target_selected has one, whatever order the calls come in.         *)
(***************************************************************************)
StatusTellsTarget ==
    /\ session.status = "booted_old" => session.target = None
    /\ session.status = "target_selected" => session.target # None

(***************************************************************************)
(* While the status is reported, a stored plan is one for the target that  *)
(* is selected: a new choice of target takes the status back.              *)
(***************************************************************************)
ReportIsCurrent ==
    session.status = "reported" /\ session.report.for = "selected" =>
        session.report.target = session.target

(***************************************************************************)
(* Activating a system never takes a session that has reported back        *)
(* (set_active_system).                                                    *)
(***************************************************************************)
ActivatingKeepsReported ==
    [][session.status = "reported" /\ session'.status # "reported" =>
           \A q \in Requests : ~SetActiveSystemUpdate(q)]_vars

(***************************************************************************)
(* The update, its audit row and the event of a report are separate        *)
(* writes: no audit row is without its update and no event without its     *)
(* audit row, and there are no more updates without an audit row than      *)
(* calls about to write one and calls that were cut off.                   *)
(***************************************************************************)
UpdatesAreAudited ==
    LET owing    == Cardinality({q \in Requests : call[q].step \in {"audit", "audit_report"}})
        reported == Cardinality({q \in Requests : At(q, "announce")})
    IN  /\ audited + owing <= updates
        /\ updates <= audited + owing + aborts
        /\ announced + reported <= audited

=============================================================================
