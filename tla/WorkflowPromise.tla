--------------------------- MODULE WorkflowPromise ---------------------------
(***************************************************************************)
(* What the workflow engine promises its users when requests come one at a *)
(* time, with no handlers, tasks or trails: a record's state, the          *)
(* installed workflow, and for each approval its verdict.                  *)
(*                                                                         *)
(* A record moves in two ways only: directly, by an ungated transition     *)
(* that the installed workflow declares from its present state; or in the  *)
(* same instant as the one verdict on a gated transition that was declared *)
(* from the state the record was in when it was asked for.                 *)
(***************************************************************************)
CONSTANTS Records, States, Definitions, ApprovalIds, None, NoRecord

VARIABLES
    installed,   \* the definition in force, or None
    state,       \* state of each record, None without one, or NoRecord
    verdict,     \* "absent", "pending", "approved" or "rejected"
    subject      \* the record and target of each approval asked for

vars == <<installed, state, verdict, subject>>

NoSubject == [record |-> None, target |-> None]

Init ==
    /\ installed = None
    /\ state = [r \in Records |-> NoRecord]
    /\ verdict = [p \in ApprovalIds |-> "absent"]
    /\ subject = [p \in ApprovalIds |-> NoSubject]

Install(d) ==
    /\ installed' = d
    /\ UNCHANGED <<state, verdict, subject>>

Create(r) ==
    /\ state[r] = NoRecord
    /\ state' = [state EXCEPT ![r] =
                    IF installed = None THEN None ELSE installed.initial]
    /\ UNCHANGED <<installed, verdict, subject>>

\* A record without a state stands at the initial one.
StandsAt(r, s) ==
    state[r] = s \/ (state[r] = None /\ s = installed.initial)

Move(r) ==
    /\ installed # None
    /\ \E t \in installed.transitions :
         /\ ~t.gated
         /\ StandsAt(r, t.from)
         /\ state' = [state EXCEPT ![r] = t.to]
    /\ UNCHANGED <<installed, verdict, subject>>

Ask(p, r) ==
    /\ verdict[p] = "absent"
    /\ installed # None
    /\ \E t \in installed.transitions :
         /\ t.gated
         /\ StandsAt(r, t.from)
         /\ subject' = [subject EXCEPT ![p] = [record |-> r, target |-> t.to]]
    /\ verdict' = [verdict EXCEPT ![p] = "pending"]
    /\ UNCHANGED <<installed, state>>

Approve(p) ==
    /\ verdict[p] = "pending"
    /\ verdict' = [verdict EXCEPT ![p] = "approved"]
    /\ state' = [state EXCEPT ![subject[p].record] = subject[p].target]
    /\ UNCHANGED <<installed, subject>>

Reject(p) ==
    /\ verdict[p] = "pending"
    /\ verdict' = [verdict EXCEPT ![p] = "rejected"]
    /\ UNCHANGED <<installed, state, subject>>

Next ==
    \/ \E d \in Definitions : Install(d)
    \/ \E r \in Records : Create(r) \/ Move(r)
    \/ \E p \in ApprovalIds : Approve(p) \/ Reject(p)
    \/ \E p \in ApprovalIds, r \in Records : Ask(p, r)

Spec == Init /\ [][Next]_vars
=============================================================================
