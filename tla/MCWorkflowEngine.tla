-------------------------- MODULE MCWorkflowEngine --------------------------
(***************************************************************************)
(* Finite instances of WorkflowEngine: an invoice that a gated transition  *)
(* approves and an ungated one voids, a second definition that drops the   *)
(* gate, and one that validation refuses.                                  *)
(***************************************************************************)
EXTENDS WorkflowEngine, TLC

CONSTANTS ann, bob

MCStates == {"draft", "approved", "void"}
MCKeys == {"approve", "void"}
MCResources == {"object:invoice", "object:invoice.void", "task", "workflows"}

Step(key, from, to, guard, gated) ==
    [key |-> key, from |-> from, to |-> to, guard |-> guard, gated |-> gated]

GatedInvoice ==
    [initial |-> "draft", states |-> MCStates,
     transitions |-> {Step("approve", "draft", "approved", None, TRUE),
                      Step("void", "draft", "void", "object:invoice.void", FALSE)}]

OpenInvoice ==
    [initial |-> "draft", states |-> {"draft", "approved"},
     transitions |-> {Step("approve", "draft", "approved", None, FALSE)}]

BrokenInvoice ==
    [initial |-> "draft", states |-> {"draft"},
     transitions |-> {Step("void", "draft", "void", None, FALSE)}]

MCDefinitions == {GatedInvoice, OpenInvoice, BrokenInvoice}

\* ann runs the desk, bob decides; both may request.
MCGranted ==
    ({ann} \X {"create", "transition"} \X {"object:invoice"})
      \cup ({bob} \X {"approve", "transition"} \X {"object:invoice"})
      \cup {<<ann, "configure", "workflows">>,
            <<ann, "transition", "object:invoice.void">>,
            <<ann, "create", "task">>,
            <<bob, "read", "task">>}

RowSymmetry == Permutations(ApprovalIds) \cup Permutations(TaskIds)
=============================================================================
