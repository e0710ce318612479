------------------------ MODULE MCDocumentsWorkflow ------------------------
(* Small instances of the document workflow. *)
EXTENDS DocumentsWorkflow

CONSTANTS q, r      \* a QMB and a plain user

\* One reviewer and one approver, or both users in both roles.
MCAssignments ==
    {[editors |-> {r}, reviewers |-> {r}, approvers |-> {q}],
     [editors |-> {r}, reviewers |-> {q, r}, approvers |-> {q, r}]}

MCLongRelease == {LongRelease}

=============================================================================
