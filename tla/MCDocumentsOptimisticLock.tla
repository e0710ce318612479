--------------------- MODULE MCDocumentsOptimisticLock ---------------------
(* Small instances of the clients of the document routes. *)
EXTENDS DocumentsOptimisticLock

CONSTANTS q, r      \* a QMB and a plain user

MCAssignments ==
    {[editors |-> {q}, reviewers |-> {r}, approvers |-> {q}]}

MCLongRelease == {LongRelease}

=============================================================================
