------------------------ MODULE MCDocumentsRegistry ------------------------
(* Small instances of the registry projection. *)
EXTENDS DocumentsRegistry

CONSTANT q      \* a QMB who fills every role: permissions are not the subject

MCAssignments == {[editors |-> {q}, reviewers |-> {}, approvers |-> {q}]}

\* Short controlled documents: released by an approver, or directly after editing.
MCProfiles ==
    {Requires(TRUE, FALSE, TRUE, Profile(ShortChain, "CONTROLLED_SHORT", FALSE, {})),
     Requires(TRUE, FALSE, FALSE, Profile(DirectChain, "CONTROLLED_SHORT", FALSE, {}))}

=============================================================================
