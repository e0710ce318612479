------------------------- MODULE MCDocumentComments -------------------------
(* A document whose second upload renumbers the comments of the first. *)
EXTENDS DocumentComments

CONSTANTS q, r,    \* a QMB and a plain user
          c1, c2,  \* two uploads
          t1, t2   \* texts

MCAssignments == {[editors |-> {r}, reviewers |-> {r}, approvers |-> {q}]}

MCLongRelease == {LongRelease}

MCDocxComments ==
    [c \in Contents |->
        IF c = c1 THEN <<[word |-> 1, text |-> t1]>>
                  ELSE <<[word |-> 1, text |-> t2], [word |-> 2, text |-> t1]>>]
=============================================================================
