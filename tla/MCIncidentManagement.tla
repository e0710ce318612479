------------------------ MODULE MCIncidentManagement ------------------------
(* Small instances of the incident management. *)
EXTENDS IncidentManagement

\* The assessments that lead to different decisions.
MCAssessments ==
    {[classification |-> "OBSERVATION", triggers |-> {},           capa |-> FALSE, rootCause |-> FALSE],
     [classification |-> "ERROR",       triggers |-> {},           capa |-> FALSE, rootCause |-> FALSE],
     [classification |-> "ERROR",       triggers |-> {},           capa |-> FALSE, rootCause |-> TRUE],
     [classification |-> "ERROR",       triggers |-> {"critical"}, capa |-> FALSE, rootCause |-> FALSE],
     [classification |-> "ERROR",       triggers |-> {"repeated"}, capa |-> FALSE, rootCause |-> FALSE],
     [classification |-> "ERROR",       triggers |-> {"critical"}, capa |-> TRUE,  rootCause |-> FALSE]}

=============================================================================
