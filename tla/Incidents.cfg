SPECIFICATION Spec
CONSTANTS
    None = None
    Users = {q, r}
    QMBs = {q}
    MaxIncidents = 2
    Steered = {2}
    MaxOpenInquiries = 2
    MaxOpenActions = 1
    CapaRules = {"repeated"}
    Assessments <- MCAssessments
    Batches = {b1}
INVARIANTS
    ClosedEvidence
    InterruptedAssessmentRecoverable
    StatusBackedByRows
    CompletedReviewAcknowledged
PROPERTIES
    AssessmentFixedOnceActedOn
