------------------------ MODULE IncidentManagement ------------------------
(***************************************************************************)
(* Incidents, their assessment, CAPA and closure, and the periodic         *)
(* management review.  The module keeps its own SQLite database, and every *)
(* repository call is a transaction of its own.  An operation is therefore *)
(* a run of commits: it is refused where a check fails, or is cut off by a *)
(* database error or the end of the process, and what it committed before  *)
(* stays.  A run is the sequence of states of the incident file it commits *)
(* one after another; an action takes the file to any state of its run.    *)
(*                                                                         *)
(* Texts, deadlines, labels, groups, artifacts, reports and the timeline   *)
(* are left out.                                                           *)
(***************************************************************************)
EXTENDS Naturals, Sequences, SequencesExt

CONSTANTS
    Users,            \* user ids
    QMBs,             \* users that pass require_qmb
    MaxIncidents,     \* bound: incident numbers that are allocated
    Steered,          \* bound: incident numbers a QMB works on
    MaxOpenInquiries, \* bound: inquiries of one incident open at a time
    MaxOpenActions,   \* bound: actions of one incident open at a time
    CapaRules,        \* triggers for which the settings demand a CAPA
    Assessments,      \* assessments a QMB may enter
    Batches,          \* ids of management review batches
    None

Incidents == 1..MaxIncidents

Triggers ==
    {"critical", "repeated", "patient_safety", "system_risk",
     "formal_deviation", "result_correctness", "escalation"}

Classifications ==
    {"OBSERVATION", "ERROR", "DEVIATION", "NEAR_MISS", "RISK"}

ASSUME IncidentAssumption ==
    /\ MaxIncidents \in Nat
    /\ MaxOpenInquiries \in Nat
    /\ MaxOpenActions \in Nat
    /\ Steered \subseteq Incidents
    /\ QMBs \subseteq Users
    /\ None \notin Users \cup Classifications \cup
           {"PLANNED", "EFFECTIVE", "INEFFECTIVE", "PENDING",
            "INCLUDED", "IN_DISCUSSION", "ACKNOWLEDGED"}
    /\ CapaRules \subseteq Triggers
    /\ Assessments \subseteq
           [classification : Classifications, triggers : SUBSET Triggers,
            capa : BOOLEAN, rootCause : BOOLEAN]

VARIABLES
    allocated,  \* incident numbers handed out so far
    file,       \* incident -> its file: the incident row and the rows that hang on it
    leitung,    \* users with the module role Leitung
    batch       \* batch -> status and status of its items

vars == <<allocated, file, leitung, batch>>

IncidentStatus ==
    {"SUBMITTED", "QMB_REVIEW", "INQUIRY_OPEN", "INQUIRY_ANSWERED",
     "DOCUMENTATION_ONLY", "ASSESSED", "ROOT_CAUSE_REQUIRED",
     "ROOT_CAUSE_IN_PROGRESS", "CAPA_REQUIRED", "CAPA_PLANNING",
     "ACTIONS_IN_PROGRESS", "FOLLOW_UP", "EFFECTIVENESS_PLANNED",
     "EFFECTIVENESS_REVIEW", "CLOSURE_REVIEW", "LEADERSHIP_ACK_REQUIRED",
     "CLOSED", "ARCHIVED"}

ItemStatus == {"INCLUDED", "IN_DISCUSSION", "ACKNOWLEDGED"}

IncidentFile ==
    [status             : IncidentStatus \cup {"ABSENT"},
     reporter           : Users \cup {None},
     classification     : Classifications \cup {None},
     critical           : BOOLEAN,
     capaRequired       : BOOLEAN,
     rootCauseRequired  : BOOLEAN,
     leadershipRequired : BOOLEAN,
     openInquiries      : 0..MaxOpenInquiries,
     openActions        : 0..MaxOpenActions,
     capa               : BOOLEAN,
     rca                : BOOLEAN,
     review             : {None, "PLANNED", "EFFECTIVE", "INEFFECTIVE"},
     ack                : {None, "PENDING", "ACKNOWLEDGED"},
     ackUser            : Users \cup {None},
     closedAt           : BOOLEAN,
     archivedAt         : BOOLEAN]

\* The row submit_incident inserts.
NewFile(u) ==
    [status |-> "SUBMITTED", reporter |-> u, classification |-> None,
     critical |-> FALSE, capaRequired |-> FALSE, rootCauseRequired |-> FALSE,
     leadershipRequired |-> FALSE, openInquiries |-> 0, openActions |-> 0,
     capa |-> FALSE, rca |-> FALSE, review |-> None, ack |-> None,
     ackUser |-> None, closedAt |-> FALSE, archivedAt |-> FALSE]

NoFile == [NewFile(None) EXCEPT !.status = "ABSENT"]

NoItems == [i \in Incidents |-> None]

NoBatch == [status |-> "ABSENT", items |-> NoItems]

TypeOK ==
    /\ allocated \in 0..MaxIncidents
    /\ file \in [Incidents -> IncidentFile]
    /\ leitung \subseteq Users
    /\ batch \in [Batches -> [status : {"ABSENT", "OPEN", "IN_DISCUSSION", "COMPLETED"},
                              items  : [Incidents -> ItemStatus \cup {None}]]]

Init ==
    /\ allocated = 0
    /\ file = [i \in Incidents |-> NoFile]
    /\ leitung = {}
    /\ batch = [b \in Batches |-> NoBatch]

-----------------------------------------------------------------------------
(* Status transitions and runs of commits *)

Followers ==
    [SUBMITTED               |-> {"QMB_REVIEW", "INQUIRY_OPEN"},
     QMB_REVIEW              |-> {"INQUIRY_OPEN", "DOCUMENTATION_ONLY", "ASSESSED",
                                  "ROOT_CAUSE_REQUIRED", "CAPA_REQUIRED"},
     INQUIRY_OPEN            |-> {"INQUIRY_ANSWERED"},
     INQUIRY_ANSWERED        |-> {"QMB_REVIEW", "DOCUMENTATION_ONLY", "ASSESSED",
                                  "ROOT_CAUSE_REQUIRED", "CAPA_REQUIRED"},
     DOCUMENTATION_ONLY      |-> {"CLOSURE_REVIEW"},
     ASSESSED                |-> {"ACTIONS_IN_PROGRESS", "CAPA_PLANNING", "CLOSURE_REVIEW"},
     ROOT_CAUSE_REQUIRED     |-> {"ROOT_CAUSE_IN_PROGRESS", "CAPA_REQUIRED"},
     ROOT_CAUSE_IN_PROGRESS  |-> {"CAPA_REQUIRED", "CAPA_PLANNING", "CLOSURE_REVIEW"},
     CAPA_REQUIRED           |-> {"CAPA_PLANNING", "ROOT_CAUSE_IN_PROGRESS"},
     CAPA_PLANNING           |-> {"ACTIONS_IN_PROGRESS"},
     ACTIONS_IN_PROGRESS     |-> {"FOLLOW_UP", "EFFECTIVENESS_PLANNED"},
     FOLLOW_UP               |-> {"ACTIONS_IN_PROGRESS", "EFFECTIVENESS_PLANNED", "CAPA_PLANNING"},
     EFFECTIVENESS_PLANNED   |-> {"EFFECTIVENESS_REVIEW", "FOLLOW_UP"},
     EFFECTIVENESS_REVIEW    |-> {"CLOSURE_REVIEW", "FOLLOW_UP"},
     CLOSURE_REVIEW          |-> {"LEADERSHIP_ACK_REQUIRED", "CLOSED"},
     LEADERSHIP_ACK_REQUIRED |-> {"CLOSURE_REVIEW"},
     CLOSED                  |-> {"ARCHIVED"},
     ARCHIVED                |-> {}]

\* validate_transition: keeping the status is always accepted.
Allowed(from, to) == to = from \/ to \in Followers[from]

\* The run of an operation that has read the file f and committed nothing yet.
Begin(f) == [commits |-> <<f>>, refused |-> FALSE]

Current(run) == Last(run.commits)

\* A repository call that leaves the file in state f.
Write(run, f) ==
    IF run.refused THEN run ELSE [run EXCEPT !.commits = Append(@, f)]

\* set_status: check the transition, then update the incident row.
SetStatus(run, to) ==
    IF Allowed(Current(run).status, to)
    THEN Write(run, [Current(run) EXCEPT !.status = to])
    ELSE [run EXCEPT !.refused = TRUE]

\* The operation gets as far as one of its commits.
Commit(i, run) ==
    /\ \E k \in 2..Len(run.commits) : file' = [file EXCEPT ![i] = run.commits[k]]
    /\ UNCHANGED <<allocated, leitung, batch>>

\* An incident the QMB works on.
Open(i) == i \in Steered /\ file[i].status # "ABSENT"

-----------------------------------------------------------------------------
(* Reporting, inquiries and assessment *)

\* allocate_incident_id hands out the next number of the report date; the row
\* is inserted in a transaction of its own, so a number may stay unused.
SubmitIncident(u) ==
    /\ allocated < MaxIncidents
    /\ allocated' = allocated + 1
    /\ \/ file' = [file EXCEPT ![allocated + 1] = NewFile(u)]
       \/ UNCHANGED file
    /\ UNCHANGED <<leitung, batch>>

\* The inquiry is stored before the transition is checked.
OpenInquiry(u, i) ==
    /\ u \in QMBs
    /\ Open(i)
    /\ file[i].openInquiries < MaxOpenInquiries
    /\ LET asked == Write(Begin(file[i]), [file[i] EXCEPT !.openInquiries = @ + 1])
       IN  Commit(i, SetStatus(asked, "INQUIRY_OPEN"))

\* The reporter answers the open inquiry; again the row comes first.
AnswerInquiry(u, i) ==
    /\ Open(i)
    /\ u = file[i].reporter
    /\ file[i].openInquiries > 0
    /\ LET answered == Write(Begin(file[i]), [file[i] EXCEPT !.openInquiries = @ - 1])
       IN  Commit(i, SetStatus(answered, "INQUIRY_ANSWERED"))

DeriveCapaRequired(a) == a.triggers \cap CapaRules # {} \/ a.capa

RootCauseRequired(a) == a.rootCause \/ DeriveCapaRequired(a)

NextStatusAfterAssessment(a) ==
    CASE RootCauseRequired(a)               -> "ROOT_CAUSE_REQUIRED"
      [] a.classification = "OBSERVATION"
         /\ ~RootCauseRequired(a)           -> "DOCUMENTATION_ONLY"
      [] OTHER                              -> "ASSESSED"

\* Mutant: the Leitung is asked about critical incidents only.
AssessedCriticalOnly(f, a) ==
    [f EXCEPT !.classification     = a.classification,
              !.critical           = "critical" \in a.triggers,
              !.capaRequired       = DeriveCapaRequired(a),
              !.rootCauseRequired  = RootCauseRequired(a),
              !.leadershipRequired = "critical" \in a.triggers]

\* The incident row as the assessment leaves it.
Assessed(f, a) ==
    [f EXCEPT !.classification     = a.classification,
              !.critical           = "critical" \in a.triggers,
              !.capaRequired       = DeriveCapaRequired(a),
              !.rootCauseRequired  = RootCauseRequired(a),
              !.leadershipRequired = DeriveCapaRequired(a) \/ "critical" \in a.triggers]

\* Mutant: the decision is stored before the transition is checked.
AssessDecisionFirst(u, i, a) ==
    /\ u \in QMBs
    /\ Open(i)
    /\ file[i].status \notin {"CLOSED", "ARCHIVED"}
    /\ file[i].openInquiries = 0
    /\ Commit(i, SetStatus(Write(Begin(file[i]), Assessed(file[i], a)),
                           NextStatusAfterAssessment(a)))

\* The status changes first, once or twice; the decision follows.
AssessIncident(u, i, a) ==
    /\ u \in QMBs
    /\ Open(i)
    /\ file[i].status \notin {"CLOSED", "ARCHIVED"}
    /\ file[i].openInquiries = 0
    /\ LET begun    == IF file[i].status = "SUBMITTED"
                       THEN SetStatus(Begin(file[i]), "QMB_REVIEW")
                       ELSE Begin(file[i])
           advanced == SetStatus(begun, NextStatusAfterAssessment(a))
       IN  Commit(i, Write(advanced, Assessed(Current(advanced), a)))

-----------------------------------------------------------------------------
(* Root cause, CAPA and actions *)

CreateRootCauseAnalysis(u, i) ==
    /\ u \in QMBs
    /\ Open(i)
    /\ file[i].rootCauseRequired \/ file[i].capaRequired
    /\ LET stored == Write(Begin(file[i]), [file[i] EXCEPT !.rca = TRUE])
       IN  Commit(i, IF file[i].status = "ROOT_CAUSE_REQUIRED"
                     THEN SetStatus(stored, "ROOT_CAUSE_IN_PROGRESS")
                     ELSE stored)

\* Mutant: the status changes before the CAPA row is stored.
StartCapaStatusFirst(u, i) ==
    /\ u \in QMBs
    /\ Open(i)
    /\ file[i].capaRequired
    /\ LET begun  == IF file[i].status = "ROOT_CAUSE_REQUIRED"
                     THEN SetStatus(Begin(file[i]), "CAPA_REQUIRED")
                     ELSE Begin(file[i])
           moved  == SetStatus(begun, "CAPA_PLANNING")
       IN  Commit(i, Write(moved, [Current(moved) EXCEPT !.capa = TRUE]))

\* The CAPA row comes first, then one or two status changes.  upsert_capa
\* updates by the new id, so a second start leaves the row alone.
StartCapa(u, i) ==
    /\ u \in QMBs
    /\ Open(i)
    /\ file[i].capaRequired
    /\ LET stored == Write(Begin(file[i]), [file[i] EXCEPT !.capa = TRUE])
           begun  == IF file[i].status = "ROOT_CAUSE_REQUIRED"
                     THEN SetStatus(stored, "CAPA_REQUIRED")
                     ELSE stored
       IN  Commit(i, SetStatus(begun, "CAPA_PLANNING"))

\* Only an update that leaves the CAPA in progress touches the incident; the
\* progress of the CAPA itself is not tracked.
UpdateCapa(u, i) ==
    /\ u \in QMBs
    /\ Open(i)
    /\ file[i].capa
    /\ Commit(i, SetStatus(Begin(file[i]), "ACTIONS_IN_PROGRESS"))

\* Mutant: actions may be created before the assessment.
CreateActionUnassessed(u, i) ==
    /\ u \in QMBs
    /\ Open(i)
    /\ file[i].openActions < MaxOpenActions
    /\ LET stored == Write(Begin(file[i]), [file[i] EXCEPT !.openActions = @ + 1])
       IN  Commit(i, IF file[i].status \in {"ASSESSED", "CAPA_PLANNING", "ACTIONS_IN_PROGRESS"}
                     THEN SetStatus(stored, "ACTIONS_IN_PROGRESS")
                     ELSE stored)

CreateAction(u, i) ==
    /\ u \in QMBs
    /\ Open(i)
    /\ file[i].classification # None
    /\ file[i].openActions < MaxOpenActions
    /\ LET stored == Write(Begin(file[i]), [file[i] EXCEPT !.openActions = @ + 1])
       IN  Commit(i, IF file[i].status \in {"ASSESSED", "CAPA_PLANNING", "ACTIONS_IN_PROGRESS"}
                     THEN SetStatus(stored, "ACTIONS_IN_PROGRESS")
                     ELSE stored)

CompleteAction(u, i) ==
    /\ u \in QMBs
    /\ Open(i)
    /\ file[i].openActions > 0
    /\ Commit(i, Write(Begin(file[i]), [file[i] EXCEPT !.openActions = @ - 1]))

-----------------------------------------------------------------------------
(* Effectiveness review, leadership and closure *)

PlanEffectivenessReview(u, i) ==
    /\ u \in QMBs
    /\ Open(i)
    /\ file[i].status \in {"ACTIONS_IN_PROGRESS", "FOLLOW_UP"}
    /\ file[i].capaRequired
    /\ LET stored == Write(Begin(file[i]), [file[i] EXCEPT !.review = "PLANNED"])
       IN  Commit(i, SetStatus(stored, "EFFECTIVENESS_PLANNED"))

\* The latest review is overwritten whatever the status of the incident.
CompleteEffectivenessReview(u, i, effective) ==
    /\ u \in QMBs
    /\ Open(i)
    /\ file[i].review # None
    /\ LET result   == IF effective THEN "EFFECTIVE" ELSE "INEFFECTIVE"
           stored   == Write(Begin(file[i]), [file[i] EXCEPT !.review = result])
           reviewed == SetStatus(stored, "EFFECTIVENESS_REVIEW")
       IN  Commit(i, IF reviewed.refused THEN reviewed
                     ELSE SetStatus(reviewed, IF effective THEN "CLOSURE_REVIEW" ELSE "FOLLOW_UP"))

AssignModuleRole(u, target) ==
    /\ u \in QMBs
    /\ leitung' = leitung \cup {target}
    /\ UNCHANGED <<allocated, file, batch>>

ForwardToLeadership(u, i, target) ==
    /\ u \in QMBs
    /\ Open(i)
    /\ file[i].status = "CLOSURE_REVIEW"
    /\ file[i].leadershipRequired
    /\ target \in leitung
    /\ LET stored == Write(Begin(file[i]),
                           [file[i] EXCEPT !.ack = "PENDING", !.ackUser = target])
       IN  Commit(i, SetStatus(stored, "LEADERSHIP_ACK_REQUIRED"))

AcknowledgeLeadershipReview(u, i) ==
    /\ u \in leitung
    /\ Open(i)
    /\ file[i].ack # None
    /\ u = file[i].ackUser
    /\ LET stored == Write(Begin(file[i]), [file[i] EXCEPT !.ack = "ACKNOWLEDGED"])
       IN  Commit(i, IF file[i].status = "LEADERSHIP_ACK_REQUIRED"
                     THEN SetStatus(stored, "CLOSURE_REVIEW")
                     ELSE stored)

\* _validate_closure
ReadyToClose(f) ==
    /\ f.classification # None
    /\ f.openInquiries = 0
    /\ f.capaRequired =>
           /\ f.rca
           /\ f.capa
           /\ f.openActions = 0
           /\ f.review = "EFFECTIVE"
    /\ f.leadershipRequired => f.ack = "ACKNOWLEDGED"

\* The closing date is a second update of the row the status change wrote.
CloseIncident(u, i) ==
    /\ u \in QMBs
    /\ Open(i)
    /\ file[i].status \notin {"CLOSED", "ARCHIVED"}
    /\ ReadyToClose(file[i])
    /\ LET begun  == IF file[i].status \in {"DOCUMENTATION_ONLY", "ASSESSED"}
                     THEN SetStatus(Begin(file[i]), "CLOSURE_REVIEW")
                     ELSE Begin(file[i])
           closed == IF Current(begun).status = "CLOSURE_REVIEW"
                     THEN SetStatus(begun, "CLOSED")
                     ELSE [begun EXCEPT !.refused = TRUE]
       IN  Commit(i, Write(closed, [Current(closed) EXCEPT !.closedAt = TRUE]))

ArchiveIncident(u, i) ==
    /\ u \in QMBs
    /\ Open(i)
    /\ file[i].status = "CLOSED"
    /\ LET archived == SetStatus(Begin(file[i]), "ARCHIVED")
       IN  Commit(i, Write(archived, [Current(archived) EXCEPT !.archivedAt = TRUE]))

-----------------------------------------------------------------------------
(* Management review: the rows of a batch are written one by one, in the   *)
(* order of the incident numbers, so an interrupted call stops at some     *)
(* number `last'.                                                          *)

CreateManagementReview(u, b, period) ==
    /\ u \in QMBs
    /\ batch[b].status = "ABSENT"
    /\ \E last \in 0..MaxIncidents :
           LET included == {i \in period : i <= last /\ file[i].status # "ABSENT"}
           IN  batch' = [batch EXCEPT ![b] =
                   [status |-> "OPEN",
                    items  |-> [i \in Incidents |-> IF i \in included THEN "INCLUDED" ELSE None]]]
    /\ UNCHANGED <<allocated, file, leitung>>

MarkInDiscussion(u, b) ==
    /\ u \in QMBs
    /\ batch[b].status # "ABSENT"
    /\ \E last \in 0..MaxIncidents :
           batch' = [batch EXCEPT ![b] =
               [status |-> "IN_DISCUSSION",
                items  |-> [i \in Incidents |->
                               IF i <= last /\ batch[b].items[i] = "INCLUDED"
                               THEN "IN_DISCUSSION" ELSE batch[b].items[i]]]]
    /\ UNCHANGED <<allocated, file, leitung>>

\* Mutant: the batch is completed when the selected items are acknowledged.
AcknowledgeSelectedOnly(u, b, selected) ==
    /\ u \in QMBs
    /\ batch[b].status # "ABSENT"
    /\ LET targets == IF selected = {} THEN Incidents ELSE selected
       IN  batch' = [batch EXCEPT ![b] =
               [status |-> "COMPLETED",
                items  |-> [i \in Incidents |->
                               IF i \in targets /\ batch[b].items[i] # None
                               THEN "ACKNOWLEDGED" ELSE batch[b].items[i]]]]
    /\ UNCHANGED <<allocated, file, leitung>>

\* The items of the selected incidents, or of all when none is selected.
AcknowledgeItems(u, b, selected) ==
    /\ u \in QMBs
    /\ batch[b].status # "ABSENT"
    /\ \E last \in 0..MaxIncidents, interrupted \in BOOLEAN :
           LET targets == IF selected = {} THEN Incidents ELSE selected
               items   == [i \in Incidents |->
                              IF i \in targets /\ i <= last /\ batch[b].items[i] # None
                              THEN "ACKNOWLEDGED" ELSE batch[b].items[i]]
               done    == /\ ~interrupted
                          /\ last = MaxIncidents
                          /\ \A i \in Incidents : items[i] \in {None, "ACKNOWLEDGED"}
           IN  batch' = [batch EXCEPT ![b] =
                   [status |-> IF done THEN "COMPLETED" ELSE @.status, items |-> items]]
    /\ UNCHANGED <<allocated, file, leitung>>

-----------------------------------------------------------------------------
Next ==
    \E u \in Users :
        \/ SubmitIncident(u)
        \/ \E target \in Users : AssignModuleRole(u, target)
        \/ \E i \in Incidents :
              \/ OpenInquiry(u, i)
              \/ AnswerInquiry(u, i)
              \/ \E a \in Assessments : AssessIncident(u, i, a)
              \/ CreateRootCauseAnalysis(u, i)
              \/ StartCapa(u, i)
              \/ UpdateCapa(u, i)
              \/ CreateAction(u, i)
              \/ CompleteAction(u, i)
              \/ PlanEffectivenessReview(u, i)
              \/ \E effective \in BOOLEAN : CompleteEffectivenessReview(u, i, effective)
              \/ \E target \in Users : ForwardToLeadership(u, i, target)
              \/ AcknowledgeLeadershipReview(u, i)
              \/ CloseIncident(u, i)
              \/ ArchiveIncident(u, i)
        \/ \E b \in Batches :
              \/ \E lo, hi \in Incidents : CreateManagementReview(u, b, lo..hi)
              \/ MarkInDiscussion(u, b)
              \/ \E selected \in SUBSET Incidents : AcknowledgeItems(u, b, selected)

Spec == Init /\ [][Next]_vars

-----------------------------------------------------------------------------
(* Properties *)

Closed(i) == file[i].status \in {"CLOSED", "ARCHIVED"}

\* Whatever was refused or cut off on the way, a closed incident is assessed;
\* a CAPA incident keeps its root cause analysis, its CAPA and a completed
\* effectiveness review; a critical or CAPA incident was acknowledged by a
\* member of the Leitung.
ClosedEvidence ==
    \A i \in Incidents : Closed(i) =>
        /\ file[i].classification # None
        /\ file[i].capaRequired =>
               /\ file[i].rca
               /\ file[i].capa
               /\ file[i].review \in {"EFFECTIVE", "INEFFECTIVE"}
        /\ file[i].critical \/ file[i].capaRequired =>
               file[i].ack = "ACKNOWLEDGED" /\ file[i].ackUser \in leitung

\* An assessment cut off between the status change and the decision leaves an
\* incident without classification; it never gets past the statuses from which
\* the same assessment can be entered again.
InterruptedAssessmentRecoverable ==
    \A i \in Incidents : file[i].status # "ABSENT" /\ file[i].classification = None =>
        file[i].status \in {"SUBMITTED", "QMB_REVIEW", "INQUIRY_OPEN", "INQUIRY_ANSWERED",
                            "DOCUMENTATION_ONLY", "ASSESSED", "ROOT_CAUSE_REQUIRED"}

\* On the CAPA path the rows the status stands for exist: a CAPA from planning
\* on, a review once one is planned, and a leadership request while the
\* incident waits for the acknowledgement.
StatusBackedByRows ==
    \A i \in Incidents :
        /\ file[i].status \in {"CAPA_REQUIRED", "CAPA_PLANNING", "FOLLOW_UP",
                               "EFFECTIVENESS_PLANNED", "EFFECTIVENESS_REVIEW"}
               => file[i].capaRequired /\ file[i].capa
        /\ file[i].status \in {"EFFECTIVENESS_PLANNED", "EFFECTIVENESS_REVIEW", "FOLLOW_UP"}
               => file[i].review # None
        /\ file[i].status = "LEADERSHIP_ACK_REQUIRED"
               => file[i].ack # None /\ file[i].ackUser \in leitung

\* A completed management review has every item acknowledged.
CompletedReviewAcknowledged ==
    \A b \in Batches : batch[b].status = "COMPLETED" =>
        \A i \in Incidents : batch[b].items[i] \in {None, "ACKNOWLEDGED"}

\* A decision taken by the assessment is not revised once work has begun on
\* it: after root cause, CAPA, actions or closure have begun, the incident
\* keeps its classification and its CAPA and leadership requirements.
AssessmentFixedOnceActedOn ==
    [][\A i \in Incidents :
           file[i].status \in IncidentStatus \
               {"SUBMITTED", "QMB_REVIEW", "INQUIRY_OPEN", "INQUIRY_ANSWERED",
                "DOCUMENTATION_ONLY", "ASSESSED", "ROOT_CAUSE_REQUIRED"}
           => /\ file'[i].classification = file[i].classification
              /\ file'[i].capaRequired = file[i].capaRequired
              /\ file'[i].leadershipRequired = file[i].leadershipRequired]_vars

=============================================================================
