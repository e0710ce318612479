---------------------- MODULE IncidentManagementProofs ----------------------
(***************************************************************************)
(* What IncidentManagement guarantees for every number of users, incidents,*)
(* assessments and review batches, wherever an operation is refused or cut *)
(* off between two of its commits.                                         *)
(*                                                                         *)
(* The invariant speaks of one incident file at a time.  An operation takes*)
(* the file to one of the states its run commits, so it is enough that     *)
(* every state of every run has the invariant.                             *)
(***************************************************************************)
EXTENDS IncidentManagement, TLAPS

\* The statuses an incident can be in before its decision is stored.
Early == {"SUBMITTED", "QMB_REVIEW", "INQUIRY_OPEN", "INQUIRY_ANSWERED"}
Undecided == Early \cup {"DOCUMENTATION_ONLY", "ASSESSED", "ROOT_CAUSE_REQUIRED"}

\* Nothing but the assessment decides, and nothing that needs a decision was done
\* before it.
DecisionOK(f) ==
    /\ f.status \in Early \cup {"ABSENT"} => f.classification = None
    /\ f.classification = None =>
           /\ f.status \in Undecided \cup {"ABSENT"}
           /\ ~ f.critical /\ ~ f.capaRequired /\ ~ f.rootCauseRequired
           /\ ~ f.capa /\ f.review = None
    /\ f.status \in {"DOCUMENTATION_ONLY", "ASSESSED"} => ~ f.capaRequired /\ ~ f.capa
    /\ f.critical \/ f.capaRequired => f.leadershipRequired

\* The rows a status stands for exist.
RowsOK(f) ==
    /\ f.status \in {"CAPA_REQUIRED", "CAPA_PLANNING", "FOLLOW_UP",
                     "EFFECTIVENESS_PLANNED", "EFFECTIVENESS_REVIEW"}
           => f.capaRequired /\ f.capa
    /\ f.status = "ACTIONS_IN_PROGRESS" /\ f.capaRequired => f.capa
    /\ f.status \in {"EFFECTIVENESS_PLANNED", "EFFECTIVENESS_REVIEW", "FOLLOW_UP"}
           => f.review # None
    /\ f.status = "LEADERSHIP_ACK_REQUIRED" => f.ack # None
    /\ f.ack # None => f.ackUser \in leitung

\* What closing asked for is still there.
ClosedOK(f) ==
    f.status \in {"CLOSED", "ARCHIVED"} =>
        /\ f.classification # None
        /\ f.capaRequired => f.rca /\ f.capa /\ f.review \in {"EFFECTIVE", "INEFFECTIVE"}
        /\ f.leadershipRequired => f.ack = "ACKNOWLEDGED"

FileOK(f) == DecisionOK(f) /\ RowsOK(f) /\ ClosedOK(f)

FilesInv == \A i \in Incidents : FileOK(file[i])

\* Numbers that were not handed out have no file.
NumbersInv == \A i \in Incidents : i > allocated => file[i].status = "ABSENT"

\* The inductive invariant.
MInv == TypeOK /\ FilesInv /\ NumbersInv /\ CompletedReviewAcknowledged
-----------------------------------------------------------------------------
(* Runs *)

\* A run of an operation.  Its first state is the one that was read.
Run == [commits : Seq(IncidentFile), refused : BOOLEAN]
Good(run) == run \in Run /\ Len(run.commits) # 0

\* The states a run commits.
Made(run) == {run.commits[k] : k \in 2..Len(run.commits)}

\* The current state of a run is a file.
LEMMA CurrentFile ==
  ASSUME NEW run, Good(run)
  PROVE  Current(run) \in IncidentFile
  BY DEF Good, Run, Current, Last

\* A run that has only read the file has committed nothing.
LEMMA BeginRun ==
  ASSUME NEW f \in IncidentFile
  PROVE  /\ Good(Begin(f))
         /\ Made(Begin(f)) = {}
         /\ ~ Begin(f).refused
         /\ Current(Begin(f)) = f
<1>1. Begin(f).commits = <<f>> /\ Begin(f).refused = FALSE
  BY DEF Begin
<1>2. <<f>> \in Seq(IncidentFile) /\ Len(<<f>>) = 1 /\ <<f>>[1] = f
  OBVIOUS
<1>3. Begin(f) \in Run
  BY <1>2 DEF Begin, Run
<1> QED
  BY <1>1, <1>2, <1>3 DEF Good, Made, Current, Last

\* A repository call adds its state to the run, unless the operation was refused.
LEMMA WriteRun ==
  ASSUME NEW run, Good(run), NEW f \in IncidentFile
  PROVE  /\ Good(Write(run, f))
         /\ \A h \in Made(Write(run, f)) : h \in Made(run) \/ (~ run.refused /\ h = f)
         /\ ~ run.refused => Current(Write(run, f)) = f
         /\ Write(run, f).refused = run.refused
<1>1. CASE run.refused
  BY <1>1 DEF Write
<1>2. CASE ~ run.refused
  <2> DEFINE new == [run EXCEPT !.commits = Append(@, f)]
  <2>1. Write(run, f) = new
    BY <1>2 DEF Write
  <2>2. new.commits = Append(run.commits, f) /\ new.refused = run.refused /\ new \in Run
    BY DEF Good, Run
  <2>3. run.commits \in Seq(IncidentFile) /\ Len(run.commits) \in Nat /\ Len(run.commits) # 0
    BY DEF Good, Run
  <2> HIDE DEF new
  <2>4. /\ Len(new.commits) = Len(run.commits) + 1
        /\ \A k \in 1..Len(run.commits) : new.commits[k] = run.commits[k]
        /\ new.commits[Len(run.commits) + 1] = f
    BY <2>2, <2>3
  <2>5. Good(new)
    BY <2>2, <2>3, <2>4 DEF Good
  <2>6. Current(new) = f
    BY <2>4 DEF Current, Last
  <2>7. \A h \in Made(new) : h \in Made(run) \/ h = f
    <3> SUFFICES ASSUME NEW k \in 2..(Len(run.commits) + 1)
                 PROVE  new.commits[k] \in Made(run) \/ new.commits[k] = f
      BY <2>4 DEF Made
    <3>1. CASE k = Len(run.commits) + 1
      BY <2>4, <3>1
    <3>2. CASE k # Len(run.commits) + 1
      <4>1. k \in 2..Len(run.commits) /\ new.commits[k] = run.commits[k]
        BY <2>3, <2>4, <3>2
      <4> QED
        BY <4>1 DEF Made
    <3> QED
      BY <3>1, <3>2
  <2> QED
    BY <1>2, <2>1, <2>2, <2>5, <2>6, <2>7
<1> QED
  BY <1>1, <1>2

\* Two states of a file with the same decision, and with the same rows.
SameDecision(f, h) ==
    /\ h.classification = f.classification
    /\ h.critical = f.critical
    /\ h.capaRequired = f.capaRequired
    /\ h.rootCauseRequired = f.rootCauseRequired
    /\ h.leadershipRequired = f.leadershipRequired
SameRows(f, h) ==
    /\ h.capa = f.capa
    /\ h.rca = f.rca
    /\ h.review = f.review
    /\ h.ack = f.ack
    /\ h.ackUser = f.ackUser

\* State h is state f with another status.
Moved(f, h, to) == h \in IncidentFile /\ h.status = to /\ SameDecision(f, h) /\ SameRows(f, h)

\* A status change changes nothing else.
LEMMA StatusOnly ==
  ASSUME NEW f \in IncidentFile, NEW to \in IncidentStatus
  PROVE  /\ [f EXCEPT !.status = to] \in IncidentFile
         /\ Moved(f, [f EXCEPT !.status = to], to)
  BY DEF IncidentFile, SameDecision, SameRows, Moved

\* A status change adds a state to the run or refuses the operation.
LEMMA SetStatusRun ==
  ASSUME NEW run, Good(run), NEW to \in IncidentStatus
  PROVE  /\ Good(SetStatus(run, to))
         /\ \A h \in Made(SetStatus(run, to)) :
               \/ h \in Made(run)
               \/ /\ ~ run.refused /\ Allowed(Current(run).status, to)
                  /\ Moved(Current(run), h, to)
         /\ ~ SetStatus(run, to).refused =>
               /\ ~ run.refused /\ Allowed(Current(run).status, to)
               /\ Moved(Current(run), Current(SetStatus(run, to)), to)
<1>1. CASE Allowed(Current(run).status, to)
  <2>1. PICK g : g = [Current(run) EXCEPT !.status = to]
    OBVIOUS
  <2>2. g \in IncidentFile /\ Moved(Current(run), g, to)
    BY <2>1, CurrentFile, StatusOnly
  <2>3. SetStatus(run, to) = Write(run, g)
    BY <1>1, <2>1 DEF SetStatus
  <2> HIDE <2>1
  <2> QED
    BY <1>1, <2>2, <2>3, WriteRun
<1>2. CASE ~ Allowed(Current(run).status, to)
  <2> DEFINE new == [run EXCEPT !.refused = TRUE]
  <2>1. SetStatus(run, to) = new
    BY <1>2 DEF SetStatus
  <2>2. new.commits = run.commits /\ new.refused = TRUE /\ new \in Run
    BY DEF Good, Run
  <2> HIDE DEF new
  <2> QED
    BY <2>1, <2>2 DEF Good, Made
<1> QED
  BY <1>1, <1>2

\* From where a status can be reached.
LEMMA AllowedFrom ==
  ASSUME NEW from \in IncidentStatus
  PROVE  /\ Allowed(from, "INQUIRY_OPEN") => from \in Early
         /\ Allowed(from, "INQUIRY_ANSWERED") => from \in Early
         /\ Allowed(from, "DOCUMENTATION_ONLY") => from \in Early \cup {"DOCUMENTATION_ONLY"}
         /\ Allowed(from, "ASSESSED") => from \in Early \cup {"ASSESSED"}
         /\ Allowed(from, "ROOT_CAUSE_REQUIRED") => from \in Early \cup {"ROOT_CAUSE_REQUIRED"}
         /\ Allowed(from, "ACTIONS_IN_PROGRESS") =>
               from \in {"ASSESSED", "CAPA_PLANNING", "FOLLOW_UP", "ACTIONS_IN_PROGRESS"}
         /\ Allowed(from, "EFFECTIVENESS_REVIEW") =>
               from \in {"EFFECTIVENESS_PLANNED", "EFFECTIVENESS_REVIEW"}
  BY DEF Allowed, Followers, IncidentStatus, Early

\* A run that stores a row and then changes the status.
LEMMA StoreThenStatus ==
  ASSUME NEW f \in IncidentFile, NEW g \in IncidentFile, NEW to \in IncidentStatus,
         NEW h \in Made(SetStatus(Write(Begin(f), g), to))
  PROVE  h = g \/ (Allowed(g.status, to) /\ Moved(g, h, to))
<1>1. /\ Good(Write(Begin(f), g)) /\ Current(Write(Begin(f), g)) = g
      /\ \A k \in Made(Write(Begin(f), g)) : k = g
  BY BeginRun, WriteRun
<1> QED
  BY <1>1, SetStatusRun

\* A run that stores one row.
LEMMA StoreOnly ==
  ASSUME NEW f \in IncidentFile, NEW g \in IncidentFile, NEW h \in Made(Write(Begin(f), g))
  PROVE  h = g
  BY BeginRun, WriteRun
-----------------------------------------------------------------------------
(* What the operations commit *)

\* The decision is not revised once work has begun on it.
Fixed(f, h) ==
    f.status \notin Undecided \cup {"ABSENT"} =>
        /\ h.classification = f.classification
        /\ h.capaRequired = f.capaRequired
        /\ h.leadershipRequired = f.leadershipRequired

\* State h may follow state f of an incident.
Kept(f, h) == h \in IncidentFile /\ FileOK(h) /\ Fixed(f, h)

\* What an operation found.
Found(f) == f \in IncidentFile /\ FileOK(f) /\ f.status \in IncidentStatus

\* A state that differs in neither of them nor in the status is as good.
LEMMA SameKept ==
  ASSUME NEW f, Found(f), NEW h \in IncidentFile, h.status = f.status,
         SameDecision(f, h), SameRows(f, h)
  PROVE  Kept(f, h)
  BY DEF Found, Kept, FileOK, DecisionOK, RowsOK, ClosedOK, Fixed, SameDecision, SameRows

\* open_inquiry and answer_inquiry: the row of the inquiry, then the status.
LEMMA InquiryRun ==
  ASSUME NEW f, Found(f), NEW g \in IncidentFile, Moved(f, g, f.status),
         NEW to \in {"INQUIRY_OPEN", "INQUIRY_ANSWERED"},
         NEW h \in Made(SetStatus(Write(Begin(f), g), to))
  PROVE  Kept(f, h)
<1>1. Kept(f, g)
  BY SameKept DEF Moved
<1>2. f \in IncidentFile /\ to \in IncidentStatus
  BY DEF Found, IncidentStatus
<1>3. h = g \/ (Allowed(g.status, to) /\ Moved(g, h, to))
  BY <1>2, StoreThenStatus
<1>4. ASSUME Allowed(g.status, to), Moved(g, h, to) PROVE Kept(f, h)
  <2>1. f.status \in Early
    BY <1>4, AllowedFrom DEF Found, Moved
  <2> QED
    BY <1>4, <2>1
       DEF Moved, Kept, FileOK, DecisionOK, RowsOK, ClosedOK, Fixed, Found, SameDecision, SameRows, Early, Undecided
<1> QED
  BY <1>1, <1>3, <1>4

\* create_root_cause_analysis: the analysis, then the status where it is awaited.
LEMMA RootCauseRun ==
  ASSUME NEW f, Found(f), f.rootCauseRequired \/ f.capaRequired,
         NEW g \in IncidentFile, g.status = f.status, SameDecision(f, g), g.capa = f.capa,
         g.rca = TRUE, g.review = f.review, g.ack = f.ack, g.ackUser = f.ackUser
  PROVE  /\ Kept(f, g)
         /\ \A h \in IncidentFile :
               f.status = "ROOT_CAUSE_REQUIRED" /\ Moved(g, h, "ROOT_CAUSE_IN_PROGRESS")
                   => Kept(f, h)
<1>1. Kept(f, g)
  BY DEF Kept, FileOK, DecisionOK, RowsOK, ClosedOK, Fixed, Found, SameDecision, SameRows, Early, Undecided
<1>2. ASSUME NEW h \in IncidentFile, f.status = "ROOT_CAUSE_REQUIRED",
             Moved(g, h, "ROOT_CAUSE_IN_PROGRESS")
      PROVE  Kept(f, h)
  BY <1>2 DEF Moved, Kept, FileOK, DecisionOK, RowsOK, ClosedOK, Fixed, Found, SameDecision, SameRows, Early, Undecided
<1> QED
  BY <1>1, <1>2

\* start_capa: the CAPA row, then one or two status changes.
LEMMA StartCapaRun ==
  ASSUME NEW f, Found(f), f.capaRequired,
         NEW g \in IncidentFile, g.status = f.status, SameDecision(f, g), g.capa = TRUE,
         g.rca = f.rca, g.review = f.review, g.ack = f.ack, g.ackUser = f.ackUser
  PROVE  /\ Kept(f, g)
         /\ \A h \in IncidentFile :
               f.status = "ROOT_CAUSE_REQUIRED" /\ Moved(g, h, "CAPA_REQUIRED")
                   => Kept(f, h)
         /\ \A h \in IncidentFile : Moved(g, h, "CAPA_PLANNING") => Kept(f, h)
<1>0. f.classification # None
  BY DEF Found, FileOK, DecisionOK
<1>1. Kept(f, g)
  BY <1>0 DEF Kept, FileOK, DecisionOK, RowsOK, ClosedOK, Fixed, Found, SameDecision, SameRows, Early, Undecided
<1>2. ASSUME NEW h \in IncidentFile, f.status = "ROOT_CAUSE_REQUIRED",
             Moved(g, h, "CAPA_REQUIRED")
      PROVE  Kept(f, h)
  BY <1>0, <1>2 DEF Moved, Kept, FileOK, DecisionOK, RowsOK, ClosedOK, Fixed, Found, SameDecision, SameRows, Early, Undecided
<1>3. ASSUME NEW h \in IncidentFile, Moved(g, h, "CAPA_PLANNING")
      PROVE  Kept(f, h)
  BY <1>0, <1>3 DEF Moved, Kept, FileOK, DecisionOK, RowsOK, ClosedOK, Fixed, Found, SameDecision, SameRows, Early, Undecided
<1> QED
  BY <1>1, <1>2, <1>3

\* update_capa: the status only.
LEMMA UpdateCapaRun ==
  ASSUME NEW f, Found(f), f.capa, Allowed(f.status, "ACTIONS_IN_PROGRESS"),
         NEW h \in IncidentFile, Moved(f, h, "ACTIONS_IN_PROGRESS")
  PROVE  Kept(f, h)
<1>1. f.status \in {"CAPA_PLANNING", "FOLLOW_UP", "ACTIONS_IN_PROGRESS"} /\ f.classification # None
  BY AllowedFrom DEF Found, FileOK, DecisionOK
<1> QED
  BY <1>1 DEF Moved, Kept, FileOK, DecisionOK, RowsOK, ClosedOK, Fixed, Found, SameDecision, SameRows,
         Early, Undecided

\* create_action: the action, then the status where actions are expected.
LEMMA CreateActionRun ==
  ASSUME NEW f, Found(f), f.classification # None,
         NEW g \in IncidentFile, Moved(f, g, f.status),
         f.status \in {"ASSESSED", "CAPA_PLANNING", "ACTIONS_IN_PROGRESS"},
         NEW h \in IncidentFile, Moved(g, h, "ACTIONS_IN_PROGRESS")
  PROVE  Kept(f, h)
  BY DEF Moved, Kept, FileOK, DecisionOK, RowsOK, ClosedOK, Fixed, Found, SameDecision, SameRows,
         Early, Undecided

\* plan_effectiveness_review: the planned review, then the status.
LEMMA PlanReviewRun ==
  ASSUME NEW f, Found(f), f.capaRequired, f.status \in {"ACTIONS_IN_PROGRESS", "FOLLOW_UP"},
         NEW g \in IncidentFile, g.status = f.status, SameDecision(f, g), g.capa = f.capa,
         g.rca = f.rca, g.review = "PLANNED", g.ack = f.ack, g.ackUser = f.ackUser
  PROVE  /\ Kept(f, g)
         /\ \A h \in IncidentFile : Moved(g, h, "EFFECTIVENESS_PLANNED") => Kept(f, h)
<1>0. None # "PLANNED" /\ f.capa /\ f.classification # None
  BY IncidentAssumption DEF Found, FileOK, DecisionOK, RowsOK
<1>1. Kept(f, g)
  BY <1>0 DEF Kept, FileOK, DecisionOK, RowsOK, ClosedOK, Fixed, Found, SameDecision, SameRows,
         Early, Undecided
<1>2. ASSUME NEW h \in IncidentFile, Moved(g, h, "EFFECTIVENESS_PLANNED")
      PROVE  Kept(f, h)
  BY <1>0, <1>2 DEF Moved, Kept, FileOK, DecisionOK, RowsOK, ClosedOK, Fixed, Found, SameDecision, SameRows,
         Early, Undecided
<1> QED
  BY <1>1, <1>2

\* complete_effectiveness_review: the result, then two status changes.
LEMMA CompleteReviewRun ==
  ASSUME NEW f, Found(f), f.review # None,
         NEW g \in IncidentFile, g.status = f.status, SameDecision(f, g), g.capa = f.capa,
         g.rca = f.rca, g.review \in {"EFFECTIVE", "INEFFECTIVE"}, g.ack = f.ack,
         g.ackUser = f.ackUser
  PROVE  /\ Kept(f, g)
         /\ \A h \in IncidentFile :
               ( /\ Allowed(f.status, "EFFECTIVENESS_REVIEW")
                 /\ h.status \in {"EFFECTIVENESS_REVIEW", "CLOSURE_REVIEW", "FOLLOW_UP"}
                 /\ SameDecision(g, h) /\ SameRows(g, h) )
               => Kept(f, h)
<1>0. None \notin {"EFFECTIVE", "INEFFECTIVE"} /\ f.classification # None
  BY IncidentAssumption DEF Found, FileOK, DecisionOK
<1>1. Kept(f, g)
  BY <1>0 DEF Kept, FileOK, DecisionOK, RowsOK, ClosedOK, Fixed, Found, SameDecision, SameRows,
         Early, Undecided
<1>2. ASSUME NEW h \in IncidentFile, Allowed(f.status, "EFFECTIVENESS_REVIEW"),
             h.status \in {"EFFECTIVENESS_REVIEW", "CLOSURE_REVIEW", "FOLLOW_UP"},
             SameDecision(g, h), SameRows(g, h)
      PROVE  Kept(f, h)
  <2>1. f.status \in {"EFFECTIVENESS_PLANNED", "EFFECTIVENESS_REVIEW"}
    BY <1>2, AllowedFrom DEF Found
  <2> QED
    BY <1>0, <1>2, <2>1 DEF Kept, FileOK, DecisionOK, RowsOK, ClosedOK, Fixed, Found, SameDecision, SameRows,
         Early, Undecided
<1> QED
  BY <1>1, <1>2

\* forward_to_leadership: the request, then the status.
LEMMA ForwardRun ==
  ASSUME NEW f, Found(f), f.status = "CLOSURE_REVIEW",
         NEW g \in IncidentFile, g.status = f.status, SameDecision(f, g), g.capa = f.capa,
         g.rca = f.rca, g.review = f.review, g.ack = "PENDING", g.ackUser \in leitung
  PROVE  /\ Kept(f, g)
         /\ \A h \in IncidentFile : Moved(g, h, "LEADERSHIP_ACK_REQUIRED") => Kept(f, h)
<1>0. None # "PENDING" /\ f.classification # None
  BY IncidentAssumption DEF Found, FileOK, DecisionOK, Undecided, Early
<1>1. Kept(f, g)
  BY <1>0 DEF Kept, FileOK, DecisionOK, RowsOK, ClosedOK, Fixed, Found, SameDecision, SameRows,
         Early, Undecided
<1>2. ASSUME NEW h \in IncidentFile, Moved(g, h, "LEADERSHIP_ACK_REQUIRED")
      PROVE  Kept(f, h)
  BY <1>0, <1>2 DEF Moved, Kept, FileOK, DecisionOK, RowsOK, ClosedOK, Fixed, Found, SameDecision, SameRows,
         Early, Undecided
<1> QED
  BY <1>1, <1>2

\* acknowledge_leadership_review: the acknowledgement, then the status where it is
\* awaited.
LEMMA AcknowledgeRun ==
  ASSUME NEW f, Found(f), f.ack # None,
         NEW g \in IncidentFile, g.status = f.status, SameDecision(f, g), g.capa = f.capa,
         g.rca = f.rca, g.review = f.review, g.ack = "ACKNOWLEDGED", g.ackUser = f.ackUser
  PROVE  /\ Kept(f, g)
         /\ \A h \in IncidentFile :
               f.status = "LEADERSHIP_ACK_REQUIRED" /\ Moved(g, h, "CLOSURE_REVIEW")
                   => Kept(f, h)
<1>0. None # "ACKNOWLEDGED"
  BY IncidentAssumption
<1>1. Kept(f, g)
  BY <1>0 DEF Kept, FileOK, DecisionOK, RowsOK, ClosedOK, Fixed, Found, SameDecision, SameRows,
         Early, Undecided
<1>2. ASSUME NEW h \in IncidentFile, f.status = "LEADERSHIP_ACK_REQUIRED",
             Moved(g, h, "CLOSURE_REVIEW")
      PROVE  Kept(f, h)
  BY <1>0, <1>2 DEF Moved, Kept, FileOK, DecisionOK, RowsOK, ClosedOK, Fixed, Found, SameDecision, SameRows,
         Early, Undecided
<1> QED
  BY <1>1, <1>2

\* close_incident and archive_incident: what closing asks for is there, and the
\* dates change nothing of it.
LEMMA CloseRun ==
  ASSUME NEW f, Found(f), NEW h \in IncidentFile, SameDecision(f, h), SameRows(f, h),
         \/ ReadyToClose(f) /\ h.status \in {"CLOSURE_REVIEW", "CLOSED"}
         \/ f.status = "CLOSED" /\ h.status = "ARCHIVED"
  PROVE  Kept(f, h)
<1>1. CASE ReadyToClose(f) /\ h.status \in {"CLOSURE_REVIEW", "CLOSED"}
  BY <1>1 DEF ReadyToClose, Kept, FileOK, DecisionOK, RowsOK, ClosedOK, Fixed, Found, SameDecision, SameRows,
         Early, Undecided
<1>2. CASE f.status = "CLOSED" /\ h.status = "ARCHIVED"
  BY <1>2 DEF Kept, FileOK, DecisionOK, RowsOK, ClosedOK, Fixed, Found, SameDecision, SameRows,
         Early, Undecided
<1> QED
  BY <1>1, <1>2

\* assess_incident on the way to the decision: nothing is decided, or what was
\* decided before needs no CAPA.
LEMMA AssessingRun ==
  ASSUME NEW f, Found(f), NEW to \in {"QMB_REVIEW", "ROOT_CAUSE_REQUIRED", "DOCUMENTATION_ONLY", "ASSESSED"},
         NEW h \in IncidentFile, SameDecision(f, h), SameRows(f, h), h.status = to,
         \/ f.status = "SUBMITTED"
         \/ to # "QMB_REVIEW" /\ Allowed(f.status, to)
  PROVE  Kept(f, h)
<1>1. f.status \in Early \/ (to # "QMB_REVIEW" /\ f.status = to)
  <2>1. CASE f.status = "SUBMITTED"
    BY <2>1 DEF Early
  <2>2. CASE to # "QMB_REVIEW" /\ Allowed(f.status, to)
    BY <2>2, AllowedFrom DEF Found
  <2> QED
    BY <2>1, <2>2
<1>2. CASE f.status \in Early
  BY <1>2 DEF Kept, FileOK, DecisionOK, RowsOK, ClosedOK, Fixed, Found, SameDecision, SameRows,
         Early, Undecided
<1>3. CASE f.status = to
  BY <1>3, SameKept
<1> QED
  BY <1>1, <1>2, <1>3

\* The three statuses an assessment leads to; only the first asks for a CAPA.
LEMMA NextStatus ==
  ASSUME NEW a \in Assessments
  PROVE  /\ NextStatusAfterAssessment(a) \in
               {"ROOT_CAUSE_REQUIRED", "DOCUMENTATION_ONLY", "ASSESSED"}
         /\ NextStatusAfterAssessment(a) # "ROOT_CAUSE_REQUIRED" => ~ DeriveCapaRequired(a)
  BY DEF NextStatusAfterAssessment, RootCauseRequired

\* assess_incident: the decision goes with the status the assessment led to.
LEMMA DecidedRun ==
  ASSUME NEW f, Found(f), NEW a \in Assessments,
         NEW to, to = NextStatusAfterAssessment(a),
         f.status = "SUBMITTED" \/ Allowed(f.status, to),
         NEW h \in IncidentFile, h.status = to, h.classification = a.classification,
         h.critical = ("critical" \in a.triggers), h.capaRequired = DeriveCapaRequired(a),
         h.leadershipRequired = (DeriveCapaRequired(a) \/ "critical" \in a.triggers),
         SameRows(f, h)
  PROVE  Kept(f, h)
<1>1. /\ to \in {"ROOT_CAUSE_REQUIRED", "DOCUMENTATION_ONLY", "ASSESSED"}
      /\ to # "ROOT_CAUSE_REQUIRED" => ~ h.capaRequired
  BY NextStatus
<1>2. h.classification # None
  BY IncidentAssumption
<1>3. h.critical \/ h.capaRequired => h.leadershipRequired
  OBVIOUS
<1>4. f.status \in Early \cup {to}
  <2>1. CASE f.status = "SUBMITTED"
    BY <2>1 DEF Early
  <2>2. CASE Allowed(f.status, to)
    BY <1>1, <2>2, AllowedFrom DEF Found
  <2> QED
    BY <2>1, <2>2
<1>5. to # "ROOT_CAUSE_REQUIRED" => ~ h.capa
  <2>1. f.status \in Early => ~ f.capa
    BY DEF Found, FileOK, DecisionOK
  <2>2. f.status \in {"DOCUMENTATION_ONLY", "ASSESSED"} => ~ f.capa
    BY DEF Found, FileOK, DecisionOK
  <2> QED
    BY <1>1, <1>4, <2>1, <2>2 DEF SameRows
<1>6. DecisionOK(h)
  BY <1>1, <1>2, <1>3, <1>5 DEF DecisionOK, Early
<1>7. RowsOK(h) /\ ClosedOK(h)
  BY <1>1 DEF Found, FileOK, RowsOK, ClosedOK, SameRows
<1>8. Fixed(f, h)
  BY <1>1, <1>4 DEF Fixed, Undecided
<1> QED
  BY <1>6, <1>7, <1>8 DEF Kept, FileOK
-----------------------------------------------------------------------------
(* The steps *)

\* The step leaves every decision that was acted on.
Frozen == \A j \in Incidents : Fixed(file[j], file'[j])

\* An operation on a reported incident that reaches one of its commits.
LEMMA CommitStep ==
  ASSUME MInv, NEW i \in Incidents, NEW f, f = file[i], Found(f), NEW run, Commit(i, run),
         \A h \in Made(run) : Kept(f, h)
  PROVE  MInv' /\ Frozen
<1>1. PICK h \in Made(run) : file' = [file EXCEPT ![i] = h]
  BY DEF Commit, Made
<1>2. h \in IncidentFile /\ FileOK(h) /\ Fixed(f, h)
  BY DEF Kept
<1>3. UNCHANGED <<allocated, leitung, batch>>
  BY DEF Commit
<1>4. TypeOK'
  BY <1>1, <1>2, <1>3 DEF MInv, TypeOK
<1>5. file'[i] = h /\ \A j \in Incidents : j # i => file'[j] = file[j]
  BY <1>1 DEF MInv, TypeOK
<1>6. FilesInv'
  <2> SUFFICES ASSUME NEW j \in Incidents PROVE FileOK(file[j])'
    BY DEF FilesInv
  <2>1. CASE j = i
    BY <1>2, <1>3, <1>5, <2>1 DEF FileOK, DecisionOK, RowsOK, ClosedOK
  <2>2. CASE j # i
    <3>1. FileOK(file[j])
      BY DEF MInv, FilesInv
    <3> QED
      BY <1>3, <1>5, <2>2, <3>1 DEF FileOK, DecisionOK, RowsOK, ClosedOK
  <2> QED
    BY <2>1, <2>2
<1>7. NumbersInv'
  <2>1. ~ (i > allocated)
    BY DEF MInv, NumbersInv, Found, IncidentStatus
  <2> QED
    BY <1>3, <1>5, <2>1 DEF MInv, NumbersInv
<1>8. CompletedReviewAcknowledged'
  BY <1>3 DEF MInv, CompletedReviewAcknowledged
<1>9. Frozen
  <2>1. \A j \in Incidents : j # i => Fixed(file[j], file'[j])
    BY <1>5 DEF Fixed
  <2> QED
    BY <1>2, <1>5, <2>1 DEF Frozen
<1> QED
  BY <1>4, <1>6, <1>7, <1>8, <1>9 DEF MInv

\* An operation finds a file with the invariant.
LEMMA OpenFound ==
  ASSUME MInv, NEW i \in Incidents, Open(i)
  PROVE  Found(file[i])
<1>1. file[i] \in IncidentFile
  BY DEF MInv, TypeOK
<1>2. file[i].status \in IncidentStatus
  BY <1>1 DEF Open, IncidentFile
<1> QED
  BY <1>1, <1>2 DEF MInv, FilesInv, Found

\* An inquiry is stored, and the status follows or the operation stops.
LEMMA OpenInquiryKeeps ==
  ASSUME MInv, NEW u, NEW i \in Incidents, OpenInquiry(u, i)
  PROVE  MInv' /\ Frozen
<1>1. PICK f : f = file[i]
  OBVIOUS
<1>2. Found(f) /\ f \in IncidentFile
  BY <1>1, OpenFound DEF Found, OpenInquiry
<1>3. PICK g : g = [f EXCEPT !.openInquiries = @ + 1]
  OBVIOUS
<1>4. g \in IncidentFile /\ Moved(f, g, f.status)
  BY <1>1, <1>2, <1>3, IncidentAssumption DEF IncidentFile, Moved, SameDecision, SameRows, OpenInquiry
<1>5. Commit(i, SetStatus(Write(Begin(f), g), "INQUIRY_OPEN"))
  BY <1>1, <1>3, Zenon DEF OpenInquiry
<1> HIDE <1>3
<1>6. \A h \in Made(SetStatus(Write(Begin(f), g), "INQUIRY_OPEN")) : Kept(f, h)
  BY <1>2, <1>4, InquiryRun
<1> QED
  BY <1>1, <1>2, <1>5, <1>6, CommitStep

\* The answer is stored, and the status follows or the operation stops.
LEMMA AnswerInquiryKeeps ==
  ASSUME MInv, NEW u, NEW i \in Incidents, AnswerInquiry(u, i)
  PROVE  MInv' /\ Frozen
<1>1. PICK f : f = file[i]
  OBVIOUS
<1>2. Found(f) /\ f \in IncidentFile
  BY <1>1, OpenFound DEF Found, AnswerInquiry
<1>3. PICK g : g = [f EXCEPT !.openInquiries = @ - 1]
  OBVIOUS
<1>4. g \in IncidentFile /\ Moved(f, g, f.status)
  BY <1>1, <1>2, <1>3, IncidentAssumption DEF IncidentFile, Moved, SameDecision, SameRows, AnswerInquiry
<1>5. Commit(i, SetStatus(Write(Begin(f), g), "INQUIRY_ANSWERED"))
  BY <1>1, <1>3, Zenon DEF AnswerInquiry
<1> HIDE <1>3
<1>6. \A h \in Made(SetStatus(Write(Begin(f), g), "INQUIRY_ANSWERED")) : Kept(f, h)
  BY <1>2, <1>4, InquiryRun
<1> QED
  BY <1>1, <1>2, <1>5, <1>6, CommitStep

\* The analysis is stored; the status moves where it was awaited.
LEMMA RootCauseKeeps ==
  ASSUME MInv, NEW u, NEW i \in Incidents, CreateRootCauseAnalysis(u, i)
  PROVE  MInv' /\ Frozen
<1>1. PICK f : f = file[i]
  OBVIOUS
<1>2. Found(f) /\ f \in IncidentFile
  BY <1>1, OpenFound DEF Found, CreateRootCauseAnalysis
<1>3. PICK g : g = [f EXCEPT !.rca = TRUE]
  OBVIOUS
<1>4. /\ g \in IncidentFile /\ g.status = f.status /\ SameDecision(f, g)
      /\ g.capa = f.capa /\ g.rca = TRUE /\ g.review = f.review
      /\ g.ack = f.ack /\ g.ackUser = f.ackUser
  BY <1>1, <1>2, <1>3, IncidentAssumption
     DEF IncidentFile, Moved, SameDecision, SameRows, CreateRootCauseAnalysis, MInv, TypeOK
<1>5. f.rootCauseRequired \/ f.capaRequired
  BY <1>1 DEF CreateRootCauseAnalysis
<1>6. CASE f.status = "ROOT_CAUSE_REQUIRED"
  <2>1. Commit(i, SetStatus(Write(Begin(f), g), "ROOT_CAUSE_IN_PROGRESS"))
    BY <1>1, <1>3, <1>6, Zenon DEF CreateRootCauseAnalysis
  <2> HIDE <1>3
  <2>2. "ROOT_CAUSE_IN_PROGRESS" \in IncidentStatus
    BY DEF IncidentStatus
  <2>3. \A h \in Made(SetStatus(Write(Begin(f), g), "ROOT_CAUSE_IN_PROGRESS")) : Kept(f, h)
    <3>1. /\ Kept(f, g)
          /\ \A h \in IncidentFile : Moved(g, h, "ROOT_CAUSE_IN_PROGRESS") => Kept(f, h)
      BY <1>2, <1>4, <1>5, <1>6, RootCauseRun
    <3> QED
      BY <1>2, <1>4, <2>2, <3>1, StoreThenStatus DEF Moved
  <2> QED
    BY <1>1, <1>2, <2>1, <2>3, CommitStep
<1>7. CASE ~ (f.status = "ROOT_CAUSE_REQUIRED")
  <2>1. Commit(i, Write(Begin(f), g))
    BY <1>1, <1>3, <1>7, Zenon DEF CreateRootCauseAnalysis
  <2> HIDE <1>3
  <2>2. \A h \in Made(Write(Begin(f), g)) : Kept(f, h)
    BY <1>2, <1>4, <1>5, StoreOnly, RootCauseRun
  <2> QED
    BY <1>1, <1>2, <2>1, <2>2, CommitStep
<1> QED
  BY <1>6, <1>7

\* The acknowledgement is stored; the status moves where it was awaited.
LEMMA AcknowledgeKeeps ==
  ASSUME MInv, NEW u, NEW i \in Incidents, AcknowledgeLeadershipReview(u, i)
  PROVE  MInv' /\ Frozen
<1>1. PICK f : f = file[i]
  OBVIOUS
<1>2. Found(f) /\ f \in IncidentFile
  BY <1>1, OpenFound DEF Found, AcknowledgeLeadershipReview
<1>3. PICK g : g = [f EXCEPT !.ack = "ACKNOWLEDGED"]
  OBVIOUS
<1>4. /\ g \in IncidentFile /\ g.status = f.status /\ SameDecision(f, g)
      /\ g.capa = f.capa /\ g.rca = f.rca /\ g.review = f.review
      /\ g.ack = "ACKNOWLEDGED" /\ g.ackUser = f.ackUser
  BY <1>1, <1>2, <1>3, IncidentAssumption
     DEF IncidentFile, Moved, SameDecision, SameRows, AcknowledgeLeadershipReview, MInv, TypeOK
<1>5. f.ack # None
  BY <1>1 DEF AcknowledgeLeadershipReview
<1>6. CASE f.status = "LEADERSHIP_ACK_REQUIRED"
  <2>1. Commit(i, SetStatus(Write(Begin(f), g), "CLOSURE_REVIEW"))
    BY <1>1, <1>3, <1>6, Zenon DEF AcknowledgeLeadershipReview
  <2> HIDE <1>3
  <2>2. "CLOSURE_REVIEW" \in IncidentStatus
    BY DEF IncidentStatus
  <2>3. \A h \in Made(SetStatus(Write(Begin(f), g), "CLOSURE_REVIEW")) : Kept(f, h)
    BY <1>2, <1>4, <1>5, <1>6, <2>2, StoreThenStatus, AcknowledgeRun DEF Moved
  <2> QED
    BY <1>1, <1>2, <2>1, <2>3, CommitStep
<1>7. CASE ~ (f.status = "LEADERSHIP_ACK_REQUIRED")
  <2>1. Commit(i, Write(Begin(f), g))
    BY <1>1, <1>3, <1>7, Zenon DEF AcknowledgeLeadershipReview
  <2> HIDE <1>3
  <2>2. \A h \in Made(Write(Begin(f), g)) : Kept(f, h)
    BY <1>2, <1>4, <1>5, StoreOnly, AcknowledgeRun
  <2> QED
    BY <1>1, <1>2, <2>1, <2>2, CommitStep
<1> QED
  BY <1>6, <1>7

\* An action is stored; the status moves where actions are expected.
LEMMA CreateActionKeeps ==
  ASSUME MInv, NEW u, NEW i \in Incidents, CreateAction(u, i)
  PROVE  MInv' /\ Frozen
<1>1. PICK f : f = file[i]
  OBVIOUS
<1>2. Found(f) /\ f \in IncidentFile
  BY <1>1, OpenFound DEF Found, CreateAction
<1>3. PICK g : g = [f EXCEPT !.openActions = @ + 1]
  OBVIOUS
<1>4. g \in IncidentFile /\ Moved(f, g, f.status)
  BY <1>1, <1>2, <1>3, IncidentAssumption
     DEF IncidentFile, Moved, SameDecision, SameRows, CreateAction, MInv, TypeOK
<1>5. f.classification # None
  BY <1>1 DEF CreateAction
<1>6. CASE f.status \in {"ASSESSED", "CAPA_PLANNING", "ACTIONS_IN_PROGRESS"}
  <2>1. Commit(i, SetStatus(Write(Begin(f), g), "ACTIONS_IN_PROGRESS"))
    BY <1>1, <1>3, <1>6, Zenon DEF CreateAction
  <2> HIDE <1>3
  <2>2. "ACTIONS_IN_PROGRESS" \in IncidentStatus
    BY DEF IncidentStatus
  <2>3. \A h \in Made(SetStatus(Write(Begin(f), g), "ACTIONS_IN_PROGRESS")) : Kept(f, h)
    BY <1>2, <1>4, <1>5, <1>6, <2>2, StoreThenStatus, CreateActionRun, SameKept DEF Moved
  <2> QED
    BY <1>1, <1>2, <2>1, <2>3, CommitStep
<1>7. CASE ~ (f.status \in {"ASSESSED", "CAPA_PLANNING", "ACTIONS_IN_PROGRESS"})
  <2>1. Commit(i, Write(Begin(f), g))
    BY <1>1, <1>3, <1>7, Zenon DEF CreateAction
  <2> HIDE <1>3
  <2>2. \A h \in Made(Write(Begin(f), g)) : Kept(f, h)
    BY <1>2, <1>4, StoreOnly, SameKept DEF Moved
  <2> QED
    BY <1>1, <1>2, <2>1, <2>2, CommitStep
<1> QED
  BY <1>6, <1>7

\* A completed action changes nothing the invariant speaks of.
LEMMA CompleteActionKeeps ==
  ASSUME MInv, NEW u, NEW i \in Incidents, CompleteAction(u, i)
  PROVE  MInv' /\ Frozen
<1>1. PICK f : f = file[i]
  OBVIOUS
<1>2. Found(f) /\ f \in IncidentFile
  BY <1>1, OpenFound DEF Found, CompleteAction
<1>3. PICK g : g = [f EXCEPT !.openActions = @ - 1]
  OBVIOUS
<1>4. g \in IncidentFile /\ Moved(f, g, f.status)
  BY <1>1, <1>2, <1>3, IncidentAssumption
     DEF IncidentFile, Moved, SameDecision, SameRows, CompleteAction, MInv, TypeOK
<1>5. Commit(i, Write(Begin(f), g))
  BY <1>1, <1>3, Zenon DEF CompleteAction
<1> HIDE <1>3
<1>6. \A h \in Made(Write(Begin(f), g)) : Kept(f, h)
  BY <1>2, <1>4, StoreOnly, SameKept DEF Moved
<1> QED
  BY <1>1, <1>2, <1>5, <1>6, CommitStep

\* A planned review is stored, then the status changes.
LEMMA PlanReviewKeeps ==
  ASSUME MInv, NEW u, NEW i \in Incidents, PlanEffectivenessReview(u, i)
  PROVE  MInv' /\ Frozen
<1>1. PICK f : f = file[i]
  OBVIOUS
<1>2. Found(f) /\ f \in IncidentFile
  BY <1>1, OpenFound DEF Found, PlanEffectivenessReview
<1>3. PICK g : g = [f EXCEPT !.review = "PLANNED"]
  OBVIOUS
<1>4. /\ g \in IncidentFile /\ g.status = f.status /\ SameDecision(f, g)
      /\ g.capa = f.capa /\ g.rca = f.rca /\ g.review = "PLANNED"
      /\ g.ack = f.ack /\ g.ackUser = f.ackUser
  BY <1>1, <1>2, <1>3, IncidentAssumption
     DEF IncidentFile, Moved, SameDecision, SameRows, PlanEffectivenessReview, MInv, TypeOK
<1>5. Commit(i, SetStatus(Write(Begin(f), g), "EFFECTIVENESS_PLANNED"))
  BY <1>1, <1>3, Zenon DEF PlanEffectivenessReview
<1> HIDE <1>3
<1>6. \A h \in Made(SetStatus(Write(Begin(f), g), "EFFECTIVENESS_PLANNED")) : Kept(f, h)
  <2>1. f.capaRequired /\ f.status \in {"ACTIONS_IN_PROGRESS", "FOLLOW_UP"}
    BY <1>1 DEF PlanEffectivenessReview
  <2>2. "EFFECTIVENESS_PLANNED" \in IncidentStatus
    BY DEF IncidentStatus
  <2> QED
    BY <1>2, <1>4, <2>1, <2>2, StoreThenStatus, PlanReviewRun DEF Moved
<1> QED
  BY <1>1, <1>2, <1>5, <1>6, CommitStep

\* The request is stored, then the status changes.
LEMMA ForwardKeeps ==
  ASSUME MInv, NEW u, NEW i \in Incidents, NEW target \in Users, ForwardToLeadership(u, i, target)
  PROVE  MInv' /\ Frozen
<1>1. PICK f : f = file[i]
  OBVIOUS
<1>2. Found(f) /\ f \in IncidentFile
  BY <1>1, OpenFound DEF Found, ForwardToLeadership
<1>3. PICK g : g = [f EXCEPT !.ack = "PENDING", !.ackUser = target]
  OBVIOUS
<1>4. /\ g \in IncidentFile /\ g.status = f.status /\ SameDecision(f, g)
      /\ g.capa = f.capa /\ g.rca = f.rca /\ g.review = f.review
      /\ g.ack = "PENDING" /\ g.ackUser = target
  BY <1>1, <1>2, <1>3, IncidentAssumption
     DEF IncidentFile, Moved, SameDecision, SameRows, ForwardToLeadership, MInv, TypeOK
<1>5. Commit(i, SetStatus(Write(Begin(f), g), "LEADERSHIP_ACK_REQUIRED"))
  BY <1>1, <1>3, Zenon DEF ForwardToLeadership
<1> HIDE <1>3
<1>6. \A h \in Made(SetStatus(Write(Begin(f), g), "LEADERSHIP_ACK_REQUIRED")) : Kept(f, h)
  <2>1. f.status = "CLOSURE_REVIEW" /\ target \in leitung
    BY <1>1 DEF ForwardToLeadership
  <2>2. "LEADERSHIP_ACK_REQUIRED" \in IncidentStatus
    BY DEF IncidentStatus
  <2> QED
    BY <1>2, <1>4, <2>1, <2>2, StoreThenStatus, ForwardRun DEF Moved
<1> QED
  BY <1>1, <1>2, <1>5, <1>6, CommitStep

\* A CAPA in progress moves the status.
LEMMA UpdateCapaKeeps ==
  ASSUME MInv, NEW u, NEW i \in Incidents, UpdateCapa(u, i)
  PROVE  MInv' /\ Frozen
<1>1. PICK f : f = file[i]
  OBVIOUS
<1>2. Found(f) /\ f \in IncidentFile
  BY <1>1, OpenFound DEF Found, UpdateCapa
<1>5. Commit(i, SetStatus(Begin(f), "ACTIONS_IN_PROGRESS"))
  BY <1>1, Zenon DEF UpdateCapa
<1>6. \A h \in Made(SetStatus(Begin(f), "ACTIONS_IN_PROGRESS")) : Kept(f, h)
  <2>1. f.capa
    BY <1>1 DEF UpdateCapa
  <2>2. "ACTIONS_IN_PROGRESS" \in IncidentStatus
    BY DEF IncidentStatus
  <2>3. \A h \in Made(SetStatus(Begin(f), "ACTIONS_IN_PROGRESS")) :
           Allowed(f.status, "ACTIONS_IN_PROGRESS") /\ Moved(f, h, "ACTIONS_IN_PROGRESS")
    BY <1>2, <2>2, BeginRun, SetStatusRun
  <2> QED
    BY <1>2, <2>1, <2>3, UpdateCapaRun DEF Moved
<1> QED
  BY <1>1, <1>2, <1>5, <1>6, CommitStep

\* The CAPA row is stored, then the status changes once or twice.
LEMMA StartCapaKeeps ==
  ASSUME MInv, NEW u, NEW i \in Incidents, StartCapa(u, i)
  PROVE  MInv' /\ Frozen
<1>1. PICK f : f = file[i]
  OBVIOUS
<1>2. Found(f) /\ f \in IncidentFile
  BY <1>1, OpenFound DEF Found, StartCapa
<1>3. PICK g : g = [f EXCEPT !.capa = TRUE]
  OBVIOUS
<1>4. /\ g \in IncidentFile /\ g.status = f.status /\ SameDecision(f, g)
      /\ g.capa = TRUE /\ g.rca = f.rca /\ g.review = f.review
      /\ g.ack = f.ack /\ g.ackUser = f.ackUser
  BY <1>1, <1>2, <1>3, IncidentAssumption
     DEF IncidentFile, Moved, SameDecision, SameRows, StartCapa, MInv, TypeOK
<1>5. f.capaRequired
  BY <1>1 DEF StartCapa
<1>6. PICK stored : stored = Write(Begin(f), g)
  OBVIOUS
<1>7. PICK begun : begun = IF f.status = "ROOT_CAUSE_REQUIRED"
                           THEN SetStatus(stored, "CAPA_REQUIRED") ELSE stored
  OBVIOUS
<1>8. Commit(i, SetStatus(begun, "CAPA_PLANNING"))
  BY <1>1, <1>3, <1>6, <1>7, Zenon DEF StartCapa
<1> HIDE <1>3
<1>9. /\ Good(stored) /\ Current(stored) = g
      /\ \A h \in Made(stored) : h = g
  BY <1>2, <1>4, <1>6, BeginRun, WriteRun
<1>10. {"CAPA_REQUIRED", "CAPA_PLANNING"} \subseteq IncidentStatus
  BY DEF IncidentStatus
<1>11. /\ Kept(f, g)
       /\ \A h \in IncidentFile :
             f.status = "ROOT_CAUSE_REQUIRED" /\ Moved(g, h, "CAPA_REQUIRED") => Kept(f, h)
       /\ \A h \in IncidentFile : Moved(g, h, "CAPA_PLANNING") => Kept(f, h)
  BY <1>2, <1>4, <1>5, StartCapaRun
<1>12. /\ Good(begun)
       /\ \A h \in Made(begun) : Kept(f, h)
       /\ ~ begun.refused => SameDecision(g, Current(begun)) /\ SameRows(g, Current(begun))
  <2>1. CASE f.status = "ROOT_CAUSE_REQUIRED"
    <3>1. begun = SetStatus(stored, "CAPA_REQUIRED")
      BY <1>7, <2>1
    <3> QED
      BY <1>9, <1>10, <1>11, <2>1, <3>1, SetStatusRun DEF Moved
  <2>2. CASE f.status # "ROOT_CAUSE_REQUIRED"
    <3>1. begun = stored
      BY <1>7, <2>2
    <3> QED
      BY <1>9, <1>11, <3>1 DEF SameDecision, SameRows
  <2> QED
    BY <2>1, <2>2
<1>13. ASSUME NEW h \in Made(SetStatus(begun, "CAPA_PLANNING")) PROVE Kept(f, h)
  <2>1. h \in Made(begun) \/ (~ begun.refused /\ Moved(Current(begun), h, "CAPA_PLANNING"))
    BY <1>10, <1>12, <1>13, SetStatusRun
  <2>2. CASE ~ begun.refused /\ Moved(Current(begun), h, "CAPA_PLANNING")
    <3>1. Moved(g, h, "CAPA_PLANNING")
      BY <1>12, <2>2 DEF Moved, SameDecision, SameRows
    <3> QED
      BY <1>11, <3>1 DEF Moved
  <2> QED
    BY <1>12, <2>1, <2>2
<1> QED
  BY <1>1, <1>2, <1>8, <1>13, CommitStep

\* The result is stored, then the status changes twice or the operation stops.
LEMMA CompleteReviewKeeps ==
  ASSUME MInv, NEW u, NEW i \in Incidents, NEW effective \in BOOLEAN,
         CompleteEffectivenessReview(u, i, effective)
  PROVE  MInv' /\ Frozen
<1>1. PICK f : f = file[i]
  OBVIOUS
<1>2. Found(f) /\ f \in IncidentFile
  BY <1>1, OpenFound DEF Found, CompleteEffectivenessReview
<1>3. PICK result : result = IF effective THEN "EFFECTIVE" ELSE "INEFFECTIVE"
  OBVIOUS
<1>4. PICK g : g = [f EXCEPT !.review = result]
  OBVIOUS
<1>5. PICK to : to = IF effective THEN "CLOSURE_REVIEW" ELSE "FOLLOW_UP"
  OBVIOUS
<1>6. PICK stored : stored = Write(Begin(f), g)
  OBVIOUS
<1>7. PICK reviewed : reviewed = SetStatus(stored, "EFFECTIVENESS_REVIEW")
  OBVIOUS
<1>8. Commit(i, IF reviewed.refused THEN reviewed ELSE SetStatus(reviewed, to))
  BY <1>1, <1>3, <1>4, <1>5, <1>6, <1>7, Zenon DEF CompleteEffectivenessReview
<1>9. f.review # None
  BY <1>1 DEF CompleteEffectivenessReview
<1>10. result \in {"EFFECTIVE", "INEFFECTIVE"} /\ to \in {"CLOSURE_REVIEW", "FOLLOW_UP"}
  BY <1>3, <1>5
<1>11. /\ g \in IncidentFile /\ g.status = f.status /\ SameDecision(f, g)
       /\ g.capa = f.capa /\ g.rca = f.rca /\ g.review \in {"EFFECTIVE", "INEFFECTIVE"}
       /\ g.ack = f.ack /\ g.ackUser = f.ackUser
  BY <1>2, <1>4, <1>10 DEF IncidentFile, SameDecision
<1> HIDE <1>4
<1>12. /\ Good(stored) /\ Current(stored) = g
       /\ \A h \in Made(stored) : h = g
  BY <1>2, <1>6, <1>11, BeginRun, WriteRun
<1>13. {"EFFECTIVENESS_REVIEW", "CLOSURE_REVIEW", "FOLLOW_UP"} \subseteq IncidentStatus
  BY DEF IncidentStatus
<1>14. /\ Kept(f, g)
       /\ \A h \in IncidentFile :
             ( /\ Allowed(f.status, "EFFECTIVENESS_REVIEW")
               /\ h.status \in {"EFFECTIVENESS_REVIEW", "CLOSURE_REVIEW", "FOLLOW_UP"}
               /\ SameDecision(g, h) /\ SameRows(g, h) )
             => Kept(f, h)
  BY <1>2, <1>9, <1>11, CompleteReviewRun
<1>15. /\ Good(reviewed)
       /\ \A h \in Made(reviewed) : Kept(f, h)
       /\ ~ reviewed.refused =>
             /\ Allowed(f.status, "EFFECTIVENESS_REVIEW")
             /\ SameDecision(g, Current(reviewed)) /\ SameRows(g, Current(reviewed))
  BY <1>7, <1>11, <1>12, <1>13, <1>14, SetStatusRun DEF Moved
<1>16. CASE reviewed.refused
  BY <1>1, <1>2, <1>8, <1>15, <1>16, CommitStep
<1>17. CASE ~ reviewed.refused
  <2>1. Commit(i, SetStatus(reviewed, to))
    BY <1>8, <1>17
  <2>2. ASSUME NEW h \in Made(SetStatus(reviewed, to)) PROVE Kept(f, h)
    <3>1. h \in Made(reviewed) \/ Moved(Current(reviewed), h, to)
      BY <1>10, <1>13, <1>15, <2>2, SetStatusRun
    <3>2. CASE Moved(Current(reviewed), h, to)
      <4>1. h \in IncidentFile /\ h.status = to /\ SameDecision(g, h) /\ SameRows(g, h)
        BY <1>15, <1>17, <3>2 DEF Moved, SameDecision, SameRows
      <4> QED
        BY <1>10, <1>14, <1>15, <1>17, <4>1
    <3> QED
      BY <1>15, <3>1, <3>2
  <2> QED
    BY <1>1, <1>2, <2>1, <2>2, CommitStep
<1> QED
  BY <1>16, <1>17

\* A date changes nothing the invariant speaks of.
LEMMA DateOnly ==
  ASSUME NEW f \in IncidentFile
  PROVE  /\ Moved(f, [f EXCEPT !.closedAt = TRUE], f.status)
         /\ Moved(f, [f EXCEPT !.archivedAt = TRUE], f.status)
  BY DEF IncidentFile, Moved, SameDecision, SameRows

\* A refused run has committed what it had committed before.
LEMMA RefusedRun ==
  ASSUME NEW run, Good(run), NEW new, new = [run EXCEPT !.refused = TRUE]
  PROVE  Good(new) /\ Made(new) = Made(run) /\ new.refused
<1>1. new.commits = run.commits /\ new.refused = TRUE /\ new \in Run
  BY DEF Good, Run
<1> QED
  BY <1>1 DEF Good, Made

\* Closing changes the status once or twice and then writes the date.
LEMMA CloseKeeps ==
  ASSUME MInv, NEW u, NEW i \in Incidents, CloseIncident(u, i)
  PROVE  MInv' /\ Frozen
<1>1. PICK f : f = file[i]
  OBVIOUS
<1>2. Found(f) /\ f \in IncidentFile
  BY <1>1, OpenFound DEF Found, CloseIncident
<1>3. PICK begun : begun = IF f.status \in {"DOCUMENTATION_ONLY", "ASSESSED"}
                           THEN SetStatus(Begin(f), "CLOSURE_REVIEW") ELSE Begin(f)
  OBVIOUS
<1>4. PICK closed : closed = IF Current(begun).status = "CLOSURE_REVIEW"
                             THEN SetStatus(begun, "CLOSED")
                             ELSE [begun EXCEPT !.refused = TRUE]
  OBVIOUS
<1>5. PICK g : g = [Current(closed) EXCEPT !.closedAt = TRUE]
  OBVIOUS
<1>6. Commit(i, Write(closed, g)) /\ ReadyToClose(f)
  BY <1>1, <1>3, <1>4, <1>5, Zenon DEF CloseIncident
<1>7. {"CLOSURE_REVIEW", "CLOSED"} \subseteq IncidentStatus
  BY DEF IncidentStatus
<1>8. \A h \in IncidentFile :
         SameDecision(f, h) /\ SameRows(f, h) /\ h.status \in {"CLOSURE_REVIEW", "CLOSED"}
             => Kept(f, h)
  BY <1>2, <1>6, CloseRun
<1>9. /\ Good(begun)
      /\ \A h \in Made(begun) : Kept(f, h)
      /\ ~ begun.refused => SameDecision(f, Current(begun)) /\ SameRows(f, Current(begun))
  <2>1. CASE f.status \in {"DOCUMENTATION_ONLY", "ASSESSED"}
    <3>1. begun = SetStatus(Begin(f), "CLOSURE_REVIEW")
      BY <1>3, <2>1
    <3> QED
      BY <1>2, <1>7, <1>8, <3>1, BeginRun, SetStatusRun DEF Moved
  <2>2. CASE f.status \notin {"DOCUMENTATION_ONLY", "ASSESSED"}
    <3>1. begun = Begin(f)
      BY <1>3, <2>2
    <3> QED
      BY <1>2, <3>1, BeginRun DEF SameDecision, SameRows
  <2> QED
    BY <2>1, <2>2
<1>10. /\ Good(closed)
       /\ \A h \in Made(closed) : Kept(f, h)
       /\ ~ closed.refused => Moved(f, Current(closed), "CLOSED")
  <2>1. CASE Current(begun).status = "CLOSURE_REVIEW"
    <3>1. closed = SetStatus(begun, "CLOSED")
      BY <1>4, <2>1
    <3>2. \A h : ~ begun.refused /\ Moved(Current(begun), h, "CLOSED") => Moved(f, h, "CLOSED")
      BY <1>9 DEF Moved, SameDecision, SameRows
    <3>3. \A h : Moved(f, h, "CLOSED") => Kept(f, h)
      BY <1>8 DEF Moved
    <3> QED
      BY <1>7, <1>9, <3>1, <3>2, <3>3, SetStatusRun
  <2>2. CASE Current(begun).status # "CLOSURE_REVIEW"
    <3>1. closed = [begun EXCEPT !.refused = TRUE]
      BY <1>4, <2>2
    <3> QED
      BY <1>9, <3>1, RefusedRun
  <2> QED
    BY <2>1, <2>2
<1>11. Current(closed) \in IncidentFile
  BY <1>10, CurrentFile
<1>12. Moved(Current(closed), g, Current(closed).status)
  BY <1>5, <1>11, DateOnly
<1> HIDE <1>5
<1>13. ASSUME NEW h \in Made(Write(closed, g)) PROVE Kept(f, h)
  <2>1. h \in Made(closed) \/ (~ closed.refused /\ h = g)
    BY <1>10, <1>12, <1>13, WriteRun DEF Moved
  <2>2. CASE ~ closed.refused /\ h = g
    <3>1. Moved(f, h, "CLOSED")
      BY <1>10, <1>12, <2>2 DEF Moved, SameDecision, SameRows
    <3> QED
      BY <1>8, <3>1 DEF Moved
  <2> QED
    BY <1>10, <2>1, <2>2
<1> QED
  BY <1>1, <1>2, <1>6, <1>13, CommitStep

\* Archiving changes the status of a closed incident and writes the date.
LEMMA ArchiveKeeps ==
  ASSUME MInv, NEW u, NEW i \in Incidents, ArchiveIncident(u, i)
  PROVE  MInv' /\ Frozen
<1>1. PICK f : f = file[i]
  OBVIOUS
<1>2. Found(f) /\ f \in IncidentFile
  BY <1>1, OpenFound DEF Found, ArchiveIncident
<1>3. PICK archived : archived = SetStatus(Begin(f), "ARCHIVED")
  OBVIOUS
<1>4. PICK g : g = [Current(archived) EXCEPT !.archivedAt = TRUE]
  OBVIOUS
<1>5. Commit(i, Write(archived, g)) /\ f.status = "CLOSED"
  BY <1>1, <1>3, <1>4, Zenon DEF ArchiveIncident
<1>6. "ARCHIVED" \in IncidentStatus
  BY DEF IncidentStatus
<1>7. \A h : Moved(f, h, "ARCHIVED") => Kept(f, h)
  BY <1>2, <1>5, CloseRun DEF Moved
<1>8. /\ Good(archived)
      /\ \A h \in Made(archived) : Kept(f, h)
      /\ ~ archived.refused => Moved(f, Current(archived), "ARCHIVED")
  BY <1>2, <1>3, <1>6, <1>7, BeginRun, SetStatusRun
<1>9. Current(archived) \in IncidentFile
  BY <1>8, CurrentFile
<1>10. Moved(Current(archived), g, Current(archived).status)
  BY <1>4, <1>9, DateOnly
<1> HIDE <1>4
<1>11. ASSUME NEW h \in Made(Write(archived, g)) PROVE Kept(f, h)
  <2>1. h \in Made(archived) \/ (~ archived.refused /\ h = g)
    BY <1>8, <1>10, <1>11, WriteRun DEF Moved
  <2>2. CASE ~ archived.refused /\ h = g
    <3>1. Moved(f, h, "ARCHIVED")
      BY <1>8, <1>10, <2>2 DEF Moved, SameDecision, SameRows
    <3> QED
      BY <1>7, <3>1
  <2> QED
    BY <1>8, <2>1, <2>2
<1> QED
  BY <1>1, <1>2, <1>5, <1>11, CommitStep

\* The row with the decision.
LEMMA AssessedFile ==
  ASSUME NEW c \in IncidentFile, NEW a \in Assessments, NEW g, g = Assessed(c, a)
  PROVE  /\ g \in IncidentFile /\ g.status = c.status /\ SameRows(c, g)
         /\ g.classification = a.classification
         /\ g.critical = ("critical" \in a.triggers)
         /\ g.capaRequired = DeriveCapaRequired(a)
         /\ g.leadershipRequired = (DeriveCapaRequired(a) \/ "critical" \in a.triggers)
<1>1. a.classification \in Classifications
  BY IncidentAssumption
<1>2. RootCauseRequired(a) \in BOOLEAN /\ DeriveCapaRequired(a) \in BOOLEAN
  BY DEF RootCauseRequired, DeriveCapaRequired
<1>3. PICK critical, capaRequired, rootCause, leadership :
         /\ critical = ("critical" \in a.triggers)
         /\ capaRequired = DeriveCapaRequired(a)
         /\ rootCause = RootCauseRequired(a)
         /\ leadership = (DeriveCapaRequired(a) \/ "critical" \in a.triggers)
  BY Zenon
<1>4. {critical, capaRequired, rootCause, leadership} \subseteq BOOLEAN
  BY <1>2, <1>3
<1>5. g = [c EXCEPT !.classification     = a.classification,
                    !.critical           = critical,
                    !.capaRequired       = capaRequired,
                    !.rootCauseRequired  = rootCause,
                    !.leadershipRequired = leadership]
  BY <1>3, Zenon DEF Assessed
<1>6. /\ g \in IncidentFile /\ g.status = c.status /\ SameRows(c, g)
      /\ g.classification = a.classification
      /\ g.critical = critical /\ g.capaRequired = capaRequired
      /\ g.leadershipRequired = leadership
  <2>1. critical \in BOOLEAN /\ capaRequired \in BOOLEAN
        /\ rootCause \in BOOLEAN /\ leadership \in BOOLEAN
    BY <1>4
  <2>2. g \in IncidentFile
    BY <1>1, <1>5, <2>1 DEF IncidentFile
  <2>3. /\ g.status = c.status /\ g.classification = a.classification
        /\ g.critical = critical /\ g.capaRequired = capaRequired
        /\ g.leadershipRequired = leadership
    BY <1>5 DEF IncidentFile
  <2>4. SameRows(c, g)
    BY <1>5 DEF IncidentFile, SameRows
  <2> QED
    BY <2>2, <2>3, <2>4
<1> QED
  BY <1>3, <1>6, Zenon

\* The assessment changes the status once or twice and then stores the decision.
LEMMA AssessKeeps ==
  ASSUME MInv, NEW u, NEW i \in Incidents, NEW a \in Assessments, AssessIncident(u, i, a)
  PROVE  MInv' /\ Frozen
<1>1. PICK f : f = file[i]
  OBVIOUS
<1>2. Found(f) /\ f \in IncidentFile
  BY <1>1, OpenFound DEF Found, AssessIncident
<1>3. PICK to : to = NextStatusAfterAssessment(a)
  OBVIOUS
<1>4. PICK begun : begun = IF f.status = "SUBMITTED"
                           THEN SetStatus(Begin(f), "QMB_REVIEW") ELSE Begin(f)
  OBVIOUS
<1>5. PICK advanced : advanced = SetStatus(begun, to)
  OBVIOUS
<1>6. PICK g : g = Assessed(Current(advanced), a)
  OBVIOUS
<1>7. Commit(i, Write(advanced, g))
  BY <1>1, <1>3, <1>4, <1>5, <1>6, Zenon DEF AssessIncident
<1>8. /\ to \in {"ROOT_CAUSE_REQUIRED", "DOCUMENTATION_ONLY", "ASSESSED"}
      /\ to \in IncidentStatus /\ "QMB_REVIEW" \in IncidentStatus
  BY <1>3, NextStatus DEF IncidentStatus
<1>9. /\ Good(begun)
      /\ \A h \in Made(begun) : Kept(f, h)
      /\ ~ begun.refused =>
            /\ SameDecision(f, Current(begun)) /\ SameRows(f, Current(begun))
            /\ f.status = "SUBMITTED" \/ Current(begun).status = f.status
  <2>1. CASE f.status = "SUBMITTED"
    <3>1. begun = SetStatus(Begin(f), "QMB_REVIEW")
      BY <1>4, <2>1
    <3>2. \A h : Moved(f, h, "QMB_REVIEW") => Kept(f, h)
      BY <1>2, <2>1, AssessingRun DEF Moved
    <3> QED
      BY <1>2, <1>8, <2>1, <3>1, <3>2, BeginRun, SetStatusRun DEF Moved
  <2>2. CASE f.status # "SUBMITTED"
    <3>1. begun = Begin(f)
      BY <1>4, <2>2
    <3> QED
      BY <1>2, <3>1, BeginRun DEF SameDecision, SameRows
  <2> QED
    BY <2>1, <2>2
<1>10. \A h : ~ begun.refused /\ Allowed(Current(begun).status, to) /\ Moved(Current(begun), h, to)
                 => /\ Moved(f, h, to)
                    /\ f.status = "SUBMITTED" \/ Allowed(f.status, to)
  BY <1>9 DEF Moved, SameDecision, SameRows
<1>11. \A h : Moved(f, h, to) /\ (f.status = "SUBMITTED" \/ Allowed(f.status, to)) => Kept(f, h)
  BY <1>2, <1>8, AssessingRun DEF Moved
<1>12. /\ Good(advanced)
       /\ \A h \in Made(advanced) : Kept(f, h)
       /\ ~ advanced.refused =>
             /\ Moved(f, Current(advanced), to)
             /\ f.status = "SUBMITTED" \/ Allowed(f.status, to)
  BY <1>5, <1>8, <1>9, <1>10, <1>11, SetStatusRun
<1>13. Current(advanced) \in IncidentFile
  BY <1>12, CurrentFile
<1>14. ASSUME NEW h \in Made(Write(advanced, g)) PROVE Kept(f, h)
  <2>1. g \in IncidentFile
    BY <1>6, <1>13, AssessedFile
  <2>2. h \in Made(advanced) \/ (~ advanced.refused /\ h = g)
    BY <1>12, <1>14, <2>1, WriteRun
  <2>3. CASE ~ advanced.refused /\ h = g
    <3>1. /\ g.status = Current(advanced).status /\ SameRows(Current(advanced), g)
          /\ g.classification = a.classification
          /\ g.critical = ("critical" \in a.triggers)
          /\ g.capaRequired = DeriveCapaRequired(a)
          /\ g.leadershipRequired = (DeriveCapaRequired(a) \/ "critical" \in a.triggers)
      BY <1>6, <1>13, AssessedFile
    <3>2. g.status = to /\ SameRows(f, g) /\ (f.status = "SUBMITTED" \/ Allowed(f.status, to))
      BY <1>12, <2>3, <3>1 DEF Moved, SameRows
    <3> QED
      BY <1>2, <1>3, <2>1, <2>3, <3>1, <3>2, DecidedRun
  <2> QED
    BY <1>12, <2>2, <2>3
<1> QED
  BY <1>1, <1>2, <1>7, <1>14, CommitStep

\* A new file has nothing to show for.
LEMMA NewFileOK ==
  ASSUME NEW u \in Users \cup {None}, NEW f, f = NewFile(u) \/ f = NoFile
  PROVE  f \in IncidentFile /\ FileOK(f)
<1>1. /\ f.status \in {"SUBMITTED", "ABSENT"} /\ f.classification = None /\ f.critical = FALSE
      /\ f.capaRequired = FALSE /\ f.rootCauseRequired = FALSE
      /\ f.leadershipRequired = FALSE /\ f.capa = FALSE /\ f.rca = FALSE
      /\ f.review = None /\ f.ack = None
      /\ f \in IncidentFile
  <2>1. CASE f = NewFile(u)
    BY <2>1, IncidentAssumption DEF NewFile, IncidentFile, IncidentStatus
  <2>2. CASE f = NoFile
    <3>1. PICK n : n = NewFile(None)
      OBVIOUS
    <3>2. /\ n.classification = None /\ n.critical = FALSE
          /\ n.capaRequired = FALSE /\ n.rootCauseRequired = FALSE
          /\ n.leadershipRequired = FALSE /\ n.capa = FALSE /\ n.rca = FALSE
          /\ n.review = None /\ n.ack = None
          /\ n \in IncidentFile
      BY <3>1, IncidentAssumption DEF NewFile, IncidentFile, IncidentStatus
    <3>3. f = [n EXCEPT !.status = "ABSENT"]
      BY <2>2, <3>1, Zenon DEF NoFile
    <3> HIDE <3>1, <2>2
    <3> QED
      BY <3>2, <3>3 DEF IncidentFile
  <2> QED
    BY <2>1, <2>2
<1> QED
  BY <1>1 DEF FileOK, DecisionOK, RowsOK, ClosedOK, Undecided, Early

\* Initially there are no incidents.
LEMMA InitMInv == Init => MInv
<1> SUFFICES ASSUME Init PROVE MInv
  OBVIOUS
<1>1. NoFile \in IncidentFile /\ FileOK(NoFile) /\ NoFile.status = "ABSENT"
  BY NewFileOK DEF NoFile, NewFile
<1>2. TypeOK
  BY <1>1, IncidentAssumption DEF Init, TypeOK, NoBatch, NoItems
<1>3. \A i \in Incidents : file[i] = NoFile
  BY DEF Init
<1>4. FilesInv
  BY <1>1, <1>3 DEF FilesInv
<1>5. NumbersInv
  BY <1>1, <1>3 DEF NumbersInv
<1>6. CompletedReviewAcknowledged
  BY DEF Init, CompletedReviewAcknowledged, NoBatch
<1> QED
  BY <1>2, <1>4, <1>5, <1>6 DEF MInv

\* A step that leaves the files alone, and takes nobody out of the Leitung.
LEMMA FilesUnchanged ==
  ASSUME MInv, UNCHANGED <<allocated, file>>, leitung \subseteq leitung'
  PROVE  FilesInv' /\ NumbersInv' /\ Frozen
<1>1. FilesInv'
  <2> SUFFICES ASSUME NEW i \in Incidents PROVE FileOK(file[i])'
    BY DEF FilesInv
  <2>1. FileOK(file[i])
    BY DEF MInv, FilesInv
  <2> QED
    BY <2>1 DEF FileOK, DecisionOK, RowsOK, ClosedOK
<1>2. NumbersInv'
  BY DEF MInv, NumbersInv
<1>3. Frozen
  BY DEF Frozen, Fixed
<1> QED
  BY <1>1, <1>2, <1>3

\* A number is handed out once, so a new file takes the place of none.
LEMMA SubmitKeeps ==
  ASSUME MInv, NEW u \in Users, SubmitIncident(u)
  PROVE  MInv' /\ Frozen
<1> USE DEF SubmitIncident
<1>1. allocated \in Nat /\ allocated + 1 \in Incidents
  BY IncidentAssumption DEF MInv, TypeOK, Incidents
<1>2. PICK f : f = NewFile(u)
  OBVIOUS
<1>3. f \in IncidentFile /\ FileOK(f)
  BY <1>2, NewFileOK
<1>4. \/ file' = [file EXCEPT ![allocated + 1] = f]
      \/ file' = file
  BY <1>2
<1> HIDE <1>2
<1>5. TypeOK'
  BY <1>1, <1>3, <1>4, IncidentAssumption DEF MInv, TypeOK
<1>6. \A j \in Incidents : file'[j] = file[j] \/ (j = allocated + 1 /\ file'[j] = f)
  BY <1>1, <1>4 DEF MInv, TypeOK
<1>7. FilesInv'
  <2> SUFFICES ASSUME NEW j \in Incidents PROVE FileOK(file[j])'
    BY DEF FilesInv
  <2>1. FileOK(file[j])
    BY DEF MInv, FilesInv
  <2>2. CASE file'[j] = file[j]
    BY <2>1, <2>2 DEF FileOK, DecisionOK, RowsOK, ClosedOK
  <2>3. CASE file'[j] = f
    BY <1>3, <2>3 DEF FileOK, DecisionOK, RowsOK, ClosedOK
  <2> QED
    BY <1>6, <2>2, <2>3
<1>8. NumbersInv'
  <2> SUFFICES ASSUME NEW j \in Incidents, j > allocated' PROVE file'[j].status = "ABSENT"
    BY DEF NumbersInv
  <2>1. j \in Nat /\ j > allocated /\ j # allocated + 1
    BY <1>1 DEF Incidents
  <2> QED
    BY <1>6, <2>1 DEF MInv, NumbersInv
<1>9. CompletedReviewAcknowledged'
  BY DEF MInv, CompletedReviewAcknowledged
<1>10. Frozen
  <2> SUFFICES ASSUME NEW j \in Incidents PROVE Fixed(file[j], file'[j])
    BY DEF Frozen
  <2>1. CASE file'[j] = file[j]
    BY <2>1 DEF Fixed
  <2>2. CASE j = allocated + 1
    <3>1. file[j].status = "ABSENT"
      BY <1>1, <2>2 DEF MInv, NumbersInv
    <3> QED
      BY <3>1 DEF Fixed
  <2> QED
    BY <1>6, <2>1, <2>2
<1> QED
  BY <1>5, <1>7, <1>8, <1>9, <1>10 DEF MInv

\* The Leitung only grows.
LEMMA AssignRoleKeeps ==
  ASSUME MInv, NEW u, NEW target \in Users, AssignModuleRole(u, target)
  PROVE  MInv' /\ Frozen
<1>1. FilesInv' /\ NumbersInv' /\ Frozen
  BY FilesUnchanged DEF AssignModuleRole
<1>2. TypeOK' /\ CompletedReviewAcknowledged'
  BY DEF MInv, TypeOK, CompletedReviewAcknowledged, AssignModuleRole
<1> QED
  BY <1>1, <1>2 DEF MInv

\* A step on one batch that leaves everything else alone.
LEMMA BatchStep ==
  ASSUME MInv, NEW b \in Batches, NEW c, batch' = [batch EXCEPT ![b] = c],
         c.status \in {"OPEN", "IN_DISCUSSION", "COMPLETED"},
         c \in [status : {"ABSENT", "OPEN", "IN_DISCUSSION", "COMPLETED"},
                items  : [Incidents -> ItemStatus \cup {None}]],
         c.status = "COMPLETED" => \A i \in Incidents : c.items[i] \in {None, "ACKNOWLEDGED"},
         UNCHANGED <<allocated, file, leitung>>
  PROVE  MInv' /\ Frozen
<1>1. FilesInv' /\ NumbersInv' /\ Frozen
  BY FilesUnchanged
<1>2. TypeOK'
  BY DEF MInv, TypeOK
<1>3. CompletedReviewAcknowledged'
  BY DEF MInv, TypeOK, CompletedReviewAcknowledged
<1> QED
  BY <1>1, <1>2, <1>3 DEF MInv

\* A new batch is open.
LEMMA CreateReviewKeeps ==
  ASSUME MInv, NEW u, NEW b \in Batches, NEW period, CreateManagementReview(u, b, period)
  PROVE  MInv' /\ Frozen
<1>1. PICK last \in 0..MaxIncidents :
         LET included == {i \in period : i <= last /\ file[i].status # "ABSENT"}
         IN  batch' = [batch EXCEPT ![b] =
                 [status |-> "OPEN",
                  items  |-> [i \in Incidents |-> IF i \in included THEN "INCLUDED" ELSE None]]]
  BY Zenon DEF CreateManagementReview
<1>2. PICK c : c = [status |-> "OPEN",
                    items  |-> [i \in Incidents |->
                                   IF i \in {j \in period : j <= last /\ file[j].status # "ABSENT"}
                                   THEN "INCLUDED" ELSE None]]
  OBVIOUS
<1>3. batch' = [batch EXCEPT ![b] = c]
  BY <1>1, <1>2, Zenon
<1>4. c.status = "OPEN" /\ c \in [status : {"ABSENT", "OPEN", "IN_DISCUSSION", "COMPLETED"},
                                  items  : [Incidents -> ItemStatus \cup {None}]]
  BY <1>2 DEF ItemStatus
<1> HIDE <1>1, <1>2
<1> QED
  BY <1>3, <1>4, BatchStep DEF CreateManagementReview

\* A batch in discussion is not completed.
LEMMA MarkInDiscussionKeeps ==
  ASSUME MInv, NEW u, NEW b \in Batches, MarkInDiscussion(u, b)
  PROVE  MInv' /\ Frozen
<1>1. PICK last \in 0..MaxIncidents :
         batch' = [batch EXCEPT ![b] =
             [status |-> "IN_DISCUSSION",
              items  |-> [i \in Incidents |->
                             IF i <= last /\ batch[b].items[i] = "INCLUDED"
                             THEN "IN_DISCUSSION" ELSE batch[b].items[i]]]]
  BY DEF MarkInDiscussion
<1>2. PICK c : c = [status |-> "IN_DISCUSSION",
                    items  |-> [i \in Incidents |->
                                   IF i <= last /\ batch[b].items[i] = "INCLUDED"
                                   THEN "IN_DISCUSSION" ELSE batch[b].items[i]]]
  OBVIOUS
<1>3. batch' = [batch EXCEPT ![b] = c]
  BY <1>1, <1>2, Zenon
<1>4. batch[b].items \in [Incidents -> ItemStatus \cup {None}]
  BY DEF MInv, TypeOK
<1>5. c.status = "IN_DISCUSSION"
      /\ c \in [status : {"ABSENT", "OPEN", "IN_DISCUSSION", "COMPLETED"},
                items  : [Incidents -> ItemStatus \cup {None}]]
  BY <1>2, <1>4 DEF ItemStatus
<1> HIDE <1>1, <1>2
<1> QED
  BY <1>3, <1>5, BatchStep DEF MarkInDiscussion

\* A batch is completed when the items read back are all acknowledged, and an
\* acknowledged item stays so.
LEMMA AcknowledgeItemsKeeps ==
  ASSUME MInv, NEW u, NEW b \in Batches, NEW selected, AcknowledgeItems(u, b, selected)
  PROVE  MInv' /\ Frozen
<1> DEFINE targets == IF selected = {} THEN Incidents ELSE selected
           itemsTo(last) == [i \in Incidents |->
                                IF i \in targets /\ i <= last /\ batch[b].items[i] # None
                                THEN "ACKNOWLEDGED" ELSE batch[b].items[i]]
<1>1. PICK last \in 0..MaxIncidents, interrupted \in BOOLEAN :
         batch' = [batch EXCEPT ![b] =
             [status |-> IF /\ ~ interrupted
                            /\ last = MaxIncidents
                            /\ \A i \in Incidents : itemsTo(last)[i] \in {None, "ACKNOWLEDGED"}
                         THEN "COMPLETED" ELSE batch[b].status,
              items  |-> itemsTo(last)]]
  BY Zenon DEF AcknowledgeItems
<1>2. PICK items : items = itemsTo(last)
  OBVIOUS
<1>3. PICK status : status = IF /\ ~ interrupted
                                /\ last = MaxIncidents
                                /\ \A i \in Incidents : items[i] \in {None, "ACKNOWLEDGED"}
                             THEN "COMPLETED" ELSE batch[b].status
  OBVIOUS
<1>4. PICK c : c = [status |-> status, items |-> items]
  OBVIOUS
<1>5. batch' = [batch EXCEPT ![b] = c]
  BY <1>1, <1>2, <1>3, <1>4, Zenon
<1>6. /\ batch[b].items \in [Incidents -> ItemStatus \cup {None}]
      /\ batch[b].status \in {"OPEN", "IN_DISCUSSION", "COMPLETED"}
  BY DEF MInv, TypeOK, AcknowledgeItems
<1>7. /\ items \in [Incidents -> ItemStatus \cup {None}]
      /\ \A i \in Incidents : items[i] \in {"ACKNOWLEDGED", batch[b].items[i]}
  BY <1>2, <1>6 DEF ItemStatus
<1>8. /\ status \in {"OPEN", "IN_DISCUSSION", "COMPLETED"}
      /\ status = "COMPLETED" =>
            \/ \A i \in Incidents : items[i] \in {None, "ACKNOWLEDGED"}
            \/ batch[b].status = "COMPLETED"
  BY <1>3, <1>6
<1>9. status = "COMPLETED" => \A i \in Incidents : items[i] \in {None, "ACKNOWLEDGED"}
  BY <1>7, <1>8 DEF MInv, CompletedReviewAcknowledged
<1>10. /\ c.status = status /\ c.items = items
       /\ c \in [status : {"ABSENT", "OPEN", "IN_DISCUSSION", "COMPLETED"},
                 items  : [Incidents -> ItemStatus \cup {None}]]
  BY <1>4, <1>7, <1>8
<1> HIDE <1>1, <1>2, <1>3, <1>4
<1> QED
  BY <1>5, <1>8, <1>9, <1>10, BatchStep DEF AcknowledgeItems
-----------------------------------------------------------------------------
\* Every step keeps the inductive invariant and the decisions that were acted on.
LEMMA NextMInv == MInv /\ [Next]_vars => MInv' /\ Frozen
<1> SUFFICES ASSUME MInv, [Next]_vars PROVE MInv' /\ Frozen
  OBVIOUS
<1>1. CASE UNCHANGED vars
  <2>1. FilesInv' /\ NumbersInv' /\ Frozen
    BY <1>1, FilesUnchanged DEF vars
  <2>2. TypeOK' /\ CompletedReviewAcknowledged'
    BY <1>1 DEF vars, MInv, TypeOK, CompletedReviewAcknowledged
  <2> QED
    BY <2>1, <2>2 DEF MInv
<1>2. CASE Next
  <2> PICK u \in Users :
        \/ SubmitIncident(u)
        \/ \E target \in Users : AssignModuleRole(u, target)
        \/ \E i \in Incidents :
              \/ OpenInquiry(u, i)
              \/ AnswerInquiry(u, i)
              \/ \E a \in Assessments : AssessIncident(u, i, a)
              \/ CreateRootCauseAnalysis(u, i)
              \/ StartCapa(u, i)
              \/ UpdateCapa(u, i)
              \/ CreateAction(u, i)
              \/ CompleteAction(u, i)
              \/ PlanEffectivenessReview(u, i)
              \/ \E effective \in BOOLEAN : CompleteEffectivenessReview(u, i, effective)
              \/ \E target \in Users : ForwardToLeadership(u, i, target)
              \/ AcknowledgeLeadershipReview(u, i)
              \/ CloseIncident(u, i)
              \/ ArchiveIncident(u, i)
        \/ \E b \in Batches :
              \/ \E lo, hi \in Incidents : CreateManagementReview(u, b, lo..hi)
              \/ MarkInDiscussion(u, b)
              \/ \E selected \in SUBSET Incidents : AcknowledgeItems(u, b, selected)
    BY <1>2 DEF Next
  <2>1. CASE SubmitIncident(u)
    BY <2>1, SubmitKeeps
  <2>2. CASE \E target \in Users : AssignModuleRole(u, target)
    BY <2>2, AssignRoleKeeps
  <2>3. ASSUME NEW i \in Incidents,
               \/ OpenInquiry(u, i)
               \/ AnswerInquiry(u, i)
               \/ \E a \in Assessments : AssessIncident(u, i, a)
               \/ CreateRootCauseAnalysis(u, i)
               \/ StartCapa(u, i)
               \/ UpdateCapa(u, i)
               \/ CreateAction(u, i)
               \/ CompleteAction(u, i)
               \/ PlanEffectivenessReview(u, i)
               \/ \E effective \in BOOLEAN : CompleteEffectivenessReview(u, i, effective)
               \/ \E target \in Users : ForwardToLeadership(u, i, target)
               \/ AcknowledgeLeadershipReview(u, i)
               \/ CloseIncident(u, i)
               \/ ArchiveIncident(u, i)
        PROVE  MInv' /\ Frozen
    BY <2>3, OpenInquiryKeeps, AnswerInquiryKeeps, AssessKeeps, RootCauseKeeps, StartCapaKeeps,
       UpdateCapaKeeps, CreateActionKeeps, CompleteActionKeeps, PlanReviewKeeps,
       CompleteReviewKeeps, ForwardKeeps, AcknowledgeKeeps, CloseKeeps, ArchiveKeeps
  <2>4. ASSUME NEW b \in Batches,
               \/ \E lo, hi \in Incidents : CreateManagementReview(u, b, lo..hi)
               \/ MarkInDiscussion(u, b)
               \/ \E selected \in SUBSET Incidents : AcknowledgeItems(u, b, selected)
        PROVE  MInv' /\ Frozen
    BY <2>4, CreateReviewKeeps, MarkInDiscussionKeeps, AcknowledgeItemsKeeps
  <2> QED
    BY <2>1, <2>2, <2>3, <2>4
<1> QED
  BY <1>1, <1>2

\* The inductive invariant holds in every reachable state.
THEOREM IncidentsInvariance == Spec => []MInv
  BY InitMInv, NextMInv, PTL DEF Spec

\* Files, roles and batches have their types.
THEOREM IncidentsTypeCorrect == Spec => []TypeOK
<1>1. MInv => TypeOK
  BY DEF MInv
<1> QED
  BY <1>1, IncidentsInvariance, PTL

\* _validate_closure and the operations still possible afterwards: a closed incident
\* keeps its assessment, its CAPA evidence and its acknowledgement.
THEOREM ClosedIncidentsKeepEvidence == Spec => []ClosedEvidence
<1>1. MInv => ClosedEvidence
  <2> SUFFICES ASSUME MInv, NEW i \in Incidents, Closed(i)
               PROVE  /\ file[i].classification # None
                      /\ file[i].capaRequired =>
                             /\ file[i].rca
                             /\ file[i].capa
                             /\ file[i].review \in {"EFFECTIVE", "INEFFECTIVE"}
                      /\ file[i].critical \/ file[i].capaRequired =>
                             file[i].ack = "ACKNOWLEDGED" /\ file[i].ackUser \in leitung
    BY DEF ClosedEvidence
  <2>1. FileOK(file[i]) /\ None # "ACKNOWLEDGED"
    BY IncidentAssumption DEF MInv, FilesInv
  <2> QED
    BY <2>1 DEF FileOK, DecisionOK, RowsOK, ClosedOK, Closed
<1> QED
  BY <1>1, IncidentsInvariance, PTL

\* assess_incident changes the status before it stores the decision: an incident
\* without a decision is where the assessment can be entered again.
THEOREM AssessmentCanBeRepeated == Spec => []InterruptedAssessmentRecoverable
<1>1. MInv => InterruptedAssessmentRecoverable
  BY DEF MInv, FilesInv, FileOK, DecisionOK, Undecided, Early, InterruptedAssessmentRecoverable
<1> QED
  BY <1>1, IncidentsInvariance, PTL

\* set_status never runs ahead of the rows on the CAPA path.
THEOREM StatusHasItsRows == Spec => []StatusBackedByRows
<1>1. MInv => StatusBackedByRows
  <2> SUFFICES ASSUME MInv, NEW i \in Incidents
               PROVE  /\ file[i].status \in {"CAPA_REQUIRED", "CAPA_PLANNING", "FOLLOW_UP",
                                             "EFFECTIVENESS_PLANNED", "EFFECTIVENESS_REVIEW"}
                             => file[i].capaRequired /\ file[i].capa
                      /\ file[i].status \in {"EFFECTIVENESS_PLANNED", "EFFECTIVENESS_REVIEW",
                                             "FOLLOW_UP"}
                             => file[i].review # None
                      /\ file[i].status = "LEADERSHIP_ACK_REQUIRED"
                             => file[i].ack # None /\ file[i].ackUser \in leitung
    BY DEF StatusBackedByRows
  <2>1. RowsOK(file[i])
    BY DEF MInv, FilesInv, FileOK
  <2> QED
    BY <2>1 DEF RowsOK
<1> QED
  BY <1>1, IncidentsInvariance, PTL

\* acknowledge_items completes a batch only when no item is open, and no later call
\* opens one.
THEOREM CompletedReviewsAreAcknowledged == Spec => []CompletedReviewAcknowledged
<1>1. MInv => CompletedReviewAcknowledged
  BY DEF MInv
<1> QED
  BY <1>1, IncidentsInvariance, PTL

\* No operation revises classification, CAPA or leadership requirement once work on
\* them has begun.
THEOREM DecisionsActedOnAreFixed == Spec => AssessmentFixedOnceActedOn
<1> DEFINE A == \A i \in Incidents :
           file[i].status \in IncidentStatus \
               {"SUBMITTED", "QMB_REVIEW", "INQUIRY_OPEN", "INQUIRY_ANSWERED",
                "DOCUMENTATION_ONLY", "ASSESSED", "ROOT_CAUSE_REQUIRED"}
           => /\ file'[i].classification = file[i].classification
              /\ file'[i].capaRequired = file[i].capaRequired
              /\ file'[i].leadershipRequired = file[i].leadershipRequired
<1>1. MInv /\ [Next]_vars => [A]_vars
  <2> SUFFICES ASSUME MInv, [Next]_vars PROVE A
    OBVIOUS
  <2>1. Frozen
    BY NextMInv
  <2> QED
    BY <2>1 DEF Frozen, Fixed, Undecided, Early, IncidentStatus
<1> QED
  BY <1>1, IncidentsInvariance, PTL DEF Spec, AssessmentFixedOnceActedOn
=============================================================================
