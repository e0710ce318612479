------------------------- MODULE DocumentsWorkflow -------------------------
(***************************************************************************)
(* The workflow of one controlled document and its versions: the mutating  *)
(* operations the HTTP routes offer, each run under the service's mutation *)
(* lock and one database transaction, so each is one action.  An action    *)
(* takes the acting user u, the version v and the identifier e of the      *)
(* domain event it publishes; the version is stamped with e.               *)
(*                                                                         *)
(* Times are reduced to "set or not set", texts and custom fields are left *)
(* out.  A signed or released PDF is identified with the content it shows. *)
(***************************************************************************)
EXTENDS Integers, WorkflowProfiles

CONSTANTS
    Users,             \* user ids
    QMBs,              \* users acting as effective QMB
    Admins,            \* administrators
    Delegates,         \* users with the delegated create permission
    VersionNumbers,    \* version numbers a caller may use
    ControlClass,      \* control class of the document (fixed by its header)
    Profiles,          \* runtime profiles the profile store may return
    AssignmentChoices, \* the [editors, reviewers, approvers] a client may send
    Contents,          \* contents of uploaded files
    EventIds,          \* identifiers of domain events
    None               \* Python's None

VARIABLE versions      \* version number -> stored row, or Absent

Assignments == [editors : SUBSET Users, reviewers : SUBSET Users, approvers : SUBSET Users]

ASSUME UsersAssumption ==
    /\ QMBs \subseteq Users
    /\ Admins \subseteq Users
    /\ Delegates \subseteq Users
    /\ None \notin Users

ASSUME VersionAssumption == VersionNumbers \subseteq Nat \ {0}

ASSUME ProfileAssumption ==
    /\ ControlClass \in ControlClasses
    /\ None \notin Profiles
    /\ \A p \in Profiles : ValidDefinition(p) /\ p.controlClass = ControlClass

ASSUME DataAssumption ==
    /\ AssignmentChoices \subseteq Assignments
    /\ None \notin Contents
    /\ None \notin EventIds

NoAssignments == [editors |-> {}, reviewers |-> {}, approvers |-> {}]

\* A newly created row: PLANNED, nothing assigned, no event yet.
NewVersion(owner) ==
    [status              |-> "PLANNED",
     owner               |-> owner,
     workflowActive      |-> FALSE,
     profile             |-> None,
     assignments         |-> NoAssignments,
     reviewedBy          |-> {},
     editSignatureDone   |-> FALSE,
     reviewCompletedBy   |-> None,
     approvalCompletedBy |-> None,
     released            |-> FALSE,
     archivedBy          |-> None,
     supersededBy        |-> 0,
     extensionCount      |-> 0,
     lastEvent           |-> None,
     sourceDocx          |-> None,
     sourcePdf           |-> None,
     signedPdf           |-> None,
     releasedPdf         |-> None]

\* No row under this version number.
Absent == [NewVersion(None) EXCEPT !.status = "ABSENT"]

\* annual validity may be extended this often
MaxExtensions == 3

ExtensionCounts == 0..MaxExtensions

DocumentVersionState ==
    [status              : DocumentStatus \cup {"ABSENT"},
     owner               : Users \cup {None},
     workflowActive      : BOOLEAN,
     profile             : Profiles \cup {None},
     assignments         : Assignments,
     reviewedBy          : SUBSET Users,
     editSignatureDone   : BOOLEAN,
     reviewCompletedBy   : Users \cup {None},
     approvalCompletedBy : Users \cup {None},
     released            : BOOLEAN,
     archivedBy          : Users \cup {None},
     supersededBy        : VersionNumbers \cup {0},
     extensionCount      : ExtensionCounts,
     lastEvent           : EventIds \cup {None},
     sourceDocx          : Contents \cup {None},
     sourcePdf           : Contents \cup {None},
     signedPdf           : Contents \cup {None},
     releasedPdf         : Contents \cup {None}]

Exists(v) == versions[v].status # "ABSENT"

-----------------------------------------------------------------------------
(* Who may do what *)

\* The effective QMB flag outranks the administrator role.
Role(u) == IF u \in QMBs THEN "QMB" ELSE IF u \in Admins THEN "ADMIN" ELSE "USER"

IsQMB(u) == Role(u) = "QMB"

OwnerOrPrivileged(u, s) == IsQMB(u) \/ s.owner = u

EditorOrOwnerOrPrivileged(u, s) == OwnerOrPrivileged(u, s) \/ u \in s.assignments.editors

\* The last actor of a version also keeps read access; no mutation depends on
\* it, because every mutation below asks for the owner, a QMB or an assignee.
HasReadAccess(u, s) ==
    \/ IsQMB(u)
    \/ s.status = "APPROVED"
    \/ s.owner = u
    \/ /\ s.status # "ARCHIVED"
       /\ u \in s.assignments.editors \cup s.assignments.reviewers \cup s.assignments.approvers

\* Mutant: only the last reviewer is remembered.
LastReviewerBlocks(u, s) == s.profile # None /\ s.profile.fourEyes /\ u = s.reviewCompletedBy

FourEyesBlocks(u, s) == s.profile # None /\ s.profile.fourEyes /\ u \in s.reviewedBy

\* The one authorisation policy of the workflow.
EvaluateWorkflowAction(u, s, action) ==
    CASE action = "assign_roles" ->
            IsQMB(u) \/ (s.owner = u /\ ~s.editSignatureDone)
      [] action = "start" ->
            s.status = "PLANNED" /\ ~s.workflowActive /\ OwnerOrPrivileged(u, s)
      [] action = "complete_editing" ->
            s.status = "IN_PROGRESS" /\ EditorOrOwnerOrPrivileged(u, s)
      [] action \in {"review_accept", "review_reject"} ->
            s.status = "IN_REVIEW" /\ u \in s.assignments.reviewers
      [] action = "approval_accept" ->
            s.status = "IN_APPROVAL" /\ u \in s.assignments.approvers /\ ~FourEyesBlocks(u, s)
      [] action = "approval_reject" ->
            s.status = "IN_APPROVAL" /\ u \in s.assignments.approvers
      [] action = "abort" ->
            s.workflowActive /\ s.status \in WorkPhases /\ OwnerOrPrivileged(u, s)
      [] action \in {"archive", "extend_validity"} ->
            s.status = "APPROVED" /\ IsQMB(u)
      [] action = "new_version" ->
            s.status = "ARCHIVED" /\ IsQMB(u)
      [] action \in {"update_metadata", "change_requests"} ->
            OwnerOrPrivileged(u, s)

\* The boundary every mutation of an existing row passes under the lock.
MutateVersion(u, v, action) ==
    /\ Exists(v)
    /\ HasReadAccess(u, versions[v])
    /\ EvaluateWorkflowAction(u, versions[v], action)

MutateOwnVersion(u, v) ==
    /\ Exists(v)
    /\ HasReadAccess(u, versions[v])
    /\ OwnerOrPrivileged(u, versions[v])

AssertActiveProfile(s) == s.workflowActive /\ s.profile # None

\* Mutant: nothing is frozen any more once the version is released.
FrozenOnlyInWorkflow(u, s, new) ==
    \/ Role(u) = "USER" /\ s.owner = u /\ ~s.editSignatureDone
    \/ /\ Role(u) = "QMB"
       /\ s.status \in {"IN_REVIEW", "IN_APPROVAL"} => new.editors = s.assignments.editors
       /\ s.status = "IN_APPROVAL" => new.reviewers = s.assignments.reviewers

AssignmentUpdateAllowed(u, s, new) ==
    \/ Role(u) = "USER" /\ s.owner = u /\ ~s.editSignatureDone
    \/ /\ Role(u) = "QMB"
       /\ s.status \in {"IN_REVIEW", "IN_APPROVAL", "APPROVED", "ARCHIVED"}
             => new.editors = s.assignments.editors
       /\ s.status \in {"IN_APPROVAL", "APPROVED", "ARCHIVED"}
             => new.reviewers = s.assignments.reviewers
       /\ s.status \in {"APPROVED", "ARCHIVED"}
             => new.approvers = s.assignments.approvers

AssignmentsFitProfile(s, p) ==
    /\ p.requiresEditors   => s.assignments.editors # {}
    /\ p.requiresReviewers => s.assignments.reviewers # {}
    /\ p.requiresApprovers => s.assignments.approvers # {}
    /\ p.controlClass = "EXTERNAL" => s.assignments = NoAssignments

-----------------------------------------------------------------------------
(* Files of a version: the current artifact of each kind *)

FirstOf(a, b) == IF a # None THEN a ELSE b

\* The source PDF, converted from the DOCX only when there is none yet.
WithSourcePdf(s) == [s EXCEPT !.sourcePdf = FirstOf(s.sourcePdf, s.sourceDocx)]

SignatureRequired(s, transition) == transition \in s.profile.signatureRequired

\* Mutant: later signatures start again from the source PDF.
SignatureInputSourceFirst(s, transition) ==
    IF transition \in {"IN_REVIEW->IN_APPROVAL", "IN_APPROVAL->APPROVED"}
    THEN FirstOf(s.sourcePdf, s.signedPdf) ELSE FirstOf(s.signedPdf, s.sourcePdf)

\* The PDF that is signed: later signatures always continue the signed PDF.
SignatureInput(s, transition) ==
    CASE transition = "IN_PROGRESS->IN_REVIEW" -> FirstOf(s.signedPdf, s.sourcePdf)
      [] transition \in {"IN_REVIEW->IN_APPROVAL", "IN_APPROVAL->APPROVED"} -> s.signedPdf
      [] transition = "EXTEND_VALIDITY" ->
            FirstOf(s.signedPdf, FirstOf(s.sourcePdf, s.releasedPdf))

\* The route builds the signing request from the stored version, and refuses
\* when there is no PDF to sign.
Signable(s, transition) ==
    SignatureRequired(s, transition) => SignatureInput(s, transition) # None

\* Mutant: the signed file is not registered as SIGNED_PDF.
SignWithoutArtifact(s, transition) == s

Sign(s, transition) ==
    IF SignatureRequired(s, transition)
    THEN [s EXCEPT !.signedPdf = SignatureInput(s, transition)] ELSE s

ReleaseSource(s) == FirstOf(s.signedPdf, FirstOf(s.sourcePdf, s.releasedPdf))

WithReleasedPdf(s) == [s EXCEPT !.releasedPdf = ReleaseSource(s)]

-----------------------------------------------------------------------------
(* Storing *)

Stamp(s, e) == [s EXCEPT !.lastEvent = e]

\* Checks made before every write of a row.
StateInvariants(s) ==
    /\ s.extensionCount \in ExtensionCounts
    /\ s.status \notin {"APPROVED", "ARCHIVED"} => s.extensionCount = 0
    /\ s.released => s.approvalCompletedBy # None
    /\ s.archivedBy # None => s.status = "ARCHIVED"

\* The unique index over the APPROVED rows of a document.
UniqueApproved(rows) ==
    \A v, w \in VersionNumbers :
        rows[v].status = "APPROVED" /\ rows[w].status = "APPROVED" => v = w

\* One transaction: refused as a whole when a check or the index refuses.
Store(rows) ==
    /\ \A v \in VersionNumbers : rows[v] # versions[v] => StateInvariants(rows[v])
    /\ UniqueApproved(rows)
    /\ versions' = rows

StoreVersion(v, s) == Store([versions EXCEPT ![v] = s])

-----------------------------------------------------------------------------
(* Intake *)

\* The event-less creation; a QMB may create for another owner.
CreateDocumentVersion(u, v, owner) ==
    /\ IsQMB(u) \/ u \in Delegates
    /\ owner # u => IsQMB(u)
    /\ ~Exists(v)
    /\ StoreVersion(v, NewVersion(owner))

ImportExistingPdf(u, v, c, e) ==
    /\ MutateOwnVersion(u, v)
    /\ StoreVersion(v, Stamp([versions[v] EXCEPT !.sourcePdf = c], e))

ImportExistingDocx(u, v, c, e) ==
    /\ MutateOwnVersion(u, v)
    /\ StoreVersion(v, Stamp([versions[v] EXCEPT !.sourceDocx = c], e))

\* Creates the version first when it does not exist yet.
CreateFromTemplate(u, v, c, e) ==
    \/ /\ MutateOwnVersion(u, v)
       /\ StoreVersion(v, Stamp([versions[v] EXCEPT !.sourceDocx = c], e))
    \/ /\ ~Exists(v)
       /\ IsQMB(u) \/ u \in Delegates
       /\ ControlClass = "CONTROLLED"
       /\ StoreVersion(v, Stamp([NewVersion(u) EXCEPT !.sourceDocx = c], e))

\* Converts ahead of signing; publishes an event but does not stamp the row.
EnsureSourcePdf(u, v) ==
    /\ Exists(v)
    /\ HasReadAccess(u, versions[v])
    /\ EditorOrOwnerOrPrivileged(u, versions[v])
    /\ versions[v].sourcePdf = None
    /\ versions[v].sourceDocx # None
    /\ StoreVersion(v, WithSourcePdf(versions[v]))

-----------------------------------------------------------------------------
(* Workflow *)

\* Mutant: the event is published, the row is not stamped.
AssignUnstamped(u, v, new, e) ==
    /\ MutateVersion(u, v, "assign_roles")
    /\ AssignmentUpdateAllowed(u, versions[v], new)
    /\ StoreVersion(v, [versions[v] EXCEPT !.assignments = new])

AssignWorkflowRoles(u, v, new, e) ==
    /\ MutateVersion(u, v, "assign_roles")
    /\ AssignmentUpdateAllowed(u, versions[v], new)
    /\ StoreVersion(v, Stamp([versions[v] EXCEPT !.assignments = new], e))

\* p is what the profile store returns for the bound profile at this moment.
StartWorkflow(u, v, p, e) ==
    /\ MutateVersion(u, v, "start")
    /\ p.controlClass = ControlClass
    /\ AssignmentsFitProfile(versions[v], p)
    /\ StoreVersion(v, Stamp([versions[v] EXCEPT !.status = "IN_PROGRESS",
                                                 !.workflowActive = TRUE,
                                                 !.profile = p,
                                                 !.reviewedBy = {}], e))

\* Some profiles release directly after editing.
EditingCompleted(s, u) ==
    LET next   == s.profile.next["IN_PROGRESS"]
        edited == [s EXCEPT !.status = next,
                            !.editSignatureDone =
                                @ \/ SignatureRequired(s, "IN_PROGRESS->IN_REVIEW")]
    IN  IF next = "APPROVED"
        THEN WithReleasedPdf([edited EXCEPT !.approvalCompletedBy = u,
                                            !.released = TRUE,
                                            !.workflowActive = FALSE])
        ELSE edited

CompleteEditing(u, v, e) ==
    /\ MutateVersion(u, v, "complete_editing")
    /\ AssertActiveProfile(versions[v])
    /\ Signable(versions[v], "IN_PROGRESS->IN_REVIEW")
    /\ LET s == Sign(WithSourcePdf(versions[v]), "IN_PROGRESS->IN_REVIEW")
           t == EditingCompleted(s, u)
       IN  /\ t.status = "APPROVED" => t.releasedPdf # None
           /\ StoreVersion(v, Stamp(t, e))

AcceptReview(u, v, e) ==
    /\ MutateVersion(u, v, "review_accept")
    /\ AssertActiveProfile(versions[v])
    /\ Signable(versions[v], "IN_REVIEW->IN_APPROVAL")
    /\ LET s == Sign(versions[v], "IN_REVIEW->IN_APPROVAL")
       IN  StoreVersion(v, Stamp([s EXCEPT !.status = s.profile.next["IN_REVIEW"],
                                           !.reviewedBy = @ \cup {u},
                                           !.reviewCompletedBy = u], e))

RejectReview(u, v, e) ==
    /\ MutateVersion(u, v, "review_reject")
    /\ StoreVersion(v, Stamp([versions[v] EXCEPT !.status = "IN_PROGRESS"], e))

\* Mutant: every other version is linked to the released one.
SupersedeAllOthers(rows, v, u) ==
    [w \in VersionNumbers |->
        IF w # v /\ rows[w].status # "ABSENT"
        THEN [rows[w] EXCEPT !.status = IF @ = "APPROVED" THEN "ARCHIVED" ELSE @,
                             !.supersededBy = v]
        ELSE rows[w]]

\* The other APPROVED versions are archived without an event of their own.
SupersedeOtherApproved(rows, v, u) ==
    [w \in VersionNumbers |->
        IF w # v /\ rows[w].status = "APPROVED"
        THEN [rows[w] EXCEPT !.status = "ARCHIVED", !.workflowActive = FALSE,
                             !.archivedBy = u, !.supersededBy = v]
        ELSE rows[w]]

\* Mutant: the workflow is left running.
ApprovalKeepsRunning(s, u) ==
    WithReleasedPdf([s EXCEPT !.status = "APPROVED",
                              !.approvalCompletedBy = u,
                              !.released = TRUE])

ApprovalAccepted(s, u) ==
    WithReleasedPdf([s EXCEPT !.status = "APPROVED",
                              !.approvalCompletedBy = u,
                              !.released = TRUE,
                              !.workflowActive = FALSE])

AcceptApproval(u, v, e) ==
    /\ MutateVersion(u, v, "approval_accept")
    /\ AssertActiveProfile(versions[v])
    /\ Signable(versions[v], "IN_APPROVAL->APPROVED")
    /\ LET t == ApprovalAccepted(Sign(versions[v], "IN_APPROVAL->APPROVED"), u)
       IN  /\ t.releasedPdf # None
           /\ Store([SupersedeOtherApproved(versions, v, u) EXCEPT ![v] = Stamp(t, e)])

RejectApproval(u, v, e) ==
    /\ MutateVersion(u, v, "approval_reject")
    /\ StoreVersion(v, Stamp([versions[v] EXCEPT !.status = "IN_PROGRESS"], e))

AbortWorkflow(u, v, e) ==
    /\ MutateVersion(u, v, "abort")
    /\ StoreVersion(v, Stamp([versions[v] EXCEPT !.status = "PLANNED",
                                                 !.workflowActive = FALSE], e))

-----------------------------------------------------------------------------
(* After release *)

ArchiveApproved(u, v, e) ==
    /\ MutateVersion(u, v, "archive")
    /\ StoreVersion(v, Stamp([versions[v] EXCEPT !.status = "ARCHIVED",
                                                 !.workflowActive = FALSE,
                                                 !.archivedBy = u], e))

\* At the limit the code answers "new version required" and writes nothing.
ExtendAnnualValidity(u, v, e) ==
    /\ MutateVersion(u, v, "extend_validity")
    /\ versions[v].extensionCount < MaxExtensions
    /\ SignatureInput(versions[v], "EXTEND_VALIDITY") # None
    /\ StoreVersion(v, Stamp([versions[v] EXCEPT
                                 !.signedPdf = SignatureInput(versions[v], "EXTEND_VALIDITY"),
                                 !.extensionCount = @ + 1], e))

\* Mutant: the target number may be taken.
NewVersionOverExisting(u, v, next, e) ==
    /\ MutateVersion(u, v, "new_version")
    /\ versions[v].supersededBy = 0
    /\ next > v
    /\ Store([versions EXCEPT
                 ![v]    = Stamp([versions[v] EXCEPT !.supersededBy = next], e),
                 ![next] = Stamp(NewVersion(versions[v].owner), e)])

\* Source and successor are stamped with the same event.
CreateNewVersionAfterArchive(u, v, next, e) ==
    /\ MutateVersion(u, v, "new_version")
    /\ versions[v].supersededBy = 0
    /\ next > v
    /\ ~Exists(next)
    /\ Store([versions EXCEPT
                 ![v]    = Stamp([versions[v] EXCEPT !.supersededBy = next], e),
                 ![next] = Stamp(NewVersion(versions[v].owner), e)])

\* Title, custom fields and change requests are not kept; the stamp is.
UpdateVersionMetadata(u, v, e) ==
    /\ MutateVersion(u, v, "update_metadata")
    /\ StoreVersion(v, Stamp(versions[v], e))

AddChangeRequest(u, v, e) ==
    /\ MutateVersion(u, v, "change_requests")
    /\ StoreVersion(v, Stamp(versions[v], e))

-----------------------------------------------------------------------------
Init == versions = [v \in VersionNumbers |-> Absent]

\* One mutation of an existing version v by u, published as event e.
VersionMutation(u, v, e) ==
    \/ \E c \in Contents : ImportExistingPdf(u, v, c, e) \/ ImportExistingDocx(u, v, c, e)
    \/ \E new \in AssignmentChoices : AssignWorkflowRoles(u, v, new, e)
    \/ \E p \in Profiles : StartWorkflow(u, v, p, e)
    \/ CompleteEditing(u, v, e)
    \/ AcceptReview(u, v, e)
    \/ RejectReview(u, v, e)
    \/ AcceptApproval(u, v, e)
    \/ RejectApproval(u, v, e)
    \/ AbortWorkflow(u, v, e)
    \/ ArchiveApproved(u, v, e)
    \/ ExtendAnnualValidity(u, v, e)
    \/ \E next \in VersionNumbers : CreateNewVersionAfterArchive(u, v, next, e)
    \/ UpdateVersionMetadata(u, v, e)
    \/ AddChangeRequest(u, v, e)

Next ==
    \E u \in Users, v \in VersionNumbers :
        \/ \E owner \in Users : CreateDocumentVersion(u, v, owner)
        \/ EnsureSourcePdf(u, v)
        \/ \E e \in EventIds :
              \/ \E c \in Contents : CreateFromTemplate(u, v, c, e)
              \/ VersionMutation(u, v, e)

Spec == Init /\ [][Next]_versions

-----------------------------------------------------------------------------
(* What the document contract promises *)

Released(s) == s.status \in {"APPROVED", "ARCHIVED"}

(* The rows hold only values the contract allows, the extension count up to   *)
(* its limit included.                                                        *)
TypeOK == versions \in [VersionNumbers -> DocumentVersionState]

(* A released version under a four-eyes profile with a review phase was       *)
(* reviewed in the workflow run that released it, and the user who approved   *)
(* it reviewed it in none of its review rounds (invariant 8 of the contract). *)
FourEyes ==
    \A v \in VersionNumbers :
        LET s == versions[v]
        IN  (Released(s) /\ s.profile.fourEyes /\ "IN_REVIEW" \in DOMAIN s.profile.next)
               => /\ s.reviewCompletedBy \in s.reviewedBy
                  /\ s.approvalCompletedBy \notin s.reviewedBy

(* Release evidence is complete on every released version and on no other:    *)
(* who released it, the release time, a RELEASED_PDF, and no running workflow *)
(* (invariant 6 of the contract and "workflow_active false in terminal        *)
(* states").                                                                  *)
ReleaseEvidence ==
    \A v \in VersionNumbers :
        LET s == versions[v]
        IN  IF Released(s)
            THEN /\ s.approvalCompletedBy # None /\ s.released
                 /\ s.releasedPdf # None /\ ~s.workflowActive
            ELSE s.approvalCompletedBy = None /\ ~s.released /\ s.releasedPdf = None

(* The assignment stored with a released version still names the users who    *)
(* reviewed and approved it: role updates cannot rewrite that evidence.       *)
AssignmentEvidence ==
    \A v \in VersionNumbers :
        LET s == versions[v]
        IN  Released(s) => /\ s.approvalCompletedBy \in s.assignments.approvers
                           /\ s.reviewCompletedBy \in s.assignments.reviewers

(* Whenever a signature is due in a phase after editing, and the version has  *)
(* a PDF, there is a PDF the signature can be put on: the phase can be        *)
(* completed and the profile is executable.                                   *)
SignaturePossible ==
    \A v \in VersionNumbers :
        LET s == versions[v]
        IN  s.sourcePdf # None =>
               /\ s.status = "IN_REVIEW"   => Signable(s, "IN_REVIEW->IN_APPROVAL")
               /\ s.status = "IN_APPROVAL" => Signable(s, "IN_APPROVAL->APPROVED")

(* superseded_by_version is set only on archived versions, names a version    *)
(* that exists, and following it never leads back: a reader who follows the   *)
(* links from an archived version ends at a version that is not superseded.   *)
SupersessionSound ==
    /\ \A v \in VersionNumbers :
          versions[v].supersededBy # 0
             => versions[v].status = "ARCHIVED" /\ Exists(versions[v].supersededBy)
    /\ \A S \in (SUBSET VersionNumbers) \ {{}} :
          \E v \in S : versions[v].supersededBy \notin S

(* Release is final: no operation takes a version out of APPROVED except to   *)
(* ARCHIVED, out of ARCHIVED at all, or changes who released it, what was     *)
(* released or which version replaced it.                                     *)
ReleaseIsFinal ==
    [][\A v \in VersionNumbers :
          LET s == versions[v]
              t == versions'[v]
          IN  Released(s) => /\ t.status \in {s.status, "ARCHIVED"}
                             /\ t.approvalCompletedBy = s.approvalCompletedBy
                             /\ t.releasedPdf = s.releasedPdf
                             /\ s.supersededBy # 0 => t.supersededBy = s.supersededBy
      ]_versions

(* What is released is what was under review: from the end of editing to the  *)
(* release, the document that the reviewers and approvers sign stays the same *)
(* and becomes the RELEASED_PDF, although the owner may import another source *)
(* file in any phase.                                                         *)
ReviewedIsReleased ==
    [][\A v \in VersionNumbers :
          LET s == versions[v]
              t == versions'[v]
          IN  s.status \in {"IN_REVIEW", "IN_APPROVAL"}
                 => /\ t.signedPdf = s.signedPdf
                    /\ t.status = "APPROVED" => t.releasedPdf = s.signedPdf
      ]_versions

(* The PDF signed at the end of editing is the source PDF of the version      *)
(* ("SOURCE_DOCX is converted to SOURCE_PDF if needed, then signed"), also in *)
(* a second round with corrected files.                                       *)
CorrectionIsSigned ==
    [][\A v \in VersionNumbers :
          LET s == versions[v]
              t == versions'[v]
          IN  /\ s.status = "IN_PROGRESS"
              /\ t.status \in {"IN_REVIEW", "IN_APPROVAL", "APPROVED"}
              /\ SignatureRequired(s, "IN_PROGRESS->IN_REVIEW")
              => t.signedPdf = t.sourcePdf
      ]_versions

=============================================================================
