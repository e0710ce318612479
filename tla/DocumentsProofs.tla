-------------------------- MODULE DocumentsProofs --------------------------
(***************************************************************************)
(* Theorems about the document workflow and what is composed with it, for  *)
(* every set of users, versions, contents, events, profiles and clients    *)
(* the assumptions of the modules allow.                                   *)
(*                                                                         *)
(* The workflow comes first.  Its inductive invariant IInv is a            *)
(* conjunction over the stored rows (RowInv) together with the links       *)
(* between them (SupersessionSound).  Every operation but two writes one   *)
(* row; StoreOne reduces such an operation to facts about the row.         *)
(*                                                                         *)
(* Then the registry entry, whose writes survive a rollback of the         *)
(* operation that made them; the comments, whose numbers and decisions     *)
(* survive every synchronisation; and the clients, whose ETags fit only    *)
(* what they have loaded.                                                  *)
(***************************************************************************)
EXTENDS DocumentsWorkflow, DocumentsRegistry, DocumentComments, DocumentsOptimisticLock,
        SequenceTheorems, FiniteSetTheorems, WellFoundedInduction, TLAPS

\* The phase a version is in is a phase of the profile it was started with.
PhaseInv(s) ==
    /\ s.status \in WorkPhases => s.workflowActive /\ s.status \in DOMAIN s.profile.next
    /\ s.status \in WorkPhases \cup {"APPROVED", "ARCHIVED"} => s.profile \in Profiles

\* Nothing of the release evidence is there before the release.
EvidenceInv(s) ==
    ~Released(s) => s.approvalCompletedBy = None /\ ~s.released /\ s.releasedPdf = None

LinkInv(s) == s.supersededBy # 0 => s.status = "ARCHIVED"

\* Profiles in which a review, if there is one, comes directly after editing ...
ReviewFollowsEditing ==
    \A p \in Profiles : "IN_REVIEW" \in DOMAIN p.next => p.next["IN_PROGRESS"] = "IN_REVIEW"

\* ... and in which the review is followed by an approval.
ReviewThenApproval ==
    \A p \in Profiles : "IN_REVIEW" \in DOMAIN p.next => p.next["IN_REVIEW"] = "IN_APPROVAL"

FourEyesInv(s) ==
    ("IN_REVIEW" \in DOMAIN s.profile.next)
       => /\ s.status \in {"IN_APPROVAL", "APPROVED", "ARCHIVED"}
                => s.reviewCompletedBy \in s.reviewedBy
          /\ Released(s) /\ s.profile.fourEyes => s.approvalCompletedBy \notin s.reviewedBy

ReleaseInv(s) ==
    Released(s) => /\ s.approvalCompletedBy # None /\ s.released
                   /\ s.releasedPdf # None /\ ~s.workflowActive

RowInv(s) ==
    /\ PhaseInv(s)
    /\ EvidenceInv(s)
    /\ LinkInv(s)
    /\ ReviewFollowsEditing => FourEyesInv(s)
    /\ ReviewThenApproval => ReleaseInv(s)

IInv ==
    /\ TypeOK
    /\ \A v \in VersionNumbers : RowInv(versions[v])
    /\ SupersessionSound

-----------------------------------------------------------------------------
(* Rows *)

LEMMA NewVersionRow ==
    ASSUME NEW owner \in Users \cup {None}
    PROVE  NewVersion(owner) \in DocumentVersionState /\ RowInv(NewVersion(owner))
<1>1. NewVersion(owner) \in DocumentVersionState
  BY DEF NewVersion, DocumentVersionState, DocumentStatus, WorkPhases, Assignments,
         NoAssignments, ExtensionCounts, MaxExtensions
<1>2. RowInv(NewVersion(owner))
  BY DEF NewVersion, RowInv, PhaseInv, EvidenceInv, LinkInv, FourEyesInv, ReleaseInv, Released,
         WorkPhases
<1> QED BY <1>1, <1>2

LEMMA AbsentRow == Absent \in DocumentVersionState /\ RowInv(Absent) /\ Absent.supersededBy = 0
                   /\ Absent.status = "ABSENT"
<1>1. NewVersion(None) \in DocumentVersionState
  BY NewVersionRow
<1>2. Absent \in DocumentVersionState
  BY <1>1 DEF Absent, DocumentVersionState
<1>3. RowInv(Absent) /\ Absent.supersededBy = 0 /\ Absent.status = "ABSENT"
  BY DEF Absent, NewVersion, RowInv, PhaseInv, EvidenceInv, LinkInv, FourEyesInv, ReleaseInv,
         Released, WorkPhases
<1> QED BY <1>2, <1>3

-----------------------------------------------------------------------------
(* Files of a row *)

LEMMA SignatureInputType ==
    ASSUME NEW s \in DocumentVersionState,
           NEW transition \in SignatureTransitions \cup {"EXTEND_VALIDITY"}
    PROVE  SignatureInput(s, transition) \in Contents \cup {None}
BY DEF SignatureInput, FirstOf, DocumentVersionState, SignatureTransitions

(* Signing changes nothing but the signed PDF.                                *)
LEMMA SignRow ==
    ASSUME NEW s \in DocumentVersionState, NEW transition \in SignatureTransitions
    PROVE  /\ Sign(s, transition) \in DocumentVersionState
           /\ Sign(s, transition) = [s EXCEPT !.signedPdf = Sign(s, transition).signedPdf]
<1>1. SignatureInput(s, transition) \in Contents \cup {None}
  BY SignatureInputType
<1>2. CASE SignatureRequired(s, transition)
  <2>1. Sign(s, transition) = [s EXCEPT !.signedPdf = SignatureInput(s, transition)]
    BY <1>2 DEF Sign
  <2> QED BY <1>1, <2>1 DEF DocumentVersionState
<1>3. CASE ~SignatureRequired(s, transition)
  <2>1. Sign(s, transition) = s
    BY <1>3 DEF Sign
  <2> QED BY <2>1 DEF DocumentVersionState
<1> QED BY <1>2, <1>3

LEMMA SourcePdfRow ==
    ASSUME NEW s \in DocumentVersionState
    PROVE  /\ WithSourcePdf(s) \in DocumentVersionState
           /\ WithSourcePdf(s) = [s EXCEPT !.sourcePdf = WithSourcePdf(s).sourcePdf]
BY DEF WithSourcePdf, FirstOf, DocumentVersionState

\* A row stays a row when one field is replaced by a value of the field's type.
LEMMA RowFields ==
    ASSUME NEW s \in DocumentVersionState
    PROVE  /\ \A x \in DocumentStatus : [s EXCEPT !.status = x] \in DocumentVersionState
           /\ \A x \in BOOLEAN : [s EXCEPT !.workflowActive = x] \in DocumentVersionState
           /\ \A x \in Profiles : [s EXCEPT !.profile = x] \in DocumentVersionState
           /\ \A x \in Assignments : [s EXCEPT !.assignments = x] \in DocumentVersionState
           /\ \A x \in SUBSET Users : [s EXCEPT !.reviewedBy = x] \in DocumentVersionState
           /\ \A x \in BOOLEAN : [s EXCEPT !.editSignatureDone = x] \in DocumentVersionState
           /\ \A x \in Users : [s EXCEPT !.reviewCompletedBy = x] \in DocumentVersionState
           /\ \A x \in Users : [s EXCEPT !.approvalCompletedBy = x] \in DocumentVersionState
           /\ \A x \in BOOLEAN : [s EXCEPT !.released = x] \in DocumentVersionState
           /\ \A x \in Users : [s EXCEPT !.archivedBy = x] \in DocumentVersionState
           /\ \A x \in VersionNumbers : [s EXCEPT !.supersededBy = x] \in DocumentVersionState
           /\ \A x \in ExtensionCounts : [s EXCEPT !.extensionCount = x] \in DocumentVersionState
           /\ \A x \in EventIds : [s EXCEPT !.lastEvent = x] \in DocumentVersionState
           /\ \A x \in Contents \cup {None} : [s EXCEPT !.sourceDocx = x] \in DocumentVersionState
           /\ \A x \in Contents \cup {None} : [s EXCEPT !.sourcePdf = x] \in DocumentVersionState
           /\ \A x \in Contents \cup {None} : [s EXCEPT !.signedPdf = x] \in DocumentVersionState
           /\ \A x \in Contents \cup {None} : [s EXCEPT !.releasedPdf = x] \in DocumentVersionState
<1>1. \A x \in DocumentStatus : [s EXCEPT !.status = x] \in DocumentVersionState
  BY DEF DocumentVersionState
<1>2. \A x \in BOOLEAN : [s EXCEPT !.workflowActive = x] \in DocumentVersionState
  BY DEF DocumentVersionState
<1>3. \A x \in Profiles : [s EXCEPT !.profile = x] \in DocumentVersionState
  BY DEF DocumentVersionState
<1>4. \A x \in Assignments : [s EXCEPT !.assignments = x] \in DocumentVersionState
  BY DEF DocumentVersionState
<1>5. \A x \in SUBSET Users : [s EXCEPT !.reviewedBy = x] \in DocumentVersionState
  BY DEF DocumentVersionState
<1>6. \A x \in BOOLEAN : [s EXCEPT !.editSignatureDone = x] \in DocumentVersionState
  BY DEF DocumentVersionState
<1>7. \A x \in Users : [s EXCEPT !.reviewCompletedBy = x] \in DocumentVersionState
  BY DEF DocumentVersionState
<1>8. \A x \in Users : [s EXCEPT !.approvalCompletedBy = x] \in DocumentVersionState
  BY DEF DocumentVersionState
<1>9. \A x \in BOOLEAN : [s EXCEPT !.released = x] \in DocumentVersionState
  BY DEF DocumentVersionState
<1>10. \A x \in Users : [s EXCEPT !.archivedBy = x] \in DocumentVersionState
  BY DEF DocumentVersionState
<1>11. \A x \in VersionNumbers : [s EXCEPT !.supersededBy = x] \in DocumentVersionState
  BY DEF DocumentVersionState
<1>12. \A x \in ExtensionCounts : [s EXCEPT !.extensionCount = x] \in DocumentVersionState
  BY DEF DocumentVersionState
<1>13. \A x \in EventIds : [s EXCEPT !.lastEvent = x] \in DocumentVersionState
  BY DEF DocumentVersionState
<1>14. \A x \in Contents \cup {None} : [s EXCEPT !.sourceDocx = x] \in DocumentVersionState
  BY DEF DocumentVersionState
<1>15. \A x \in Contents \cup {None} : [s EXCEPT !.sourcePdf = x] \in DocumentVersionState
  BY DEF DocumentVersionState
<1>16. \A x \in Contents \cup {None} : [s EXCEPT !.signedPdf = x] \in DocumentVersionState
  BY DEF DocumentVersionState
<1>17. \A x \in Contents \cup {None} : [s EXCEPT !.releasedPdf = x] \in DocumentVersionState
  BY DEF DocumentVersionState
<1> QED BY <1>1, <1>2, <1>3, <1>4, <1>5, <1>6, <1>7, <1>8, <1>9,
          <1>10, <1>11, <1>12, <1>13, <1>14, <1>15, <1>16, <1>17

LEMMA StampRow ==
    ASSUME NEW s \in DocumentVersionState, NEW e \in EventIds
    PROVE  /\ Stamp(s, e) \in DocumentVersionState
           /\ Stamp(s, e).status = s.status /\ Stamp(s, e).supersededBy = s.supersededBy
           /\ RowInv(s) => RowInv(Stamp(s, e))
<1>1. Stamp(s, e) \in DocumentVersionState
  BY RowFields DEF Stamp
<1>2. /\ Stamp(s, e).status = s.status /\ Stamp(s, e).supersededBy = s.supersededBy
      /\ RowInv(s) => RowInv(Stamp(s, e))
  BY DEF Stamp, DocumentVersionState, RowInv, PhaseInv, EvidenceInv, LinkInv, FourEyesInv,
     ReleaseInv, Released
<1> QED BY <1>1, <1>2

LEMMA ReleasedPdfRow ==
    ASSUME NEW s \in DocumentVersionState
    PROVE  /\ WithReleasedPdf(s) \in DocumentVersionState
           /\ WithReleasedPdf(s) = [s EXCEPT !.releasedPdf = WithReleasedPdf(s).releasedPdf]
BY DEF WithReleasedPdf, ReleaseSource, FirstOf, DocumentVersionState

-----------------------------------------------------------------------------
(* Links between versions *)

(* A step that adds links to one version only, and that version is not        *)
(* superseded itself afterwards, closes no circle.                            *)
LEMMA LinksToOneVersion ==
    ASSUME TypeOK, TypeOK', SupersessionSound,
           NEW target \in VersionNumbers,
           versions'[target].supersededBy = 0,
           versions'[target].status # "ABSENT",
           \A w \in VersionNumbers :
              /\ versions'[w].supersededBy \in {versions[w].supersededBy, target}
              /\ Exists(w) => versions'[w].status # "ABSENT"
              /\ LinkInv(versions'[w])
    PROVE  SupersessionSound'
<1>1. ASSUME NEW v \in VersionNumbers, versions'[v].supersededBy # 0
      PROVE  /\ versions'[v].status = "ARCHIVED"
             /\ versions'[versions'[v].supersededBy].status # "ABSENT"
  <2>1. versions'[v].status = "ARCHIVED"
    BY <1>1 DEF LinkInv
  <2>2. CASE versions'[v].supersededBy = target
    BY <2>1, <2>2
  <2>3. CASE versions'[v].supersededBy = versions[v].supersededBy
    <3>1. Exists(versions[v].supersededBy)
      BY <1>1, <2>3 DEF SupersessionSound
    <3>2. versions[v].supersededBy \in VersionNumbers
      BY <1>1, <2>3 DEF TypeOK, DocumentVersionState
    <3> QED BY <2>1, <2>3, <3>1, <3>2
  <2> QED BY <2>2, <2>3
<1>2. ASSUME NEW S \in (SUBSET VersionNumbers) \ {{}}
      PROVE  \E v \in S : versions'[v].supersededBy \notin S
  <2>1. CASE target \in S
    BY <2>1, VersionAssumption
  <2>2. CASE target \notin S
    <3>1. PICK v \in S : versions[v].supersededBy \notin S
      BY DEF SupersessionSound
    <3> QED BY <2>2, <3>1
  <2> QED BY <2>1, <2>2
<1> QED BY <1>1, <1>2 DEF SupersessionSound, Exists

LEMMA LinksUnchanged ==
    ASSUME TypeOK, TypeOK', SupersessionSound,
           \A w \in VersionNumbers : /\ versions'[w].supersededBy = versions[w].supersededBy
                                     /\ Exists(w) => versions'[w].status # "ABSENT"
                                     /\ LinkInv(versions'[w])
    PROVE  SupersessionSound'
<1>1. ASSUME NEW v \in VersionNumbers, versions'[v].supersededBy # 0
      PROVE  /\ versions'[v].status = "ARCHIVED"
             /\ versions'[versions'[v].supersededBy].status # "ABSENT"
  <2>1. Exists(versions[v].supersededBy) /\ versions[v].supersededBy \in VersionNumbers
    BY <1>1 DEF SupersessionSound, TypeOK, DocumentVersionState
  <2> QED BY <1>1, <2>1 DEF LinkInv
<1>2. ASSUME NEW S \in (SUBSET VersionNumbers) \ {{}}
      PROVE  \E v \in S : versions'[v].supersededBy \notin S
  <2>1. PICK v \in S : versions[v].supersededBy \notin S
    BY DEF SupersessionSound
  <2> QED BY <2>1
<1> QED BY <1>1, <1>2 DEF SupersessionSound, Exists

-----------------------------------------------------------------------------
(* Storing *)

LEMMA StoreOne ==
    ASSUME IInv, NEW v \in VersionNumbers, NEW t,
           StoreVersion(v, t), t \in DocumentVersionState, RowInv(t),
           t.status # "ABSENT", t.supersededBy = versions[v].supersededBy
    PROVE  IInv'
<1>1. versions' = [versions EXCEPT ![v] = t]
  BY DEF StoreVersion, Store
<1>2. TypeOK'
  BY <1>1 DEF IInv, TypeOK
<1>3. \A w \in VersionNumbers : RowInv(versions'[w])
  BY <1>1 DEF IInv, TypeOK
<1>4. \A w \in VersionNumbers : /\ versions'[w].supersededBy = versions[w].supersededBy
                                /\ Exists(w) => versions'[w].status # "ABSENT"
                                /\ LinkInv(versions'[w])
  <2>1. \A w \in VersionNumbers : LinkInv(versions'[w])
    BY <1>3 DEF RowInv
  <2> QED BY <1>1, <2>1 DEF IInv, TypeOK, Exists
<1>5. SupersessionSound'
  BY <1>2, <1>4, LinksUnchanged DEF IInv
<1> QED BY <1>2, <1>3, <1>5 DEF IInv

-----------------------------------------------------------------------------
(* Operations that write one row *)

\* Storing a row with the link it had leaves the link as it was.
LEMMA StoreOneKeepsLink ==
    ASSUME IInv, NEW v \in VersionNumbers, NEW t, StoreVersion(v, t),
           t.supersededBy = versions[v].supersededBy
    PROVE  versions'[v].supersededBy = versions[v].supersededBy
BY DEF IInv, TypeOK, StoreVersion, Store

LEMMA StoredRow ==
    ASSUME IInv, NEW v \in VersionNumbers
    PROVE  versions[v] \in DocumentVersionState /\ RowInv(versions[v])
BY DEF IInv, TypeOK

LEMMA CreateKeeps ==
    ASSUME IInv, NEW u \in Users, NEW v \in VersionNumbers, NEW owner \in Users,
           CreateDocumentVersion(u, v, owner)
    PROVE  IInv'
<1>1. NewVersion(owner) \in DocumentVersionState /\ RowInv(NewVersion(owner))
  BY NewVersionRow
<1>2. versions[v].supersededBy = 0
  BY StoredRow DEF CreateDocumentVersion, Exists, RowInv, LinkInv
<1>3. NewVersion(owner).supersededBy = 0 /\ NewVersion(owner).status = "PLANNED"
  BY DEF NewVersion
<1> QED BY <1>1, <1>2, <1>3, StoreOne DEF CreateDocumentVersion

\* Two rows that agree in every field the invariant speaks of.
SameStanding(s, t) ==
    /\ t.status = s.status /\ t.workflowActive = s.workflowActive
    /\ t.profile = s.profile /\ t.reviewedBy = s.reviewedBy
    /\ t.reviewCompletedBy = s.reviewCompletedBy
    /\ t.approvalCompletedBy = s.approvalCompletedBy
    /\ t.released = s.released /\ t.releasedPdf = s.releasedPdf
    /\ t.supersededBy = s.supersededBy

\* An operation that changes nothing the invariant speaks of but a source file,
\* the assignments or the stamp.
LEMMA SideFieldsKeep ==
    ASSUME IInv, NEW v \in VersionNumbers, Exists(v), NEW t \in DocumentVersionState,
           SameStanding(versions[v], t), StoreVersion(v, t)
    PROVE  IInv'
<1>1. RowInv(t)
  BY StoredRow DEF SameStanding, RowInv, PhaseInv, EvidenceInv, LinkInv, FourEyesInv, ReleaseInv,
     Released
<1> QED BY <1>1, StoreOne DEF Exists, SameStanding

LEMMA ImportPdfKeeps ==
    ASSUME IInv, NEW u \in Users, NEW v \in VersionNumbers,
           NEW c \in Contents, NEW e \in EventIds,
           ImportExistingPdf(u, v, c, e)
    PROVE  IInv'
<1> DEFINE n == [versions[v] EXCEPT !.sourcePdf = c]
           t == Stamp(n, e)
<1>1. versions[v] \in DocumentVersionState
  BY StoredRow
<1>2. t \in DocumentVersionState
  <2>1. n \in DocumentVersionState
    BY <1>1, RowFields
  <2> HIDE DEF n
  <2> QED BY <2>1, StampRow
<1>3. Exists(v) /\ StoreVersion(v, t)
  BY DEF ImportExistingPdf, MutateOwnVersion
<1>4. SameStanding(versions[v], t)
  BY <1>1 DEF SameStanding, DocumentVersionState, Stamp
<1> HIDE DEF t
<1> QED BY <1>2, <1>3, <1>4, SideFieldsKeep

LEMMA ImportDocxKeeps ==
    ASSUME IInv, NEW u \in Users, NEW v \in VersionNumbers,
           NEW c \in Contents, NEW e \in EventIds,
           ImportExistingDocx(u, v, c, e)
    PROVE  IInv'
<1> DEFINE n == [versions[v] EXCEPT !.sourceDocx = c]
           t == Stamp(n, e)
<1>1. versions[v] \in DocumentVersionState
  BY StoredRow
<1>2. t \in DocumentVersionState
  <2>1. n \in DocumentVersionState
    BY <1>1, RowFields
  <2> HIDE DEF n
  <2> QED BY <2>1, StampRow
<1>3. Exists(v) /\ StoreVersion(v, t)
  BY DEF ImportExistingDocx, MutateOwnVersion
<1>4. SameStanding(versions[v], t)
  BY <1>1 DEF SameStanding, DocumentVersionState, Stamp
<1> HIDE DEF t
<1> QED BY <1>2, <1>3, <1>4, SideFieldsKeep

LEMMA AssignKeeps ==
    ASSUME IInv, NEW u \in Users, NEW v \in VersionNumbers, NEW new \in AssignmentChoices,
           NEW e \in EventIds,
           AssignWorkflowRoles(u, v, new, e)
    PROVE  IInv'
<1> DEFINE n == [versions[v] EXCEPT !.assignments = new]
           t == Stamp(n, e)
<1>1. versions[v] \in DocumentVersionState
  BY StoredRow
<1>2. t \in DocumentVersionState
  <2>1. new \in Assignments
    BY DataAssumption
  <2>2. n \in DocumentVersionState
    BY <1>1, <2>1, RowFields
  <2> HIDE DEF n
  <2> QED BY <2>2, StampRow
<1>3. Exists(v) /\ StoreVersion(v, t)
  BY DEF AssignWorkflowRoles, MutateVersion
<1>4. SameStanding(versions[v], t)
  BY <1>1 DEF SameStanding, DocumentVersionState, Stamp
<1> HIDE DEF t
<1> QED BY <1>2, <1>3, <1>4, SideFieldsKeep

LEMMA EnsureKeeps ==
    ASSUME IInv, NEW u \in Users, NEW v \in VersionNumbers,
           EnsureSourcePdf(u, v)
    PROVE  IInv'
<1> DEFINE t == WithSourcePdf(versions[v])
<1>1. versions[v] \in DocumentVersionState
  BY StoredRow
<1>2. t \in DocumentVersionState
  BY <1>1 DEF DocumentVersionState, WithSourcePdf, FirstOf
<1>3. Exists(v) /\ StoreVersion(v, t)
  BY DEF EnsureSourcePdf, Exists
<1>4. SameStanding(versions[v], t)
  BY <1>1 DEF SameStanding, DocumentVersionState, WithSourcePdf
<1> HIDE DEF t
<1> QED BY <1>2, <1>3, <1>4, SideFieldsKeep

LEMMA MetadataKeeps ==
    ASSUME IInv, NEW u \in Users, NEW v \in VersionNumbers, NEW e \in EventIds,
           UpdateVersionMetadata(u, v, e)
    PROVE  IInv'
<1> DEFINE t == Stamp(versions[v], e)
<1>1. versions[v] \in DocumentVersionState
  BY StoredRow
<1>2. t \in DocumentVersionState
  BY <1>1, StampRow
<1>3. Exists(v) /\ StoreVersion(v, t)
  BY DEF UpdateVersionMetadata, MutateVersion
<1>4. SameStanding(versions[v], t)
  BY <1>1 DEF SameStanding, DocumentVersionState, Stamp
<1> HIDE DEF t
<1> QED BY <1>2, <1>3, <1>4, SideFieldsKeep

LEMMA ChangeRequestKeeps ==
    ASSUME IInv, NEW u \in Users, NEW v \in VersionNumbers, NEW e \in EventIds,
           AddChangeRequest(u, v, e)
    PROVE  IInv'
<1> DEFINE t == Stamp(versions[v], e)
<1>1. versions[v] \in DocumentVersionState
  BY StoredRow
<1>2. t \in DocumentVersionState
  BY <1>1, StampRow
<1>3. Exists(v) /\ StoreVersion(v, t)
  BY DEF AddChangeRequest, MutateVersion
<1>4. SameStanding(versions[v], t)
  BY <1>1 DEF SameStanding, DocumentVersionState, Stamp
<1> HIDE DEF t
<1> QED BY <1>2, <1>3, <1>4, SideFieldsKeep

LEMMA StartKeeps ==
    ASSUME IInv, NEW u \in Users, NEW v \in VersionNumbers, NEW p \in Profiles, NEW e \in EventIds,
           StartWorkflow(u, v, p, e)
    PROVE  IInv'
<1> DEFINE s == versions[v]
           t == Stamp([s EXCEPT !.status = "IN_PROGRESS", !.workflowActive = TRUE,
                              !.profile = p, !.reviewedBy = {}], e)
<1>1. s \in DocumentVersionState /\ RowInv(s)
  BY StoredRow
<1>2. s.status = "PLANNED" /\ StoreVersion(v, t)
  BY DEF StartWorkflow, MutateVersion, EvaluateWorkflowAction
<1>3. t \in DocumentVersionState
  BY <1>1, RowFields DEF DocumentStatus, WorkPhases, Stamp
<1>4. RowInv(t)
  BY <1>1, <1>2, ProfileAssumption DEF DocumentVersionState, Stamp, WorkPhases, ValidDefinition,
     IsChain, RowInv, PhaseInv, EvidenceInv, LinkInv, FourEyesInv, ReleaseInv, Released
<1>5. t.status # "ABSENT" /\ t.supersededBy = s.supersededBy
  BY <1>1, <1>2 DEF DocumentVersionState, Stamp
<1> QED BY <1>2, <1>3, <1>4, <1>5, StoreOne

LEMMA RejectReviewKeeps ==
    ASSUME IInv, NEW u \in Users, NEW v \in VersionNumbers, NEW e \in EventIds,
           RejectReview(u, v, e)
    PROVE  IInv'
<1> DEFINE s == versions[v]
           t == Stamp([s EXCEPT !.status = "IN_PROGRESS"], e)
<1>1. s \in DocumentVersionState /\ RowInv(s)
  BY StoredRow
<1>2. s.status = "IN_REVIEW" /\ StoreVersion(v, t)
  BY DEF RejectReview, MutateVersion, EvaluateWorkflowAction
<1>3. t \in DocumentVersionState
  BY <1>1, RowFields DEF DocumentStatus, WorkPhases, Stamp
<1>4. RowInv(t)
  BY <1>1, <1>2, ProfileAssumption DEF DocumentVersionState, Stamp, WorkPhases, ValidDefinition,
     IsChain, RowInv, PhaseInv, EvidenceInv, LinkInv, FourEyesInv, ReleaseInv, Released
<1>5. t.status # "ABSENT" /\ t.supersededBy = s.supersededBy
  BY <1>1, <1>2 DEF DocumentVersionState, Stamp
<1> QED BY <1>2, <1>3, <1>4, <1>5, StoreOne

LEMMA RejectApprovalKeeps ==
    ASSUME IInv, NEW u \in Users, NEW v \in VersionNumbers, NEW e \in EventIds,
           RejectApproval(u, v, e)
    PROVE  IInv'
<1> DEFINE s == versions[v]
           t == Stamp([s EXCEPT !.status = "IN_PROGRESS"], e)
<1>1. s \in DocumentVersionState /\ RowInv(s)
  BY StoredRow
<1>2. s.status = "IN_APPROVAL" /\ StoreVersion(v, t)
  BY DEF RejectApproval, MutateVersion, EvaluateWorkflowAction
<1>3. t \in DocumentVersionState
  BY <1>1, RowFields DEF DocumentStatus, WorkPhases, Stamp
<1>4. RowInv(t)
  BY <1>1, <1>2, ProfileAssumption DEF DocumentVersionState, Stamp, WorkPhases, ValidDefinition,
     IsChain, RowInv, PhaseInv, EvidenceInv, LinkInv, FourEyesInv, ReleaseInv, Released
<1>5. t.status # "ABSENT" /\ t.supersededBy = s.supersededBy
  BY <1>1, <1>2 DEF DocumentVersionState, Stamp
<1> QED BY <1>2, <1>3, <1>4, <1>5, StoreOne

LEMMA AbortKeeps ==
    ASSUME IInv, NEW u \in Users, NEW v \in VersionNumbers, NEW e \in EventIds,
           AbortWorkflow(u, v, e)
    PROVE  IInv'
<1> DEFINE s == versions[v]
           t == Stamp([s EXCEPT !.status = "PLANNED", !.workflowActive = FALSE], e)
<1>1. s \in DocumentVersionState /\ RowInv(s)
  BY StoredRow
<1>2. s.status \in WorkPhases /\ StoreVersion(v, t)
  BY DEF AbortWorkflow, MutateVersion, EvaluateWorkflowAction
<1>3. t \in DocumentVersionState
  BY <1>1, RowFields DEF DocumentStatus, WorkPhases, Stamp
<1>4. RowInv(t)
  BY <1>1, <1>2 DEF DocumentVersionState, Stamp, WorkPhases, ValidDefinition,
     IsChain, RowInv, PhaseInv, EvidenceInv, LinkInv, FourEyesInv, ReleaseInv, Released
<1>5. t.status # "ABSENT" /\ t.supersededBy = s.supersededBy
  BY <1>1, <1>2 DEF DocumentVersionState, Stamp
<1> QED BY <1>2, <1>3, <1>4, <1>5, StoreOne

LEMMA ArchiveKeeps ==
    ASSUME IInv, NEW u \in Users, NEW v \in VersionNumbers, NEW e \in EventIds,
           ArchiveApproved(u, v, e)
    PROVE  IInv'
<1> DEFINE s == versions[v]
           t == Stamp([s EXCEPT !.status = "ARCHIVED", !.workflowActive = FALSE,
                              !.archivedBy = u], e)
<1>1. s \in DocumentVersionState /\ RowInv(s)
  BY StoredRow
<1>2. s.status = "APPROVED" /\ StoreVersion(v, t)
  BY DEF ArchiveApproved, MutateVersion, EvaluateWorkflowAction
<1>3. t \in DocumentVersionState
  BY <1>1, RowFields DEF DocumentStatus, WorkPhases, Stamp
<1>4. RowInv(t)
  BY <1>1, <1>2 DEF DocumentVersionState, Stamp, WorkPhases, ValidDefinition,
     IsChain, RowInv, PhaseInv, EvidenceInv, LinkInv, FourEyesInv, ReleaseInv, Released
<1>5. t.status # "ABSENT" /\ t.supersededBy = s.supersededBy
  BY <1>1, <1>2 DEF DocumentVersionState, Stamp
<1> QED BY <1>2, <1>3, <1>4, <1>5, StoreOne

LEMMA ExtendKeeps ==
    ASSUME IInv, NEW u \in Users, NEW v \in VersionNumbers, NEW e \in EventIds,
           ExtendAnnualValidity(u, v, e)
    PROVE  IInv'
<1> DEFINE s == versions[v]
           t == Stamp([s EXCEPT !.signedPdf = SignatureInput(s, "EXTEND_VALIDITY"),
                              !.extensionCount = @ + 1], e)
<1>1. s \in DocumentVersionState /\ RowInv(s)
  BY StoredRow
<1>2. s.status = "APPROVED" /\ s.extensionCount < MaxExtensions /\ StoreVersion(v, t)
  BY DEF ExtendAnnualValidity, MutateVersion, EvaluateWorkflowAction
<1>3. SignatureInput(s, "EXTEND_VALIDITY") \in Contents \cup {None}
  BY <1>1, SignatureInputType
<1>4. s.extensionCount + 1 \in ExtensionCounts
  BY <1>1, <1>2 DEF DocumentVersionState, ExtensionCounts, MaxExtensions
<1>5. t \in DocumentVersionState
  BY <1>1, <1>3, <1>4, RowFields DEF Stamp
<1>6. RowInv(t)
  BY <1>1, <1>2 DEF DocumentVersionState, Stamp, WorkPhases, ValidDefinition,
     IsChain, RowInv, PhaseInv, EvidenceInv, LinkInv, FourEyesInv, ReleaseInv, Released
<1>7. t.status # "ABSENT" /\ t.supersededBy = s.supersededBy
  BY <1>1, <1>2 DEF DocumentVersionState, Stamp
<1> QED BY <1>2, <1>5, <1>6, <1>7, StoreOne


LEMMA AcceptReviewKeeps ==
    ASSUME IInv, NEW u \in Users, NEW v \in VersionNumbers, NEW e \in EventIds,
           AcceptReview(u, v, e)
    PROVE  IInv' /\ versions'[v].supersededBy = versions[v].supersededBy
<1> DEFINE r == versions[v]
           s == Sign(r, "IN_REVIEW->IN_APPROVAL")
           t == Stamp([s EXCEPT !.status = s.profile.next["IN_REVIEW"],
                                !.reviewedBy = @ \cup {u}, !.reviewCompletedBy = u], e)
<1>1. r \in DocumentVersionState /\ RowInv(r)
  BY StoredRow
<1>2. r.status = "IN_REVIEW" /\ StoreVersion(v, t)
  BY DEF AcceptReview, MutateVersion, EvaluateWorkflowAction
<1>3. s \in DocumentVersionState /\ s = [r EXCEPT !.signedPdf = s.signedPdf]
  BY <1>1, SignRow DEF SignatureTransitions
<1> HIDE DEF s
<1>4. s.status = "IN_REVIEW" /\ RowInv(s) /\ s.supersededBy = r.supersededBy
  BY <1>1, <1>2, <1>3 DEF DocumentVersionState, RowInv, PhaseInv, EvidenceInv, LinkInv, FourEyesInv,
     ReleaseInv, Released
<1>5. /\ s.profile \in Profiles /\ s.workflowActive
      /\ s.profile.next["IN_REVIEW"] \in {"IN_APPROVAL", "APPROVED"}
      /\ s.profile.next["IN_REVIEW"] \in DOMAIN s.profile.next \cup {"APPROVED"}
  BY <1>4, ProfileAssumption DEF RowInv, PhaseInv, WorkPhases, ValidDefinition, IsChain
<1>6. s.reviewedBy \cup {u} \in SUBSET Users
  BY <1>3 DEF DocumentVersionState
<1>7. t \in DocumentVersionState
  BY <1>3, <1>5, <1>6, RowFields DEF DocumentStatus, WorkPhases, Stamp
<1>8. RowInv(t)
  BY <1>3, <1>4, <1>5, UsersAssumption DEF DocumentVersionState, Stamp, WorkPhases,
     RowInv, PhaseInv, EvidenceInv, LinkInv, FourEyesInv, ReleaseInv, Released, ReviewThenApproval
<1>9. t.status # "ABSENT" /\ t.supersededBy = r.supersededBy
  BY <1>3, <1>4, <1>5 DEF DocumentVersionState, Stamp
<1> QED BY <1>2, <1>7, <1>8, <1>9, StoreOne, StoreOneKeepsLink

LEMMA CompleteEditingKeeps ==
    ASSUME IInv, NEW u \in Users, NEW v \in VersionNumbers, NEW e \in EventIds,
           CompleteEditing(u, v, e)
    PROVE  IInv' /\ versions'[v].supersededBy = versions[v].supersededBy
<1> DEFINE r == versions[v]
           f == WithSourcePdf(r)
           s == Sign(f, "IN_PROGRESS->IN_REVIEW")
           t == EditingCompleted(s, u)
<1>1. r \in DocumentVersionState /\ RowInv(r)
  BY StoredRow
<1>2. /\ r.status = "IN_PROGRESS" /\ StoreVersion(v, Stamp(t, e))
      /\ t.status = "APPROVED" => t.releasedPdf # None
  BY DEF CompleteEditing, MutateVersion, EvaluateWorkflowAction
<1>3. f \in DocumentVersionState /\ f = [r EXCEPT !.sourcePdf = f.sourcePdf]
  BY <1>1, SourcePdfRow
<1>4. s \in DocumentVersionState /\ s = [f EXCEPT !.signedPdf = s.signedPdf]
  BY <1>3, SignRow DEF SignatureTransitions
<1> HIDE DEF f, s
<1>5. s.status = "IN_PROGRESS" /\ RowInv(s) /\ s.supersededBy = r.supersededBy
  BY <1>1, <1>2, <1>3, <1>4 DEF DocumentVersionState, RowInv, PhaseInv, EvidenceInv, LinkInv,
     FourEyesInv, ReleaseInv, Released
<1> DEFINE next   == s.profile.next["IN_PROGRESS"]
           signed == s.editSignatureDone \/ SignatureRequired(s, "IN_PROGRESS->IN_REVIEW")
           edited == [s EXCEPT !.status = next, !.editSignatureDone = signed]
<1>6. /\ s.profile \in Profiles /\ s.workflowActive
      /\ next \in {"IN_REVIEW", "IN_APPROVAL", "APPROVED"}
      /\ next \in DOMAIN s.profile.next \cup {"APPROVED"}
      /\ next = "APPROVED" => "IN_REVIEW" \notin DOMAIN s.profile.next
  BY <1>5, ProfileAssumption DEF RowInv, PhaseInv, WorkPhases, ValidDefinition, IsChain
<1>7. signed \in BOOLEAN
  BY <1>4 DEF DocumentVersionState
<1>8. t \in DocumentVersionState /\ t.status = next /\ t.supersededBy = s.supersededBy /\ RowInv(t)
  <2>1. edited \in DocumentVersionState
    BY <1>4, <1>6, <1>7, RowFields DEF DocumentStatus, WorkPhases
  <2>2. CASE next = "APPROVED"
    <3> DEFINE g == [edited EXCEPT !.approvalCompletedBy = u, !.released = TRUE,
                                   !.workflowActive = FALSE]
    <3>1. t = WithReleasedPdf(g)
      BY <2>2 DEF EditingCompleted
    <3>2. g \in DocumentVersionState
      BY <2>1, RowFields
    <3>3. t \in DocumentVersionState /\ t = [g EXCEPT !.releasedPdf = t.releasedPdf]
      BY <3>1, <3>2, ReleasedPdfRow
    <3> HIDE DEF t
    <3>4. t.status = "APPROVED" /\ t.supersededBy = s.supersededBy /\ t.profile = s.profile
          /\ t.approvalCompletedBy = u /\ t.released = TRUE /\ t.workflowActive = FALSE
      <4>1. /\ g.status = next /\ g.supersededBy = s.supersededBy /\ g.profile = s.profile
            /\ g.approvalCompletedBy = u /\ g.released = TRUE /\ g.workflowActive = FALSE
        BY <1>4 DEF DocumentVersionState
      <4> HIDE DEF g
      <4> QED BY <2>2, <3>2, <3>3, <4>1 DEF DocumentVersionState
    <3>5. RowInv(t)
      <4>1. t.releasedPdf # None /\ u # None
        BY <1>2, <3>4, UsersAssumption
      <4>2. "IN_REVIEW" \notin DOMAIN t.profile.next /\ t.profile \in Profiles
        BY <1>6, <2>2, <3>4
      <4>3. PhaseInv(t)
        BY <3>4, <4>2 DEF PhaseInv, WorkPhases
      <4>4. LinkInv(t)
        BY <1>5, <3>4 DEF RowInv, LinkInv
      <4>5. EvidenceInv(t) /\ FourEyesInv(t) /\ ReleaseInv(t)
        BY <3>4, <4>1, <4>2 DEF EvidenceInv, FourEyesInv, ReleaseInv, Released
      <4> QED BY <4>3, <4>4, <4>5 DEF RowInv
    <3> QED BY <2>2, <3>3, <3>4, <3>5
  <2>3. CASE next # "APPROVED"
    <3>1. t = edited
      BY <2>3 DEF EditingCompleted
    <3> HIDE DEF t
    <3>2. t.status = next /\ t.supersededBy = s.supersededBy /\ t.profile = s.profile
          /\ t.approvalCompletedBy = s.approvalCompletedBy /\ t.released = s.released
          /\ t.workflowActive = s.workflowActive /\ t.releasedPdf = s.releasedPdf
      BY <1>4, <3>1 DEF DocumentVersionState
    <3>3. RowInv(t)
      BY <1>5, <1>6, <2>3, <3>2 DEF RowInv, PhaseInv, EvidenceInv, LinkInv,
         FourEyesInv, ReleaseInv, Released, WorkPhases, ReviewFollowsEditing
    <3> QED BY <2>1, <3>1, <3>2, <3>3
  <2> QED BY <2>2, <2>3
<1> HIDE DEF t
<1>9. /\ Stamp(t, e) \in DocumentVersionState /\ RowInv(Stamp(t, e))
      /\ Stamp(t, e).status # "ABSENT" /\ Stamp(t, e).supersededBy = r.supersededBy
  BY <1>5, <1>6, <1>8, StampRow
<1> QED BY <1>2, <1>9, StoreOne, StoreOneKeepsLink

LEMMA TemplateKeeps ==
    ASSUME IInv, NEW u \in Users, NEW v \in VersionNumbers,
           NEW c \in Contents, NEW e \in EventIds,
           CreateFromTemplate(u, v, c, e)
    PROVE  IInv'
<1> DEFINE new == [NewVersion(u) EXCEPT !.sourceDocx = c]
           old == [versions[v] EXCEPT !.sourceDocx = c]
<1>1. versions[v] \in DocumentVersionState /\ RowInv(versions[v])
  BY StoredRow
<1>2. CASE Exists(v) /\ StoreVersion(v, Stamp(old, e))
  <2>1. Stamp(old, e) \in DocumentVersionState
    BY <1>1, RowFields DEF Stamp
  <2>2. SameStanding(versions[v], Stamp(old, e))
    BY <1>1 DEF SameStanding, DocumentVersionState, Stamp
  <2> QED BY <1>2, <2>1, <2>2, SideFieldsKeep
<1>3. CASE ~Exists(v) /\ StoreVersion(v, Stamp(new, e))
  <2>1. new \in DocumentVersionState
    BY NewVersionRow, RowFields
  <2>2. RowInv(new) /\ new.status = "PLANNED" /\ new.supersededBy = 0
    BY DEF NewVersion, RowInv, PhaseInv, EvidenceInv, LinkInv, FourEyesInv, ReleaseInv, Released,
       WorkPhases
  <2>3. versions[v].supersededBy = 0
    BY <1>1, <1>3 DEF Exists, RowInv, LinkInv
  <2> HIDE DEF new
  <2> QED BY <1>3, <2>1, <2>2, <2>3, StampRow, StoreOne
<1> QED BY <1>2, <1>3 DEF CreateFromTemplate, MutateOwnVersion

-----------------------------------------------------------------------------
(* Operations that write several rows *)

LEMMA AcceptApprovalKeeps ==
    ASSUME IInv, NEW u \in Users, NEW v \in VersionNumbers, NEW e \in EventIds,
           AcceptApproval(u, v, e)
    PROVE  IInv'
<1> DEFINE r == versions[v]
           s == Sign(r, "IN_APPROVAL->APPROVED")
           g == [s EXCEPT !.status = "APPROVED", !.approvalCompletedBy = u,
                          !.released = TRUE, !.workflowActive = FALSE]
           a == ApprovalAccepted(s, u)
           t == Stamp(a, e)
           Old(w) == [versions[w] EXCEPT !.status = "ARCHIVED", !.workflowActive = FALSE,
                                         !.archivedBy = u, !.supersededBy = v]
<1>1. r \in DocumentVersionState /\ RowInv(r)
  BY StoredRow
<1>2. /\ r.status = "IN_APPROVAL" /\ ~FourEyesBlocks(u, r) /\ a.releasedPdf # None
      /\ versions' = [SupersedeOtherApproved(versions, v, u) EXCEPT ![v] = t]
  BY DEF AcceptApproval, MutateVersion, EvaluateWorkflowAction, Store
<1>3. s \in DocumentVersionState /\ s = [r EXCEPT !.signedPdf = s.signedPdf]
  BY <1>1, SignRow DEF SignatureTransitions
<1>4. g \in DocumentVersionState
  BY <1>3, RowFields DEF DocumentStatus
<1>5. a \in DocumentVersionState /\ a = [g EXCEPT !.releasedPdf = a.releasedPdf]
  BY <1>4, ReleasedPdfRow DEF ApprovalAccepted
<1> HIDE DEF s
<1>6. /\ s.profile = r.profile /\ s.reviewedBy = r.reviewedBy
      /\ s.reviewCompletedBy = r.reviewCompletedBy /\ s.supersededBy = r.supersededBy
  BY <1>1, <1>3 DEF DocumentVersionState
<1> HIDE DEF a
<1>7. /\ a.status = "APPROVED" /\ a.approvalCompletedBy = u /\ a.released = TRUE
      /\ a.workflowActive = FALSE /\ a.profile = r.profile /\ a.reviewedBy = r.reviewedBy
      /\ a.reviewCompletedBy = r.reviewCompletedBy /\ a.supersededBy = 0
  <2>1. r.supersededBy = 0
    BY <1>1, <1>2 DEF RowInv, LinkInv
  <2>2. /\ g.status = "APPROVED" /\ g.approvalCompletedBy = u /\ g.released = TRUE
        /\ g.workflowActive = FALSE /\ g.profile = s.profile /\ g.reviewedBy = s.reviewedBy
        /\ g.reviewCompletedBy = s.reviewCompletedBy /\ g.supersededBy = s.supersededBy
    BY <1>3 DEF DocumentVersionState
  <2> HIDE DEF g
  <2> QED BY <1>4, <1>5, <1>6, <2>1, <2>2 DEF DocumentVersionState
<1>8. RowInv(a)
  <2>1. u # None /\ r.profile # None /\ r.profile \in Profiles
    BY <1>1, <1>2, UsersAssumption, ProfileAssumption DEF RowInv, PhaseInv, WorkPhases
  <2>2. PhaseInv(a) /\ LinkInv(a) /\ EvidenceInv(a) /\ ReleaseInv(a)
    BY <1>2, <1>7, <2>1 DEF PhaseInv, LinkInv, EvidenceInv, ReleaseInv, Released, WorkPhases
  <2>3. ReviewFollowsEditing => FourEyesInv(a)
    BY <1>1, <1>2, <1>7, <2>1 DEF RowInv, FourEyesInv, FourEyesBlocks
  <2> QED BY <2>2, <2>3 DEF RowInv
<1>9. t \in DocumentVersionState /\ RowInv(t) /\ t.status = "APPROVED" /\ t.supersededBy = 0
  BY <1>5, <1>7, <1>8, StampRow
<1> HIDE DEF t
<1>10. ASSUME NEW w \in VersionNumbers
       PROVE  /\ versions'[w] \in DocumentVersionState /\ RowInv(versions'[w])
              /\ versions'[w].supersededBy \in {versions[w].supersededBy, v}
              /\ Exists(w) => versions'[w].status # "ABSENT"
  <2>1. versions[w] \in DocumentVersionState /\ RowInv(versions[w])
    BY StoredRow
  <2>2. CASE w = v
    <3>1. versions'[w] = t
      BY <1>2, <2>2 DEF SupersedeOtherApproved
    <3> QED BY <1>7, <1>9, <2>2, <3>1, <1>6, <1>1, <1>2 DEF RowInv, LinkInv
  <2>3. CASE w # v /\ versions[w].status = "APPROVED"
    <3>1. versions'[w] = Old(w)
      BY <1>2, <2>3 DEF SupersedeOtherApproved
    <3>2. Old(w) \in DocumentVersionState
      BY <2>1, RowFields DEF DocumentStatus
    <3>3. RowInv(Old(w)) /\ Old(w).supersededBy = v /\ Old(w).status = "ARCHIVED"
      BY <2>1, <2>3 DEF DocumentVersionState, RowInv, PhaseInv, EvidenceInv, LinkInv,
         FourEyesInv, ReleaseInv, Released, WorkPhases
    <3> QED BY <3>1, <3>2, <3>3
  <2>4. CASE w # v /\ versions[w].status # "APPROVED"
    <3>1. versions'[w] = versions[w]
      BY <1>2, <2>4 DEF SupersedeOtherApproved
    <3> QED BY <2>1, <3>1 DEF Exists
  <2> QED BY <2>2, <2>3, <2>4
<1>11. TypeOK'
  BY <1>2, <1>10 DEF TypeOK, SupersedeOtherApproved
<1>12. versions'[v] = t
  BY <1>2 DEF SupersedeOtherApproved
<1>13. SupersessionSound'
  <2>1. \A w \in VersionNumbers : /\ versions'[w].supersededBy \in {versions[w].supersededBy, v}
                                  /\ Exists(w) => versions'[w].status # "ABSENT"
                                  /\ LinkInv(versions'[w])
    BY <1>10 DEF RowInv
  <2>2. TypeOK /\ SupersessionSound
    BY DEF IInv
  <2> QED BY <1>9, <1>11, <1>12, <2>1, <2>2, LinksToOneVersion
<1> QED BY <1>10, <1>11, <1>13 DEF IInv

LEMMA NewVersionKeeps ==
    ASSUME IInv, NEW u \in Users, NEW v \in VersionNumbers, NEW next \in VersionNumbers,
           NEW e \in EventIds, CreateNewVersionAfterArchive(u, v, next, e)
    PROVE  IInv'
<1> DEFINE s   == versions[v]
           old == [s EXCEPT !.supersededBy = next]
           new == NewVersion(s.owner)
<1>1. s \in DocumentVersionState /\ RowInv(s)
  BY StoredRow
<1>2. /\ s.status = "ARCHIVED" /\ v # next
      /\ versions' = [versions EXCEPT ![v] = Stamp(old, e), ![next] = Stamp(new, e)]
  <2>1. next > v
    BY DEF CreateNewVersionAfterArchive
  <2> QED BY <2>1, VersionAssumption
          DEF CreateNewVersionAfterArchive, MutateVersion, EvaluateWorkflowAction, Store
<1>3. /\ old \in DocumentVersionState /\ RowInv(old)
      /\ old.status = "ARCHIVED" /\ old.supersededBy = next
  <2>1. old \in DocumentVersionState
    BY <1>1, RowFields
  <2> QED BY <1>1, <1>2, <2>1 DEF DocumentVersionState, RowInv, PhaseInv, EvidenceInv, LinkInv,
             FourEyesInv, ReleaseInv, Released
<1>4. new \in DocumentVersionState /\ RowInv(new) /\ new.status = "PLANNED" /\ new.supersededBy = 0
  <2>1. s.owner \in Users \cup {None}
    BY <1>1 DEF DocumentVersionState
  <2>2. new \in DocumentVersionState /\ RowInv(new)
    BY <2>1, NewVersionRow
  <2> QED BY <2>2 DEF NewVersion
<1> HIDE DEF old, new
<1>5. /\ Stamp(old, e) \in DocumentVersionState /\ RowInv(Stamp(old, e))
      /\ Stamp(old, e).status = "ARCHIVED" /\ Stamp(old, e).supersededBy = next
      /\ Stamp(new, e) \in DocumentVersionState /\ RowInv(Stamp(new, e))
      /\ Stamp(new, e).status = "PLANNED" /\ Stamp(new, e).supersededBy = 0
  BY <1>3, <1>4, StampRow
<1>6. versions \in [VersionNumbers -> DocumentVersionState]
  BY DEF IInv, TypeOK
<1>7. versions'[v] = Stamp(old, e) /\ versions'[next] = Stamp(new, e)
  BY <1>2, <1>6
<1>8. TypeOK'
  BY <1>2, <1>5, <1>6 DEF TypeOK
<1>9. \A w \in VersionNumbers : w # v /\ w # next => versions'[w] = versions[w]
  BY <1>2, <1>6
<1>10. \A w \in VersionNumbers : RowInv(versions'[w])
  BY <1>5, <1>7, <1>9, StoredRow
<1>11. ASSUME NEW w \in VersionNumbers
       PROVE  /\ versions'[w].supersededBy \in {versions[w].supersededBy, next}
              /\ Exists(w) => versions'[w].status # "ABSENT"
  <2>1. ~Exists(next) /\ versions[next].supersededBy = 0
    BY StoredRow DEF CreateNewVersionAfterArchive, Exists, RowInv, LinkInv
  <2> QED BY <1>5, <1>7, <1>9, <2>1 DEF Exists
<1>12. SupersessionSound'
  <2>1. \A w \in VersionNumbers : /\ versions'[w].supersededBy \in {versions[w].supersededBy, next}
                                  /\ Exists(w) => versions'[w].status # "ABSENT"
                                  /\ LinkInv(versions'[w])
    BY <1>10, <1>11 DEF RowInv
  <2>2. TypeOK /\ SupersessionSound
    BY DEF IInv
  <2> QED BY <1>5, <1>7, <1>8, <2>1, <2>2, LinksToOneVersion
<1> QED BY <1>8, <1>10, <1>12 DEF IInv

-----------------------------------------------------------------------------
(* The invariant *)

LEMMA InitInv == Init => IInv
<1> SUFFICES ASSUME Init PROVE IInv
  OBVIOUS
<1>1. \A v \in VersionNumbers : versions[v] = Absent
  BY DEF Init
<1>2. TypeOK /\ \A v \in VersionNumbers : RowInv(versions[v])
  BY AbsentRow DEF Init, TypeOK
<1>3. \A S \in (SUBSET VersionNumbers) \ {{}} : \E v \in S : versions[v].supersededBy \notin S
  <2> SUFFICES ASSUME NEW S \in (SUBSET VersionNumbers) \ {{}}
               PROVE  \E v \in S : versions[v].supersededBy \notin S
    OBVIOUS
  <2>1. PICK v \in S : TRUE
    OBVIOUS
  <2>2. versions[v].supersededBy = 0 /\ 0 \notin S
    BY <1>1, AbsentRow, VersionAssumption
  <2> QED BY <2>2
<1>4. SupersessionSound
  BY <1>1, <1>3, AbsentRow DEF SupersessionSound
<1> QED BY <1>2, <1>4 DEF IInv

LEMMA VersionMutationKeeps ==
    ASSUME IInv, NEW u \in Users, NEW v \in VersionNumbers, NEW e \in EventIds,
           VersionMutation(u, v, e)
    PROVE  IInv'
BY ImportPdfKeeps, ImportDocxKeeps, AssignKeeps, StartKeeps, CompleteEditingKeeps,
   AcceptReviewKeeps, RejectReviewKeeps, AcceptApprovalKeeps, RejectApprovalKeeps, AbortKeeps,
   ArchiveKeeps, ExtendKeeps, NewVersionKeeps, MetadataKeeps, ChangeRequestKeeps
   DEF VersionMutation

LEMMA NextInv == IInv /\ [Next]_versions => IInv'
<1> SUFFICES ASSUME IInv, [Next]_versions PROVE IInv'
  OBVIOUS
<1>1. CASE UNCHANGED versions
  BY <1>1 DEF IInv, TypeOK, SupersessionSound, Exists
<1>2. ASSUME NEW u \in Users, NEW v \in VersionNumbers, NEW owner \in Users,
             CreateDocumentVersion(u, v, owner)
      PROVE  IInv'
  BY <1>2, CreateKeeps
<1>3. ASSUME NEW u \in Users, NEW v \in VersionNumbers, EnsureSourcePdf(u, v)
      PROVE  IInv'
  BY <1>3, EnsureKeeps
<1>4. ASSUME NEW u \in Users, NEW v \in VersionNumbers, NEW e \in EventIds, NEW c \in Contents,
             CreateFromTemplate(u, v, c, e)
      PROVE  IInv'
  BY <1>4, TemplateKeeps
<1>5. ASSUME NEW u \in Users, NEW v \in VersionNumbers, NEW e \in EventIds,
             VersionMutation(u, v, e)
      PROVE  IInv'
  BY <1>5, VersionMutationKeeps
<1> QED BY <1>1, <1>2, <1>3, <1>4, <1>5 DEF Next

(* IInv holds in every reachable state.                                       *)
THEOREM Invariance == Spec => []IInv
BY InitInv, NextInv, PTL DEF Spec

(* Every stored row is a document version state: in particular, the phase the *)
(* profile chain yields is always a document status, and the extension count  *)
(* stays within its limit.                                                    *)
THEOREM TypeCorrect == Spec => []TypeOK
<1>1. IInv => TypeOK
  BY DEF IInv
<1> QED BY <1>1, Invariance, PTL

(* The superseded_by_version links start only at archived versions, end at    *)
(* versions that exist, and never form a circle, for any number of versions   *)
(* and although a release may supersede a version with a higher number.       *)
THEOREM SupersessionIsSound == Spec => []SupersessionSound
<1>1. IInv => SupersessionSound
  BY DEF IInv
<1> QED BY <1>1, Invariance, PTL

(* When in every profile a review comes directly after editing, a version     *)
(* released under four eyes was reviewed in its own workflow run and not      *)
(* approved by one of its reviewers, whoever owns, edits or administers it.   *)
THEOREM FourEyesHolds ==
    ASSUME ReviewFollowsEditing
    PROVE  Spec => []FourEyes
<1>1. IInv => FourEyes
  BY ReviewFollowsEditing DEF IInv, RowInv, FourEyesInv, FourEyes, Released
<1> QED BY <1>1, Invariance, PTL

(* When in every profile a review is followed by an approval, the release     *)
(* evidence is complete on every released version and absent on all others.   *)
THEOREM ReleaseEvidenceHolds ==
    ASSUME ReviewThenApproval
    PROVE  Spec => []ReleaseEvidence
<1>1. IInv => ReleaseEvidence
  BY ReviewThenApproval DEF IInv, RowInv, ReleaseInv, EvidenceInv, ReleaseEvidence
<1> QED BY <1>1, Invariance, PTL

-----------------------------------------------------------------------------
(* Release is final *)

RowFinal(s, t) ==
    Released(s) => /\ t.status \in {s.status, "ARCHIVED"}
                   /\ t.approvalCompletedBy = s.approvalCompletedBy
                   /\ t.releasedPdf = s.releasedPdf
                   /\ s.supersededBy # 0 => t.supersededBy = s.supersededBy

Final == \A w \in VersionNumbers : RowFinal(versions[w], versions'[w])

LEMMA StoreFinal ==
    ASSUME TypeOK, NEW v \in VersionNumbers, NEW t, StoreVersion(v, t), RowFinal(versions[v], t)
    PROVE  Final
BY DEF TypeOK, StoreVersion, Store, Final, RowFinal, Released

LEMMA NotReleasedFinal ==
    ASSUME TypeOK, NEW v \in VersionNumbers, NEW t, StoreVersion(v, t), ~Released(versions[v])
    PROVE  Final
BY StoreFinal DEF RowFinal

LEMMA IntakeFinal ==
    ASSUME TypeOK, NEW u \in Users, NEW v \in VersionNumbers,
           NEW c \in Contents, NEW e \in EventIds,
           \/ ImportExistingPdf(u, v, c, e)
           \/ ImportExistingDocx(u, v, c, e)
           \/ CreateFromTemplate(u, v, c, e)
    PROVE  Final
<1>1. versions[v] \in DocumentVersionState
  BY DEF TypeOK
<1>2. RowFinal(versions[v], Stamp([versions[v] EXCEPT !.sourcePdf = c], e))
  BY <1>1 DEF DocumentVersionState, RowFinal, Stamp
<1>3. RowFinal(versions[v], Stamp([versions[v] EXCEPT !.sourceDocx = c], e))
  BY <1>1 DEF DocumentVersionState, RowFinal, Stamp
<1>4. ~Exists(v) => ~Released(versions[v])
  BY DEF Exists, Released
<1> QED BY <1>2, <1>3, <1>4, StoreFinal, NotReleasedFinal
        DEF ImportExistingPdf, ImportExistingDocx, CreateFromTemplate

LEMMA RecordFinal ==
    ASSUME TypeOK, NEW u \in Users, NEW v \in VersionNumbers, NEW e \in EventIds,
           \/ \E new \in AssignmentChoices : AssignWorkflowRoles(u, v, new, e)
           \/ UpdateVersionMetadata(u, v, e)
           \/ AddChangeRequest(u, v, e)
    PROVE  Final
<1>1. versions[v] \in DocumentVersionState
  BY DEF TypeOK
<1>2. \A new : RowFinal(versions[v], Stamp([versions[v] EXCEPT !.assignments = new], e))
  BY <1>1 DEF DocumentVersionState, RowFinal, Stamp
<1>3. RowFinal(versions[v], Stamp(versions[v], e))
  BY <1>1 DEF DocumentVersionState, RowFinal, Stamp
<1> QED BY <1>2, <1>3, StoreFinal
        DEF AssignWorkflowRoles, UpdateVersionMetadata, AddChangeRequest

LEMMA PhaseFinal ==
    ASSUME TypeOK, NEW u \in Users, NEW v \in VersionNumbers, NEW e \in EventIds,
           \/ \E p \in Profiles : StartWorkflow(u, v, p, e)
           \/ CompleteEditing(u, v, e)
           \/ AcceptReview(u, v, e)
           \/ RejectReview(u, v, e)
           \/ RejectApproval(u, v, e)
           \/ AbortWorkflow(u, v, e)
    PROVE  Final
<1>1. ~Released(versions[v])
  BY DEF Released, StartWorkflow, CompleteEditing, AcceptReview,
     RejectReview, RejectApproval, AbortWorkflow, MutateVersion, EvaluateWorkflowAction, WorkPhases
<1>2. \E t : StoreVersion(v, t)
  BY DEF StartWorkflow, CompleteEditing, AcceptReview,
     RejectReview, RejectApproval, AbortWorkflow
<1> QED BY <1>1, <1>2, NotReleasedFinal

LEMMA ReleasedRowFinal ==
    ASSUME TypeOK, NEW u \in Users, NEW v \in VersionNumbers, NEW e \in EventIds,
           ArchiveApproved(u, v, e) \/ ExtendAnnualValidity(u, v, e)
    PROVE  Final
<1> DEFINE s == versions[v]
<1>1. s \in DocumentVersionState
  BY DEF TypeOK
<1>2. RowFinal(s, Stamp([s EXCEPT !.status = "ARCHIVED", !.workflowActive = FALSE,
                                  !.archivedBy = u], e))
  BY <1>1 DEF DocumentVersionState, RowFinal, Stamp
<1>3. RowFinal(s, Stamp([s EXCEPT !.signedPdf = SignatureInput(s, "EXTEND_VALIDITY"),
                                  !.extensionCount = @ + 1], e))
  BY <1>1 DEF DocumentVersionState, RowFinal, Stamp
<1> QED BY <1>2, <1>3, StoreFinal DEF ArchiveApproved, ExtendAnnualValidity

LEMMA AcceptApprovalFinal ==
    ASSUME IInv, NEW u \in Users, NEW v \in VersionNumbers, NEW e \in EventIds,
           AcceptApproval(u, v, e)
    PROVE  Final
<1>1. /\ ~Released(versions[v])
      /\ \A w \in VersionNumbers \ {v} : versions'[w] = SupersedeOtherApproved(versions, v, u)[w]
  BY DEF AcceptApproval, MutateVersion, EvaluateWorkflowAction, Released, Store,
     SupersedeOtherApproved
<1>2. ASSUME NEW w \in VersionNumbers \ {v}
      PROVE  RowFinal(versions[w], versions'[w])
  <2>1. versions[w] \in DocumentVersionState /\ LinkInv(versions[w])
    BY StoredRow DEF RowInv
  <2>2. CASE versions[w].status = "APPROVED"
    <3>1. versions'[w] = [versions[w] EXCEPT !.status = "ARCHIVED", !.workflowActive = FALSE,
                                             !.archivedBy = u, !.supersededBy = v]
      BY <1>1, <2>2 DEF SupersedeOtherApproved
    <3> QED BY <2>1, <2>2, <3>1 DEF DocumentVersionState, RowFinal, LinkInv
  <2>3. CASE versions[w].status # "APPROVED"
    BY <1>1, <2>3 DEF SupersedeOtherApproved, RowFinal
  <2> QED BY <2>2, <2>3
<1> QED BY <1>1, <1>2 DEF Final, RowFinal

LEMMA NewVersionFinal ==
    ASSUME TypeOK, NEW u \in Users, NEW v \in VersionNumbers, NEW next \in VersionNumbers,
           NEW e \in EventIds, CreateNewVersionAfterArchive(u, v, next, e)
    PROVE  Final
<1> DEFINE t == Stamp([versions[v] EXCEPT !.supersededBy = next], e)
<1>1. versions[v] \in DocumentVersionState /\ versions[v].supersededBy = 0
  BY DEF TypeOK, CreateNewVersionAfterArchive
<1>2. RowFinal(versions[v], t)
  BY <1>1 DEF DocumentVersionState, RowFinal, Stamp
<1>3. ~Released(versions[next]) /\ next # v
  BY VersionAssumption DEF CreateNewVersionAfterArchive, Exists, Released
<1>4. \A w \in VersionNumbers \ {next} : versions'[w] = IF w = v THEN t ELSE versions[w]
  BY <1>3 DEF CreateNewVersionAfterArchive, Store, TypeOK
<1>5. \A w \in VersionNumbers \ {v, next} : RowFinal(versions[w], versions'[w])
  BY <1>4 DEF RowFinal
<1> QED BY <1>2, <1>3, <1>4, <1>5 DEF Final, RowFinal

\* No operation takes a release back.
LEMMA NextFinal ==
    ASSUME IInv, Next
    PROVE  Final
<1>1. TypeOK
  BY DEF IInv
<1>2. PICK u \in Users, v \in VersionNumbers :
         \/ \E owner \in Users : CreateDocumentVersion(u, v, owner)
         \/ EnsureSourcePdf(u, v)
         \/ \E e \in EventIds :
               \/ \E c \in Contents : CreateFromTemplate(u, v, c, e)
               \/ VersionMutation(u, v, e)
  BY DEF Next
<1>3. CASE \E owner \in Users : CreateDocumentVersion(u, v, owner)
  <2>1. ~Released(versions[v])
    BY <1>3 DEF CreateDocumentVersion, Exists, Released
  <2> QED BY <1>1, <1>3, <2>1, NotReleasedFinal DEF CreateDocumentVersion
<1>4. CASE EnsureSourcePdf(u, v)
  <2>1. RowFinal(versions[v], WithSourcePdf(versions[v]))
    BY <1>1 DEF TypeOK, DocumentVersionState, RowFinal, WithSourcePdf
  <2> QED BY <1>1, <1>4, <2>1, StoreFinal DEF EnsureSourcePdf
<1>5. ASSUME NEW e \in EventIds, NEW c \in Contents, CreateFromTemplate(u, v, c, e)
      PROVE  Final
  BY <1>1, <1>5, IntakeFinal
<1>6. ASSUME NEW e \in EventIds, VersionMutation(u, v, e)
      PROVE  Final
  BY <1>1, <1>6, IntakeFinal, RecordFinal, PhaseFinal, ReleasedRowFinal, AcceptApprovalFinal,
     NewVersionFinal DEF VersionMutation
<1> QED BY <1>2, <1>3, <1>4, <1>5, <1>6

(* Release is final: a released version keeps its release evidence for ever,  *)
(* leaves APPROVED only for ARCHIVED, and keeps the link to its successor.    *)
THEOREM ReleaseStaysFinal == Spec => ReleaseIsFinal
<1>1. IInv /\ [Next]_versions => [Final]_versions
  BY NextFinal
<1>2. [Final]_versions =>
         [\A v \in VersionNumbers :
             LET s == versions[v]
                 t == versions'[v]
             IN  Released(s) => /\ t.status \in {s.status, "ARCHIVED"}
                                /\ t.approvalCompletedBy = s.approvalCompletedBy
                                /\ t.releasedPdf = s.releasedPdf
                                /\ s.supersededBy # 0 => t.supersededBy = s.supersededBy]_versions
  BY DEF Final, RowFinal
<1> QED BY <1>1, <1>2, Invariance, PTL DEF Spec, ReleaseIsFinal

-----------------------------------------------------------------------------
(* Signatures and assignments as evidence *)

AfterEditing == {"IN_REVIEW", "IN_APPROVAL", "APPROVED", "ARCHIVED"}

\* Profiles that ask for a signature at the end of editing ...
SignedEditing == \A p \in Profiles : "IN_PROGRESS->IN_REVIEW" \in p.signatureRequired

\* ... and profiles that have all phases.
AllPhases ==
    \A p \in Profiles : p.next["IN_PROGRESS"] = "IN_REVIEW" /\ p.next["IN_REVIEW"] = "IN_APPROVAL"

\* After editing there is a signed PDF, and the owner can no longer change roles.
SignedRow(s) ==
    s.status \in AfterEditing => s.editSignatureDone /\ s.signedPdf # None

\* The roles that have acted are frozen.
AssignedRow(s) ==
    /\ s.status \in AfterEditing \ {"IN_REVIEW"} => s.reviewCompletedBy \in s.assignments.reviewers
    /\ Released(s) => s.approvalCompletedBy \in s.assignments.approvers

EvidenceRow(s) ==
    SignedEditing => SignedRow(s) /\ (AllPhases => AssignedRow(s))

EInv == \A v \in VersionNumbers : EvidenceRow(versions[v])

\* What an operation may do to a row under review or approval.
ReviewedRow(s, t) ==
    SignedEditing /\ ReviewThenApproval =>
       (s.status \in {"IN_REVIEW", "IN_APPROVAL"}
           => /\ t.signedPdf = s.signedPdf
              /\ t.status = "APPROVED" => t.releasedPdf = s.signedPdf)

ReviewKept == \A w \in VersionNumbers : ReviewedRow(versions[w], versions'[w])

LEMMA StoreEvidence ==
    ASSUME TypeOK, EInv, NEW v \in VersionNumbers, NEW t, StoreVersion(v, t),
           EvidenceRow(t), ReviewedRow(versions[v], t)
    PROVE  EInv' /\ ReviewKept
<1>1. \A w \in VersionNumbers : versions'[w] = IF w = v THEN t ELSE versions[w]
  BY DEF TypeOK, StoreVersion, Store
<1>2. \A w \in VersionNumbers : ReviewedRow(versions[w], versions[w])
  BY DEF ReviewedRow
<1>3. ReviewKept
  BY <1>1, <1>2 DEF ReviewKept
<1>4. EInv'
  BY <1>1 DEF EInv
<1> QED BY <1>3, <1>4

\* Rows that have not come to a review yet have no evidence to keep.
LEMMA EarlyRow ==
    ASSUME NEW s, NEW t, t.status \in {"ABSENT", "PLANNED", "IN_PROGRESS"},
           s.status \in {"IN_REVIEW", "IN_APPROVAL"} => t.signedPdf = s.signedPdf
    PROVE  EvidenceRow(t) /\ ReviewedRow(s, t)
BY DEF EvidenceRow, SignedRow, AssignedRow, AfterEditing, Released, ReviewedRow

\* Neither have operations that leave the evidence alone.
LEMMA SameEvidence ==
    ASSUME NEW s, NEW t, EvidenceRow(s),
           t.status = s.status, t.editSignatureDone = s.editSignatureDone,
           t.signedPdf = s.signedPdf, t.assignments = s.assignments,
           t.reviewCompletedBy = s.reviewCompletedBy,
           t.approvalCompletedBy = s.approvalCompletedBy
    PROVE  EvidenceRow(t) /\ ReviewedRow(s, t)
BY DEF EvidenceRow, SignedRow, AssignedRow, Released, ReviewedRow

LEMMA IntakeEvidence ==
    ASSUME TypeOK, EInv, NEW u \in Users, NEW v \in VersionNumbers,
           NEW c \in Contents, NEW e \in EventIds,
           \/ ImportExistingPdf(u, v, c, e)
           \/ ImportExistingDocx(u, v, c, e)
           \/ CreateFromTemplate(u, v, c, e)
    PROVE  EInv' /\ ReviewKept
<1> DEFINE s   == versions[v]
           pdf == Stamp([s EXCEPT !.sourcePdf = c], e)
           docx == Stamp([s EXCEPT !.sourceDocx = c], e)
           new == Stamp([NewVersion(u) EXCEPT !.sourceDocx = c], e)
<1>1. s \in DocumentVersionState /\ EvidenceRow(s)
  BY DEF TypeOK, EInv
<1>2. /\ EvidenceRow(pdf) /\ ReviewedRow(s, pdf)
      /\ EvidenceRow(docx) /\ ReviewedRow(s, docx)
  <2>1. /\ pdf.status = s.status /\ pdf.editSignatureDone = s.editSignatureDone
        /\ pdf.signedPdf = s.signedPdf /\ pdf.assignments = s.assignments
        /\ pdf.reviewCompletedBy = s.reviewCompletedBy
        /\ pdf.approvalCompletedBy = s.approvalCompletedBy
    BY <1>1 DEF Stamp, DocumentVersionState
  <2>2. /\ docx.status = s.status /\ docx.editSignatureDone = s.editSignatureDone
        /\ docx.signedPdf = s.signedPdf /\ docx.assignments = s.assignments
        /\ docx.reviewCompletedBy = s.reviewCompletedBy
        /\ docx.approvalCompletedBy = s.approvalCompletedBy
    BY <1>1 DEF Stamp, DocumentVersionState
  <2> HIDE DEF s, pdf, docx
  <2> QED BY <1>1, <2>1, <2>2, SameEvidence
<1>3. ~Exists(v) => EvidenceRow(new) /\ ReviewedRow(s, new)
  <2>1. new.status = "PLANNED"
    BY DEF new, Stamp, NewVersion
  <2> HIDE DEF new
  <2> QED BY <2>1, EarlyRow DEF Exists
<1>4. ASSUME NEW t, StoreVersion(v, t), EvidenceRow(t), ReviewedRow(s, t)
      PROVE  EInv' /\ ReviewKept
  BY <1>4, StoreEvidence
<1>5. StoreVersion(v, pdf) \/ StoreVersion(v, docx) \/ (~Exists(v) /\ StoreVersion(v, new))
  BY DEF ImportExistingPdf, ImportExistingDocx, CreateFromTemplate
<1> HIDE DEF s, pdf, docx, new
<1> QED BY <1>2, <1>3, <1>4, <1>5

LEMMA RecordEvidence ==
    ASSUME TypeOK, EInv, NEW u \in Users, NEW v \in VersionNumbers,
           \/ EnsureSourcePdf(u, v)
           \/ \E e \in EventIds : UpdateVersionMetadata(u, v, e) \/ AddChangeRequest(u, v, e)
    PROVE  EInv' /\ ReviewKept
<1> DEFINE s == versions[v]
<1>1. s \in DocumentVersionState /\ EvidenceRow(s)
  BY DEF TypeOK, EInv
<1>2. PICK t : /\ StoreVersion(v, t)
               /\ t = WithSourcePdf(s) \/ \E e \in EventIds : t = Stamp(s, e)
  BY DEF EnsureSourcePdf, UpdateVersionMetadata, AddChangeRequest
<1>3. /\ t.status = s.status /\ t.editSignatureDone = s.editSignatureDone
      /\ t.signedPdf = s.signedPdf /\ t.assignments = s.assignments
      /\ t.reviewCompletedBy = s.reviewCompletedBy
      /\ t.approvalCompletedBy = s.approvalCompletedBy
  BY <1>1, <1>2 DEF WithSourcePdf, Stamp, DocumentVersionState
<1> HIDE DEF s
<1>4. EvidenceRow(t) /\ ReviewedRow(s, t)
  BY <1>1, <1>3, SameEvidence
<1> QED BY <1>2, <1>4, StoreEvidence DEF s

LEMMA EarlyEvidence ==
    ASSUME TypeOK, EInv, NEW u \in Users, NEW v \in VersionNumbers,
           \/ \E owner \in Users : CreateDocumentVersion(u, v, owner)
           \/ \E e \in EventIds :
                 \/ \E p \in Profiles : StartWorkflow(u, v, p, e)
                 \/ RejectReview(u, v, e)
                 \/ RejectApproval(u, v, e)
                 \/ AbortWorkflow(u, v, e)
    PROVE  EInv' /\ ReviewKept
<1> DEFINE s == versions[v]
<1>1. s \in DocumentVersionState
  BY DEF TypeOK
<1>2. ASSUME NEW t, StoreVersion(v, t), t.status \in {"PLANNED", "IN_PROGRESS"},
             s.status \in {"IN_REVIEW", "IN_APPROVAL"} => t.signedPdf = s.signedPdf
      PROVE  EInv' /\ ReviewKept
  BY <1>2, EarlyRow, StoreEvidence
<1>3. ASSUME NEW owner \in Users, CreateDocumentVersion(u, v, owner)
      PROVE  EInv' /\ ReviewKept
  BY <1>2, <1>3 DEF CreateDocumentVersion, NewVersion, Exists
<1>4. ASSUME NEW e \in EventIds, NEW p \in Profiles, StartWorkflow(u, v, p, e)
      PROVE  EInv' /\ ReviewKept
  <2> DEFINE t == Stamp([s EXCEPT !.status = "IN_PROGRESS", !.workflowActive = TRUE,
                                  !.profile = p, !.reviewedBy = {}], e)
  <2>1. StoreVersion(v, t)
    BY <1>4 DEF StartWorkflow
  <2>2. t.status = "IN_PROGRESS" /\ t.signedPdf = s.signedPdf
    BY <1>1 DEF Stamp, DocumentVersionState
  <2> HIDE DEF t
  <2> QED BY <1>2, <2>1, <2>2
<1>5. ASSUME NEW e \in EventIds, RejectReview(u, v, e) \/ RejectApproval(u, v, e)
      PROVE  EInv' /\ ReviewKept
  <2> DEFINE t == Stamp([s EXCEPT !.status = "IN_PROGRESS"], e)
  <2>1. StoreVersion(v, t)
    BY <1>5 DEF RejectReview, RejectApproval
  <2>2. t.status = "IN_PROGRESS" /\ t.signedPdf = s.signedPdf
    BY <1>1 DEF Stamp, DocumentVersionState
  <2> HIDE DEF t
  <2> QED BY <1>2, <2>1, <2>2
<1>6. ASSUME NEW e \in EventIds, AbortWorkflow(u, v, e)
      PROVE  EInv' /\ ReviewKept
  <2> DEFINE t == Stamp([s EXCEPT !.status = "PLANNED", !.workflowActive = FALSE], e)
  <2>1. StoreVersion(v, t)
    BY <1>6 DEF AbortWorkflow
  <2>2. t.status = "PLANNED" /\ t.signedPdf = s.signedPdf
    BY <1>1 DEF Stamp, DocumentVersionState
  <2> HIDE DEF t
  <2> QED BY <1>2, <2>1, <2>2
<1> QED BY <1>3, <1>4, <1>5, <1>6

\* Once the editor has signed the owner may not assign; a QMB may only assign
\* the roles whose phase is still to come.
LEMMA AssignEvidence ==
    ASSUME TypeOK, EInv, NEW u \in Users, NEW v \in VersionNumbers,
           NEW new \in AssignmentChoices, NEW e \in EventIds, AssignWorkflowRoles(u, v, new, e)
    PROVE  EInv' /\ ReviewKept
<1> DEFINE s == versions[v]
           t == Stamp([s EXCEPT !.assignments = new], e)
<1>1. s \in DocumentVersionState /\ EvidenceRow(s)
  BY DEF TypeOK, EInv
<1>2. StoreVersion(v, t) /\ AssignmentUpdateAllowed(u, s, new)
  BY DEF AssignWorkflowRoles
<1>3. /\ t.status = s.status /\ t.editSignatureDone = s.editSignatureDone
      /\ t.signedPdf = s.signedPdf /\ t.assignments = new
      /\ t.reviewCompletedBy = s.reviewCompletedBy
      /\ t.approvalCompletedBy = s.approvalCompletedBy
  BY <1>1 DEF Stamp, DocumentVersionState
<1> HIDE DEF s, t
<1>4. SignedEditing => SignedRow(t)
  BY <1>1, <1>3 DEF EvidenceRow, SignedRow
<1>5. ASSUME SignedEditing, AllPhases PROVE AssignedRow(t)
  <2>1. SignedRow(s) /\ AssignedRow(s)
    BY <1>1, <1>5 DEF EvidenceRow
  <2>2. CASE s.status \notin AfterEditing
    BY <1>3, <2>2 DEF AssignedRow, AfterEditing, Released
  <2>3. CASE s.status \in AfterEditing
    <3>1. /\ s.status \in {"IN_APPROVAL", "APPROVED", "ARCHIVED"}
                => new.reviewers = s.assignments.reviewers
          /\ s.status \in {"APPROVED", "ARCHIVED"} => new.approvers = s.assignments.approvers
      BY <1>2, <2>1, <2>3 DEF SignedRow, AssignmentUpdateAllowed
    <3> QED BY <1>3, <2>1, <3>1 DEF AssignedRow, AfterEditing, Released
  <2> QED BY <2>2, <2>3
<1>6. EvidenceRow(t)
  BY <1>4, <1>5 DEF EvidenceRow
<1>7. ReviewedRow(s, t)
  BY <1>3 DEF ReviewedRow
<1> QED BY <1>2, <1>6, <1>7, StoreEvidence DEF s

LEMMA EditingEvidence ==
    ASSUME IInv, EInv, NEW u \in Users, NEW v \in VersionNumbers, NEW e \in EventIds,
           CompleteEditing(u, v, e)
    PROVE  EInv' /\ ReviewKept
<1> DEFINE r == versions[v]
           f == WithSourcePdf(r)
           s == Sign(f, "IN_PROGRESS->IN_REVIEW")
           t == EditingCompleted(s, u)
<1>1. r \in DocumentVersionState /\ RowInv(r) /\ TypeOK
  BY StoredRow DEF IInv
<1>2. /\ r.status = "IN_PROGRESS" /\ StoreVersion(v, Stamp(t, e))
      /\ Signable(r, "IN_PROGRESS->IN_REVIEW")
  BY DEF CompleteEditing, MutateVersion, EvaluateWorkflowAction
<1>3. r.profile \in Profiles
  BY <1>1, <1>2 DEF RowInv, PhaseInv, WorkPhases
<1>4. f \in DocumentVersionState /\ f = [r EXCEPT !.sourcePdf = f.sourcePdf]
  BY <1>1, SourcePdfRow
<1>5. r.sourcePdf # None => f.sourcePdf # None
  BY <1>1 DEF WithSourcePdf, FirstOf, DocumentVersionState
<1>6. s \in DocumentVersionState /\ s = [f EXCEPT !.signedPdf = s.signedPdf]
  BY <1>4, SignRow DEF SignatureTransitions
<1>7. f.profile = r.profile /\ f.signedPdf = r.signedPdf
  BY <1>1, <1>4 DEF DocumentVersionState
<1>8. SignedEditing => SignatureRequired(f, "IN_PROGRESS->IN_REVIEW") /\ s.signedPdf # None
  <2> HAVE SignedEditing
  <2>1. SignatureRequired(f, "IN_PROGRESS->IN_REVIEW") /\ SignatureRequired(r, "IN_PROGRESS->IN_REVIEW")
    BY <1>3, <1>7 DEF SignedEditing, SignatureRequired
  <2>2. FirstOf(r.signedPdf, r.sourcePdf) # None
    BY <1>2, <2>1 DEF Signable, SignatureInput
  <2>3. SignatureInput(f, "IN_PROGRESS->IN_REVIEW") # None
    BY <1>5, <1>7, <2>2 DEF SignatureInput, FirstOf
  <2>4. s.signedPdf = SignatureInput(f, "IN_PROGRESS->IN_REVIEW")
    BY <1>4, <2>1 DEF Sign, DocumentVersionState
  <2> QED BY <2>1, <2>3, <2>4
<1> HIDE DEF f, s
<1>9. s.profile = r.profile /\ s.status = "IN_PROGRESS"
  BY <1>1, <1>2, <1>4, <1>6 DEF DocumentVersionState
<1>10. t.status = s.profile.next["IN_PROGRESS"] /\ t.signedPdf = s.signedPdf
       /\ t.editSignatureDone = (s.editSignatureDone \/ SignatureRequired(s, "IN_PROGRESS->IN_REVIEW"))
       /\ DOMAIN t = DOMAIN s
  BY <1>6 DEF EditingCompleted, WithReleasedPdf, DocumentVersionState
<1>11. SignedEditing => t.editSignatureDone
  BY <1>3, <1>9, <1>10 DEF SignedEditing, SignatureRequired
<1> HIDE DEF t
<1>12. /\ Stamp(t, e).status = t.status /\ Stamp(t, e).signedPdf = t.signedPdf
       /\ Stamp(t, e).editSignatureDone = t.editSignatureDone
  BY <1>6, <1>10 DEF Stamp, DocumentVersionState
<1>13. SignedEditing => SignedRow(Stamp(t, e))
  BY <1>8, <1>10, <1>11, <1>12 DEF SignedRow
<1>14. AllPhases => AssignedRow(Stamp(t, e))
  BY <1>3, <1>9, <1>10, <1>12 DEF AllPhases, AssignedRow, Released, AfterEditing
<1>15. EvidenceRow(Stamp(t, e)) /\ ReviewedRow(r, Stamp(t, e))
  BY <1>2, <1>13, <1>14 DEF EvidenceRow, ReviewedRow
<1> QED BY <1>1, <1>2, <1>15, StoreEvidence

\* A later signature continues the signed PDF, so signing leaves it as it is.
LEMMA LaterSignature ==
    ASSUME NEW r \in DocumentVersionState,
           NEW transition \in {"IN_REVIEW->IN_APPROVAL", "IN_APPROVAL->APPROVED"}
    PROVE  Sign(r, transition) = r
<1>1. SignatureInput(r, transition) = r.signedPdf
  BY DEF SignatureInput
<1> QED BY <1>1 DEF Sign, DocumentVersionState

LEMMA ReviewEvidence ==
    ASSUME IInv, EInv, NEW u \in Users, NEW v \in VersionNumbers, NEW e \in EventIds,
           AcceptReview(u, v, e)
    PROVE  EInv' /\ ReviewKept
<1> DEFINE r == versions[v]
           t == Stamp([r EXCEPT !.status = r.profile.next["IN_REVIEW"],
                                !.reviewedBy = @ \cup {u}, !.reviewCompletedBy = u], e)
<1>1. r \in DocumentVersionState /\ RowInv(r) /\ TypeOK /\ EvidenceRow(r)
  BY StoredRow DEF IInv, EInv
<1>2. r.status = "IN_REVIEW" /\ u \in r.assignments.reviewers
  BY DEF AcceptReview, MutateVersion, EvaluateWorkflowAction
<1>3. StoreVersion(v, t)
  <2>1. Sign(r, "IN_REVIEW->IN_APPROVAL") = r
    BY <1>1, LaterSignature
  <2> QED BY <2>1 DEF AcceptReview
<1>4. r.profile \in Profiles
  BY <1>1, <1>2 DEF RowInv, PhaseInv, WorkPhases
<1>5. "IN_REVIEW" \in DOMAIN r.profile.next
  BY <1>1, <1>2 DEF RowInv, PhaseInv, WorkPhases
<1>6. /\ t.status = r.profile.next["IN_REVIEW"] /\ t.signedPdf = r.signedPdf
      /\ t.editSignatureDone = r.editSignatureDone /\ t.assignments = r.assignments
      /\ t.reviewCompletedBy = u
  BY <1>1 DEF Stamp, DocumentVersionState
<1> HIDE DEF t, r
<1>7. SignedEditing => SignedRow(t)
  BY <1>1, <1>2, <1>6 DEF EvidenceRow, SignedRow, AfterEditing
<1>8. AllPhases => AssignedRow(t)
  BY <1>2, <1>4, <1>6 DEF AllPhases, AssignedRow, Released
<1>9. EvidenceRow(t)
  BY <1>7, <1>8 DEF EvidenceRow
<1>10. ReviewedRow(r, t)
  BY <1>4, <1>5, <1>6 DEF ReviewedRow, ReviewThenApproval
<1> QED BY <1>1, <1>3, <1>9, <1>10, StoreEvidence DEF r

LEMMA ApprovalEvidence ==
    ASSUME IInv, EInv, NEW u \in Users, NEW v \in VersionNumbers, NEW e \in EventIds,
           AcceptApproval(u, v, e)
    PROVE  EInv' /\ ReviewKept
<1> DEFINE r == versions[v]
           a == ApprovalAccepted(r, u)
           t == Stamp(a, e)
<1>1. r \in DocumentVersionState /\ RowInv(r) /\ TypeOK /\ EvidenceRow(r)
  BY StoredRow DEF IInv, EInv
<1>2. r.status = "IN_APPROVAL" /\ u \in r.assignments.approvers
  BY DEF AcceptApproval, MutateVersion, EvaluateWorkflowAction
<1>3. versions' = [SupersedeOtherApproved(versions, v, u) EXCEPT ![v] = t]
  <2>1. Sign(r, "IN_APPROVAL->APPROVED") = r
    BY <1>1, LaterSignature
  <2> QED BY <2>1 DEF AcceptApproval, Store
<1>4. /\ a.status = "APPROVED" /\ a.signedPdf = r.signedPdf
      /\ a.editSignatureDone = r.editSignatureDone /\ a.assignments = r.assignments
      /\ a.reviewCompletedBy = r.reviewCompletedBy /\ a.approvalCompletedBy = u
      /\ r.signedPdf # None => a.releasedPdf = r.signedPdf
      /\ DOMAIN a = DOMAIN r
  BY <1>1 DEF ApprovalAccepted, WithReleasedPdf, ReleaseSource, FirstOf, DocumentVersionState
<1> HIDE DEF a
<1>5. /\ t.status = "APPROVED" /\ t.signedPdf = r.signedPdf
      /\ t.editSignatureDone = r.editSignatureDone /\ t.assignments = r.assignments
      /\ t.reviewCompletedBy = r.reviewCompletedBy /\ t.approvalCompletedBy = u
      /\ r.signedPdf # None => t.releasedPdf = r.signedPdf
  BY <1>1, <1>4 DEF Stamp, DocumentVersionState
<1>6. versions'[v] = t
  BY <1>3 DEF SupersedeOtherApproved
<1> HIDE DEF t
<1>7. EvidenceRow(t) /\ ReviewedRow(r, t)
  <2>1. SignedEditing => SignedRow(t)
    BY <1>1, <1>2, <1>5 DEF EvidenceRow, SignedRow, AfterEditing
  <2>2. SignedEditing /\ AllPhases => AssignedRow(t)
    BY <1>1, <1>2, <1>5 DEF EvidenceRow, AssignedRow, AfterEditing, Released
  <2>3. SignedEditing => r.signedPdf # None
    BY <1>1, <1>2 DEF EvidenceRow, SignedRow, AfterEditing
  <2>4. ReviewedRow(r, t)
    BY <1>5, <2>3 DEF ReviewedRow
  <2> QED BY <2>1, <2>2, <2>4 DEF EvidenceRow
<1>8. ASSUME NEW w \in VersionNumbers, w # v
      PROVE  EvidenceRow(versions'[w]) /\ ReviewedRow(versions[w], versions'[w])
  <2> DEFINE s == versions[w]
             o == versions'[w]
  <2>1. s \in DocumentVersionState /\ EvidenceRow(s)
    BY DEF IInv, TypeOK, EInv
  <2>2. CASE s.status = "APPROVED"
    <3>1. o = [s EXCEPT !.status = "ARCHIVED", !.workflowActive = FALSE,
                        !.archivedBy = u, !.supersededBy = v]
      BY <1>3, <1>8, <2>2 DEF SupersedeOtherApproved
    <3>2. /\ o.status = "ARCHIVED" /\ o.editSignatureDone = s.editSignatureDone
          /\ o.signedPdf = s.signedPdf /\ o.assignments = s.assignments
          /\ o.reviewCompletedBy = s.reviewCompletedBy
          /\ o.approvalCompletedBy = s.approvalCompletedBy
      BY <2>1, <3>1 DEF DocumentVersionState
    <3> HIDE DEF s, o
    <3>3. EvidenceRow(o) /\ ReviewedRow(s, o)
      BY <2>1, <2>2, <3>2
         DEF EvidenceRow, SignedRow, AssignedRow, AfterEditing, Released, ReviewedRow
    <3> QED BY <3>3 DEF s, o
  <2>3. CASE s.status # "APPROVED"
    <3>1. o = s
      BY <1>3, <1>8, <2>3 DEF SupersedeOtherApproved
    <3> QED BY <2>1, <3>1 DEF ReviewedRow
  <2> QED BY <2>2, <2>3
<1> QED BY <1>6, <1>7, <1>8 DEF EInv, ReviewKept

LEMMA ReleasedEvidence ==
    ASSUME TypeOK, EInv, NEW u \in Users, NEW v \in VersionNumbers, NEW e \in EventIds,
           ArchiveApproved(u, v, e) \/ ExtendAnnualValidity(u, v, e)
    PROVE  EInv' /\ ReviewKept
<1> DEFINE s == versions[v]
           archived == Stamp([s EXCEPT !.status = "ARCHIVED", !.workflowActive = FALSE,
                                       !.archivedBy = u], e)
           extended == Stamp([s EXCEPT !.signedPdf = SignatureInput(s, "EXTEND_VALIDITY"),
                                       !.extensionCount = @ + 1], e)
<1>1. s \in DocumentVersionState /\ EvidenceRow(s) /\ s.status = "APPROVED"
  BY DEF TypeOK, EInv, ArchiveApproved, ExtendAnnualValidity, MutateVersion,
     EvaluateWorkflowAction
<1>2. PICK t : /\ StoreVersion(v, t)
               /\ \/ t = archived
                  \/ t = extended /\ SignatureInput(s, "EXTEND_VALIDITY") # None
  BY DEF ArchiveApproved, ExtendAnnualValidity
<1>3. /\ t.status \in {"APPROVED", "ARCHIVED"} /\ t.editSignatureDone = s.editSignatureDone
      /\ s.signedPdf # None => t.signedPdf # None
      /\ t.assignments = s.assignments /\ t.reviewCompletedBy = s.reviewCompletedBy
      /\ t.approvalCompletedBy = s.approvalCompletedBy
  <2>1. CASE t = archived
    BY <1>1, <2>1 DEF Stamp, DocumentVersionState
  <2>2. CASE t = extended /\ SignatureInput(s, "EXTEND_VALIDITY") # None
    BY <1>1, <2>2 DEF Stamp, DocumentVersionState
  <2> QED BY <1>2, <2>1, <2>2
<1> HIDE DEF s
<1>4. EvidenceRow(t) /\ ReviewedRow(s, t)
  BY <1>1, <1>3 DEF EvidenceRow, SignedRow, AssignedRow, AfterEditing, Released, ReviewedRow
<1> QED BY <1>2, <1>4, StoreEvidence DEF s

LEMMA SuccessorEvidence ==
    ASSUME TypeOK, EInv, NEW u \in Users, NEW v \in VersionNumbers, NEW next \in VersionNumbers,
           NEW e \in EventIds, CreateNewVersionAfterArchive(u, v, next, e)
    PROVE  EInv' /\ ReviewKept
<1> DEFINE s == versions[v]
           t == Stamp([s EXCEPT !.supersededBy = next], e)
           n == Stamp(NewVersion(s.owner), e)
<1>1. s \in DocumentVersionState /\ EvidenceRow(s) /\ next # v
  BY VersionAssumption DEF TypeOK, EInv, CreateNewVersionAfterArchive, Exists
<1>2. /\ t.status = s.status /\ t.editSignatureDone = s.editSignatureDone
      /\ t.signedPdf = s.signedPdf /\ t.assignments = s.assignments
      /\ t.reviewCompletedBy = s.reviewCompletedBy
      /\ t.approvalCompletedBy = s.approvalCompletedBy
  BY <1>1 DEF Stamp, DocumentVersionState
<1>3. n.status = "PLANNED" /\ versions[next].status = "ABSENT"
  BY DEF Stamp, NewVersion, CreateNewVersionAfterArchive, Exists
<1>4. \A w \in VersionNumbers : versions'[w] = IF w = next THEN n
                                               ELSE IF w = v THEN t ELSE versions[w]
  BY <1>1 DEF CreateNewVersionAfterArchive, Store, TypeOK
<1> HIDE DEF s, t, n
<1>5. EvidenceRow(t) /\ ReviewedRow(s, t)
  BY <1>1, <1>2, SameEvidence
<1>6. EvidenceRow(n) /\ ReviewedRow(versions[next], n)
  BY <1>3, EarlyRow
<1>7. \A w \in VersionNumbers : EvidenceRow(versions[w]) /\ ReviewedRow(versions[w], versions[w])
  BY DEF EInv, ReviewedRow
<1> QED BY <1>4, <1>5, <1>6, <1>7 DEF EInv, ReviewKept, s

LEMMA NextEvidence ==
    ASSUME IInv, EInv, Next
    PROVE  EInv' /\ ReviewKept
<1>1. TypeOK
  BY DEF IInv
<1>2. PICK u \in Users, v \in VersionNumbers :
         \/ \E owner \in Users : CreateDocumentVersion(u, v, owner)
         \/ EnsureSourcePdf(u, v)
         \/ \E e \in EventIds :
               \/ \E c \in Contents : CreateFromTemplate(u, v, c, e)
               \/ VersionMutation(u, v, e)
  BY DEF Next
<1>3. CASE (\E owner \in Users : CreateDocumentVersion(u, v, owner)) \/ EnsureSourcePdf(u, v)
  BY <1>1, <1>3, EarlyEvidence, RecordEvidence
<1>4. ASSUME NEW e \in EventIds, NEW c \in Contents, CreateFromTemplate(u, v, c, e)
      PROVE  EInv' /\ ReviewKept
  BY <1>1, <1>4, IntakeEvidence
<1>5. ASSUME NEW e \in EventIds, VersionMutation(u, v, e)
      PROVE  EInv' /\ ReviewKept
  BY <1>1, <1>5, IntakeEvidence, RecordEvidence, EarlyEvidence, AssignEvidence, EditingEvidence,
     ReviewEvidence, ApprovalEvidence, ReleasedEvidence, SuccessorEvidence DEF VersionMutation
<1> QED BY <1>2, <1>3, <1>4, <1>5

(* What the roles and signatures of a version show stays true in every        *)
(* reachable state, under profiles in which editing ends with a signature.    *)
THEOREM EvidenceInvariance == Spec => [](IInv /\ EInv)
<1>1. Init => EInv
  <2> SUFFICES ASSUME Init PROVE EInv
    OBVIOUS
  <2>1. \A v \in VersionNumbers : versions[v].status = "ABSENT"
    BY AbsentRow DEF Init
  <2> QED BY <2>1 DEF EInv, EvidenceRow, SignedRow, AssignedRow, AfterEditing, Released
<1>2. IInv /\ EInv /\ [Next]_versions => EInv'
  BY NextEvidence DEF EInv
<1> QED BY <1>1, <1>2, InitInv, NextInv, PTL DEF Spec

(* Under profiles with a signed end of editing, a review and an approval, the *)
(* assignment of a released version names its reviewer and its approver:      *)
(* AssignWorkflowRoles freezes every role that has acted.                     *)
THEOREM AssignmentsStayEvidence ==
    ASSUME SignedEditing, AllPhases
    PROVE  Spec => []AssignmentEvidence
<1>1. EInv => AssignmentEvidence
  BY SignedEditing, AllPhases
     DEF EInv, EvidenceRow, AssignedRow, AfterEditing, Released, AssignmentEvidence
<1> QED BY <1>1, EvidenceInvariance, PTL

(* When editing ends with a signature, every later phase finds a PDF to sign. *)
THEOREM SigningNeverStuck ==
    ASSUME SignedEditing
    PROVE  Spec => []SignaturePossible
<1>1. EInv => SignaturePossible
  BY SignedEditing
     DEF EInv, EvidenceRow, SignedRow, AfterEditing, SignaturePossible, Signable, SignatureInput
<1> QED BY <1>1, EvidenceInvariance, PTL

(* When editing ends with a signature and a review is followed by an          *)
(* approval, what was under review is what is released, also when the owner   *)
(* imports other source files meanwhile.                                      *)
THEOREM ReviewedBecomesReleased ==
    ASSUME SignedEditing, ReviewThenApproval
    PROVE  Spec => ReviewedIsReleased
<1> DEFINE A == \A v \in VersionNumbers :
                   LET s == versions[v]
                       t == versions'[v]
                   IN  s.status \in {"IN_REVIEW", "IN_APPROVAL"}
                          => /\ t.signedPdf = s.signedPdf
                             /\ t.status = "APPROVED" => t.releasedPdf = s.signedPdf
<1>1. ReviewKept => A
  BY SignedEditing, ReviewThenApproval DEF ReviewKept, ReviewedRow
<1>2. IInv /\ EInv /\ [Next]_versions => [A]_versions
  BY <1>1, NextEvidence
<1> QED BY <1>2, EvidenceInvariance, PTL DEF Spec, ReviewedIsReleased

-----------------------------------------------------------------------------
(* What one operation does to the states of the versions *)

\* The rows of the document are as the workflow keeps them.
RowsOK(rows) ==
    /\ rows \in [VersionNumbers -> DocumentVersionState]
    /\ \A v \in VersionNumbers : RowInv(rows[v])
    /\ \A v \in VersionNumbers :
          rows[v].supersededBy # 0
             => rows[v].status = "ARCHIVED" /\ rows[rows[v].supersededBy].status # "ABSENT"
    /\ \A S \in (SUBSET VersionNumbers) \ {{}} :
          \E v \in S : rows[v].supersededBy \notin S

LEMMA RowsOfIInv == IInv <=> RowsOK(versions)
  BY DEF IInv, RowsOK, TypeOK, SupersessionSound, Exists

\* An operation of u on version v.
Operates(u, v) ==
    \/ \E owner \in Users : CreateDocumentVersion(u, v, owner)
    \/ EnsureSourcePdf(u, v)
    \/ \E e \in EventIds :
          \/ \E c \in Contents : CreateFromTemplate(u, v, c, e)
          \/ VersionMutation(u, v, e)

\* Every operation but two writes the row of its version only.
OnlyWrites(v) == \A w \in VersionNumbers : w # v => versions'[w] = versions[w]

LEMMA StoreWritesOne ==
  ASSUME TypeOK, NEW v \in VersionNumbers, NEW t, StoreVersion(v, t)
  PROVE  OnlyWrites(v) /\ UniqueApproved(versions') /\ versions'[v] = t
  BY DEF TypeOK, StoreVersion, Store, OnlyWrites

\* The row of a new version is reported after the archived one it succeeds.
Successor(v) ==
    Exists(v) /\ versions'[v].supersededBy # versions[v].supersededBy

\* What the registry needs to know about an operation on v.
Effect(v) ==
    /\ UniqueApproved(versions')
    /\ versions'[v].status # "APPROVED"
          => \A w \in VersionNumbers : w # v => /\ versions'[w].status = "APPROVED"
                                                    <=> versions[w].status = "APPROVED"
                                                /\ versions'[w].status = "ARCHIVED"
                                                    <=> versions[w].status = "ARCHIVED"
    /\ Successor(v) => /\ versions'[v].supersededBy \in VersionNumbers
                       /\ versions'[versions'[v].supersededBy].status = "PLANNED"

\* ... when it writes one row and leaves the link alone.
LEMMA SingleEffect ==
  ASSUME TypeOK, NEW v \in VersionNumbers, NEW t, StoreVersion(v, t),
         Exists(v) => versions'[v].supersededBy = versions[v].supersededBy
  PROVE  Effect(v)
  BY StoreWritesOne DEF OnlyWrites, Effect, Successor

\* The operations that write one row.
LEMMA SingleOperations ==
  ASSUME IInv, NEW u \in Users, NEW v \in VersionNumbers, NEW e \in EventIds,
         \/ \E c \in Contents : \/ ImportExistingPdf(u, v, c, e)
                                \/ ImportExistingDocx(u, v, c, e)
                                \/ CreateFromTemplate(u, v, c, e)
         \/ \E new \in AssignmentChoices : AssignWorkflowRoles(u, v, new, e)
         \/ \E p \in Profiles : StartWorkflow(u, v, p, e)
         \/ CompleteEditing(u, v, e)
         \/ AcceptReview(u, v, e)
         \/ RejectReview(u, v, e)
         \/ RejectApproval(u, v, e)
         \/ AbortWorkflow(u, v, e)
         \/ ArchiveApproved(u, v, e)
         \/ ExtendAnnualValidity(u, v, e)
         \/ UpdateVersionMetadata(u, v, e)
         \/ AddChangeRequest(u, v, e)
  PROVE  Effect(v)
  <1>1. TypeOK /\ versions[v] \in DocumentVersionState
    BY DEF IInv, TypeOK
  <1>2. ASSUME NEW t, StoreVersion(v, t), Exists(v) => t.supersededBy = versions[v].supersededBy
        PROVE  Effect(v)
    BY <1>1, <1>2, SingleEffect, StoreWritesOne
  <1>3. ASSUME NEW c \in Contents,
               \/ ImportExistingPdf(u, v, c, e)
               \/ ImportExistingDocx(u, v, c, e)
               \/ CreateFromTemplate(u, v, c, e)
        PROVE  Effect(v)
    <2>1. CASE ImportExistingPdf(u, v, c, e)
      <3> DEFINE t == Stamp([versions[v] EXCEPT !.sourcePdf = c], e)
      <3>1. StoreVersion(v, t)
        BY <2>1 DEF ImportExistingPdf
      <3>2. t.supersededBy = versions[v].supersededBy
        BY <1>1 DEF Stamp, DocumentVersionState
      <3> HIDE DEF t
      <3>3. QED
        BY <1>2, <3>1, <3>2
    <2>2. ASSUME StoreVersion(v, Stamp([versions[v] EXCEPT !.sourceDocx = c], e))
          PROVE  Effect(v)
      <3> DEFINE t == Stamp([versions[v] EXCEPT !.sourceDocx = c], e)
      <3>1. StoreVersion(v, t)
        BY <2>2
      <3>2. t.supersededBy = versions[v].supersededBy
        BY <1>1 DEF Stamp, DocumentVersionState
      <3> HIDE DEF t
      <3>3. QED
        BY <1>2, <3>1, <3>2
    <2>3. ASSUME ~Exists(v), StoreVersion(v, Stamp([NewVersion(u) EXCEPT !.sourceDocx = c], e))
          PROVE  Effect(v)
      BY <1>2, <2>3
    <2>4. QED
      BY <1>3, <2>1, <2>2, <2>3 DEF ImportExistingDocx, CreateFromTemplate
  <1>4. ASSUME NEW new \in AssignmentChoices, AssignWorkflowRoles(u, v, new, e)
        PROVE  Effect(v)
    <2> DEFINE t == Stamp([versions[v] EXCEPT !.assignments = new], e)
    <2>1. StoreVersion(v, t)
      BY <1>4 DEF AssignWorkflowRoles
    <2>2. t.supersededBy = versions[v].supersededBy
      BY <1>1 DEF Stamp, DocumentVersionState
    <2> HIDE DEF t
    <2>3. QED
      BY <1>2, <2>1, <2>2
  <1>5. ASSUME NEW p \in Profiles, StartWorkflow(u, v, p, e)
        PROVE  Effect(v)
    <2> DEFINE t == Stamp([versions[v] EXCEPT !.status = "IN_PROGRESS",
                                              !.workflowActive = TRUE, !.profile = p,
                                              !.reviewedBy = {}], e)
    <2>1. StoreVersion(v, t)
      BY <1>5 DEF StartWorkflow
    <2>2. t.supersededBy = versions[v].supersededBy
      BY <1>1 DEF Stamp, DocumentVersionState
    <2> HIDE DEF t
    <2>3. QED
      BY <1>2, <2>1, <2>2
  <1>6. CASE CompleteEditing(u, v, e) \/ AcceptReview(u, v, e)
    <2>1. versions'[v].supersededBy = versions[v].supersededBy
      BY <1>6, CompleteEditingKeeps, AcceptReviewKeeps
    <2>2. \E t : StoreVersion(v, t)
      BY <1>6 DEF CompleteEditing, AcceptReview
    <2>3. QED
      BY <1>1, <2>1, <2>2, SingleEffect
  <1>7. CASE RejectReview(u, v, e) \/ RejectApproval(u, v, e) \/ AbortWorkflow(u, v, e)
    <2>1. CASE RejectReview(u, v, e) \/ RejectApproval(u, v, e)
      <3> DEFINE t == Stamp([versions[v] EXCEPT !.status = "IN_PROGRESS"], e)
      <3>1. StoreVersion(v, t)
        BY <2>1 DEF RejectReview, RejectApproval
      <3>2. t.supersededBy = versions[v].supersededBy
        BY <1>1 DEF Stamp, DocumentVersionState
      <3> HIDE DEF t
      <3>3. QED
        BY <1>2, <3>1, <3>2
    <2>2. CASE AbortWorkflow(u, v, e)
      <3> DEFINE t == Stamp([versions[v] EXCEPT !.status = "PLANNED",
                                                !.workflowActive = FALSE], e)
      <3>1. StoreVersion(v, t)
        BY <2>2 DEF AbortWorkflow
      <3>2. t.supersededBy = versions[v].supersededBy
        BY <1>1 DEF Stamp, DocumentVersionState
      <3> HIDE DEF t
      <3>3. QED
        BY <1>2, <3>1, <3>2
    <2>3. QED
      BY <1>7, <2>1, <2>2
  <1>8. CASE ArchiveApproved(u, v, e) \/ ExtendAnnualValidity(u, v, e)
    <2>1. CASE ArchiveApproved(u, v, e)
      <3> DEFINE t == Stamp([versions[v] EXCEPT !.status = "ARCHIVED",
                                                !.workflowActive = FALSE,
                                                !.archivedBy = u], e)
      <3>1. StoreVersion(v, t)
        BY <2>1 DEF ArchiveApproved
      <3>2. t.supersededBy = versions[v].supersededBy
        BY <1>1 DEF Stamp, DocumentVersionState
      <3> HIDE DEF t
      <3>3. QED
        BY <1>2, <3>1, <3>2
    <2>2. CASE ExtendAnnualValidity(u, v, e)
      <3> DEFINE t == Stamp([versions[v] EXCEPT
                                !.signedPdf = SignatureInput(versions[v], "EXTEND_VALIDITY"),
                                !.extensionCount = @ + 1], e)
      <3>1. StoreVersion(v, t)
        BY <2>2 DEF ExtendAnnualValidity
      <3>2. t.supersededBy = versions[v].supersededBy
        BY <1>1 DEF Stamp, DocumentVersionState
      <3> HIDE DEF t
      <3>3. QED
        BY <1>2, <3>1, <3>2
    <2>3. QED
      BY <1>8, <2>1, <2>2
  <1>9. CASE UpdateVersionMetadata(u, v, e) \/ AddChangeRequest(u, v, e)
    <2> DEFINE t == Stamp(versions[v], e)
    <2>1. StoreVersion(v, t)
      BY <1>9 DEF UpdateVersionMetadata, AddChangeRequest
    <2>2. t.supersededBy = versions[v].supersededBy
      BY <1>1 DEF Stamp, DocumentVersionState
    <2> HIDE DEF t
    <2>3. QED
      BY <1>2, <2>1, <2>2
  <1>10. QED
    BY <1>3, <1>4, <1>5, <1>6, <1>7, <1>8, <1>9

\* A release archives the other approved version and is itself the approved one.
LEMMA ReleaseEffect ==
  ASSUME IInv, NEW u \in Users, NEW v \in VersionNumbers, NEW e \in EventIds,
         AcceptApproval(u, v, e)
  PROVE  Effect(v)
  <1> DEFINE s == Sign(versions[v], "IN_APPROVAL->APPROVED")
             a == ApprovalAccepted(s, u)
  <1>1. /\ UniqueApproved(versions')
        /\ versions' = [SupersedeOtherApproved(versions, v, u) EXCEPT ![v] = Stamp(a, e)]
    BY DEF AcceptApproval, Store
  <1>2. versions[v] \in DocumentVersionState
    BY DEF IInv, TypeOK
  <1>3. s \in DocumentVersionState /\ s = [versions[v] EXCEPT !.signedPdf = s.signedPdf]
    BY <1>2, SignRow DEF SignatureTransitions
  <1>4. s.supersededBy = versions[v].supersededBy
    BY <1>2, <1>3 DEF DocumentVersionState
  <1> HIDE DEF s
  <1>5. a.status = "APPROVED" /\ a.supersededBy = s.supersededBy
    BY <1>3 DEF ApprovalAccepted, WithReleasedPdf, DocumentVersionState
  <1>6. a \in DocumentVersionState
    <2> DEFINE g == [s EXCEPT !.status = "APPROVED", !.approvalCompletedBy = u,
                              !.released = TRUE, !.workflowActive = FALSE]
    <2>1. g \in DocumentVersionState
      BY <1>3, RowFields DEF DocumentStatus
    <2>2. QED
      BY <2>1, ReleasedPdfRow DEF ApprovalAccepted
  <1> HIDE DEF a
  <1>7. versions'[v] = Stamp(a, e)
    BY <1>1 DEF SupersedeOtherApproved
  <1>8. versions'[v].status = "APPROVED" /\ versions'[v].supersededBy = versions[v].supersededBy
    BY <1>4, <1>5, <1>6, <1>7, StampRow
  <1>9. QED
    BY <1>1, <1>8 DEF Effect, Successor

LEMMA NewVersionEffect ==
  ASSUME IInv, NEW u \in Users, NEW v \in VersionNumbers, NEW next \in VersionNumbers,
         NEW e \in EventIds, CreateNewVersionAfterArchive(u, v, next, e)
  PROVE  Effect(v)
  <1> DEFINE old == [versions[v] EXCEPT !.supersededBy = next]
             new == NewVersion(versions[v].owner)
  <1>1. next # v /\ versions[next].status = "ABSENT"
    BY VersionAssumption DEF CreateNewVersionAfterArchive, Exists
  <1>2. /\ UniqueApproved(versions')
        /\ versions' = [versions EXCEPT ![v] = Stamp(old, e), ![next] = Stamp(new, e)]
    BY DEF CreateNewVersionAfterArchive, Store
  <1>3. versions \in [VersionNumbers -> DocumentVersionState]
    BY DEF IInv, TypeOK
  <1>4. Stamp(old, e).supersededBy = next
    BY <1>3 DEF Stamp, DocumentVersionState
  <1>5. Stamp(new, e).status = "PLANNED"
    BY DEF Stamp, NewVersion
  <1>6. versions'[v] = Stamp(old, e) /\ versions'[next] = Stamp(new, e)
    BY <1>1, <1>2, <1>3
  <1>7. \A w \in VersionNumbers : w # v /\ w # next => versions'[w] = versions[w]
    BY <1>2, <1>3
  <1> HIDE DEF old, new
  <1>8. QED
    BY <1>1, <1>2, <1>4, <1>5, <1>6, <1>7 DEF Effect, Successor

LEMMA OperationEffect ==
  ASSUME IInv, NEW u \in Users, NEW v \in VersionNumbers, Operates(u, v)
  PROVE  IInv' /\ Effect(v) /\ Final
  <1>1. Next
    BY DEF Operates, Next
  <1>2. IInv' /\ Final
    BY <1>1, NextInv, NextFinal
  <1>3. Effect(v)
    <2>1. TypeOK /\ versions[v] \in DocumentVersionState
      BY DEF IInv, TypeOK
    <2>2. ASSUME NEW owner \in Users, CreateDocumentVersion(u, v, owner) PROVE Effect(v)
      BY <2>1, <2>2, SingleEffect DEF CreateDocumentVersion
    <2>3. CASE EnsureSourcePdf(u, v)
      <3>1. WithSourcePdf(versions[v]).supersededBy = versions[v].supersededBy
        BY <2>1 DEF WithSourcePdf, DocumentVersionState
      <3>2. StoreVersion(v, WithSourcePdf(versions[v]))
        BY <2>3 DEF EnsureSourcePdf
      <3>3. QED
        BY <2>1, <3>1, <3>2, StoreWritesOne, SingleEffect
    <2>4. ASSUME NEW e \in EventIds,
                 (\E c \in Contents : CreateFromTemplate(u, v, c, e)) \/ VersionMutation(u, v, e)
          PROVE  Effect(v)
      BY <2>4, SingleOperations, ReleaseEffect, NewVersionEffect DEF VersionMutation
    <2>5. QED
      BY <2>2, <2>3, <2>4 DEF Operates
  <1>4. QED
    BY <1>2, <1>3

-----------------------------------------------------------------------------
(* The registry entry *)

\* What is proved inductive.  The rows an operation sees and the committed
\* rows differ only while it runs; both must agree with the entry, because a
\* rollback makes the committed ones current again.
RInv ==
    /\ RowsOK(versions) /\ UniqueApproved(versions)
    /\ RowsOK(committed) /\ UniqueApproved(committed)
    /\ inTxn \in BOOLEAN /\ rolledBack \in BOOLEAN
    /\ registry \in [active : VersionNumbers \cup {0}, state : RegisterStates \cup {None},
                     findable : BOOLEAN]
    /\ ~inTxn => versions = committed
    /\ ~rolledBack => ApprovedVersions(versions) = IF registry.active = 0 THEN {}
                                                   ELSE {registry.active}
    /\ \A v \in VersionNumbers :
          versions[v].status = "ARCHIVED" \/ committed[v].status = "ARCHIVED"
             => registry.active # v

LEMMA RegisterStateType ==
  ASSUME NEW status
  PROVE  /\ MapRegisterState(status).state \in RegisterStates
         /\ MapRegisterState(status).findable \in BOOLEAN
  BY DEF MapRegisterState, RegisterStates

\* The entry after an operation on v.
LEMMA SyncedEntry ==
  ASSUME NEW v \in VersionNumbers, Effect(v),
         registry \in [active : VersionNumbers \cup {0}, state : RegisterStates \cup {None},
                       findable : BOOLEAN]
  PROVE  /\ SyncRegistry(v) \in [active : VersionNumbers \cup {0},
                                 state : RegisterStates \cup {None}, findable : BOOLEAN]
         /\ SyncRegistry(v).active = IF versions'[v].status = "APPROVED" THEN v
                                     ELSE IF versions'[v].status = "ARCHIVED"
                                             /\ registry.active = v THEN 0
                                     ELSE registry.active
  <1> DEFINE reported  == ApplyDocumentsState(registry, v, versions'[v].status)
             successor == versions'[v].supersededBy
             second    == ApplyDocumentsState(reported, successor, versions'[successor].status)
  <1>1. /\ reported \in [active : VersionNumbers \cup {0}, state : RegisterStates \cup {None},
                         findable : BOOLEAN]
        /\ reported.active = IF versions'[v].status = "APPROVED" THEN v
                             ELSE IF versions'[v].status = "ARCHIVED"
                                     /\ registry.active = v THEN 0
                             ELSE registry.active
    BY RegisterStateType DEF ApplyDocumentsState
  <1>2. CASE Successor(v)
    <2>1. versions'[successor].status = "PLANNED"
      BY <1>2 DEF Effect
    <2>2. SyncRegistry(v) = second
      BY <1>2 DEF SyncRegistry, Successor
    <2> HIDE DEF reported, successor
    <2>3. /\ second \in [active : VersionNumbers \cup {0}, state : RegisterStates \cup {None},
                         findable : BOOLEAN]
          /\ second.active = reported.active
      BY <1>1, <2>1, RegisterStateType DEF ApplyDocumentsState
    <2> HIDE DEF second
    <2>4. QED
      BY <1>1, <2>2, <2>3
  <1>3. CASE ~Successor(v)
    <2>1. SyncRegistry(v) = reported
      BY <1>3 DEF SyncRegistry, Successor
    <2> HIDE DEF reported
    <2>2. QED
      BY <1>1, <2>1
  <1>4. QED
    BY <1>2, <1>3

LEMMA OperationKeepsRInv ==
  ASSUME RInv, NEW u \in Users, NEW v \in VersionNumbers, Operation(u, v)
  PROVE  RInv'
  <1>1. /\ ~inTxn /\ inTxn' = TRUE
        /\ committed' = committed /\ rolledBack' = rolledBack
        /\ registry' = SyncRegistry(v)
        /\ Operates(u, v)
    BY DEF Operation, Operates
  <1>2. IInv /\ versions = committed /\ v # 0
    BY <1>1, RowsOfIInv, VersionAssumption DEF RInv
  <1>3. IInv' /\ Effect(v) /\ Final
    BY <1>1, <1>2, OperationEffect
  <1>4. RowsOK(versions)'
    BY <1>3 DEF IInv, RowsOK, TypeOK, SupersessionSound, Exists
  <1>5. /\ registry' \in [active : VersionNumbers \cup {0}, state : RegisterStates \cup {None},
                          findable : BOOLEAN]
        /\ registry'.active = IF versions'[v].status = "APPROVED" THEN v
                              ELSE IF versions'[v].status = "ARCHIVED"
                                      /\ registry.active = v THEN 0
                              ELSE registry.active
    BY <1>1, <1>3, SyncedEntry DEF RInv
  <1>6. UniqueApproved(versions)'
    BY <1>3 DEF Effect, UniqueApproved
  <1>7. /\ versions[v].status = "APPROVED" => versions'[v].status \in {"APPROVED", "ARCHIVED"}
        /\ \A w \in VersionNumbers :
              versions[w].status = "ARCHIVED" => versions'[w].status = "ARCHIVED"
    BY <1>3 DEF Final, RowFinal, Released
  <1>8. \A w \in VersionNumbers :
           versions'[w].status = "ARCHIVED" => registry'.active # w
    <2>1. CASE versions'[v].status = "APPROVED"
      BY <1>5, <2>1
    <2>2. CASE versions'[v].status # "APPROVED"
      <3>1. \A w \in VersionNumbers : w # v /\ versions'[w].status = "ARCHIVED"
                                         => registry.active # w
        BY <1>3, <2>2 DEF Effect, RInv
      <3>2. QED
        BY <1>2, <1>5, <2>2, <3>1, VersionAssumption
    <2>3. QED
      BY <2>1, <2>2
  <1>9. ASSUME ~rolledBack
        PROVE  ApprovedVersions(versions)' = IF registry'.active = 0 THEN {}
                                             ELSE {registry'.active}
    <2>1. ApprovedVersions(versions) = IF registry.active = 0 THEN {} ELSE {registry.active}
      BY <1>9 DEF RInv
    <2>2. CASE versions'[v].status = "APPROVED"
      <3>1. ApprovedVersions(versions)' = {v}
        BY <1>6, <2>2 DEF ApprovedVersions, UniqueApproved
      <3>2. QED
        BY <1>2, <1>5, <2>2, <3>1
    <2>3. CASE versions'[v].status # "APPROVED"
      <3>1. ApprovedVersions(versions)' = ApprovedVersions(versions) \ {v}
        BY <1>3, <2>3 DEF ApprovedVersions, Effect
      <3>2. CASE versions[v].status = "APPROVED"
        <4>1. registry.active = v
          BY <2>1, <3>2 DEF ApprovedVersions
        <4>2. registry'.active = 0
          BY <1>5, <1>7, <2>3, <3>2, <4>1
        <4>3. QED
          BY <2>1, <3>1, <4>1, <4>2
      <3>3. CASE versions[v].status # "APPROVED"
        <4>1. registry.active # v
          BY <1>2, <2>1, <3>3 DEF ApprovedVersions
        <4>2. registry'.active = registry.active
          BY <1>5, <2>3, <4>1
        <4>3. ApprovedVersions(versions) \ {v} = ApprovedVersions(versions)
          BY <3>3 DEF ApprovedVersions
        <4>4. QED
          BY <2>1, <3>1, <4>2, <4>3
      <3>4. QED
        BY <3>2, <3>3
    <2>4. QED
      BY <2>2, <2>3
  <1>10. \A w \in VersionNumbers : committed[w].status = "ARCHIVED" => registry'.active # w
    BY <1>2, <1>7, <1>8
  <1>11. RowsOK(committed)' /\ UniqueApproved(committed)'
    BY <1>1 DEF RInv, RowsOK, UniqueApproved
  <1>12. QED
    BY <1>1, <1>4, <1>5, <1>6, <1>8, <1>9, <1>10, <1>11 DEF RInv

\* Rebuilding from the committed rows: the highest approved version is the only one.
LEMMA RebuiltActive ==
  ASSUME UniqueApproved(committed)
  PROVE  ApprovedVersions(committed) = IF RebuiltEntry(committed).active = 0 THEN {}
                                       ELSE {RebuiltEntry(committed).active}
  <1> DEFINE S == ApprovedVersions(committed)
  <1>1. RebuiltEntry(committed).active = IF S # {} THEN Max(S) ELSE 0
    BY DEF RebuiltEntry
  <1>2. CASE S = {}
    BY <1>1, <1>2
  <1>3. CASE S # {}
    <2>1. PICK x \in S : TRUE
      BY <1>3
    <2>2. S = {x} /\ x \in Nat \ {0}
      BY <2>1, VersionAssumption DEF ApprovedVersions, UniqueApproved
    <2>3. Max(S) = x
      BY <2>2 DEF Max
    <2>4. QED
      BY <1>1, <2>2, <2>3
  <1>4. QED
    BY <1>2, <1>3

LEMMA RebuildKeepsRInv ==
  ASSUME RInv, RebuildRegistryFromDocuments
  PROVE  RInv'
  <1>1. /\ ~inTxn /\ registry' = RebuiltEntry(committed)
        /\ versions' = versions /\ committed' = committed /\ inTxn' = inTxn
        /\ rolledBack' = FALSE
    BY DEF RebuildRegistryFromDocuments
  <1>2. versions = committed
    BY <1>1 DEF RInv
  <1>3. ApprovedVersions(committed) = IF registry'.active = 0 THEN {} ELSE {registry'.active}
    BY <1>1, RebuiltActive DEF RInv
  <1>4. registry'.active \in VersionNumbers \cup {0}
    BY <1>3 DEF ApprovedVersions
  <1>5. registry' \in [active : VersionNumbers \cup {0}, state : RegisterStates \cup {None},
                       findable : BOOLEAN]
    BY <1>1, <1>4, RegisterStateType DEF RebuiltEntry
  <1>6. \A w \in VersionNumbers : committed[w].status = "ARCHIVED" => registry'.active # w
    BY <1>3, VersionAssumption DEF ApprovedVersions
  <1>7. RowsOK(versions)' /\ UniqueApproved(versions)' /\ RowsOK(committed)'
        /\ UniqueApproved(committed)'
    BY <1>1 DEF RInv, RowsOK, UniqueApproved
  <1>8. ApprovedVersions(versions)' = ApprovedVersions(committed)
    BY <1>1, <1>2 DEF ApprovedVersions
  <1>9. QED
    BY <1>1, <1>2, <1>3, <1>5, <1>6, <1>7, <1>8 DEF RInv

LEMMA RegistryStart ==
  ASSUME RegistryInit
  PROVE  RInv
  <1>1. IInv
    BY InitInv DEF RegistryInit
  <1>2. \A v \in VersionNumbers : versions[v].status = "ABSENT"
    BY AbsentRow DEF RegistryInit, Init
  <1>3. registry.active = 0 /\ ApprovedVersions(versions) = {}
    BY <1>2 DEF RegistryInit, NoEntry, ApprovedVersions
  <1>4. registry \in [active : VersionNumbers \cup {0}, state : RegisterStates \cup {None},
                      findable : BOOLEAN]
    BY DEF RegistryInit, NoEntry
  <1>5. committed = versions /\ UniqueApproved(versions)
    BY <1>2 DEF RegistryInit, UniqueApproved
  <1>6. QED
    BY <1>1, <1>2, <1>3, <1>4, <1>5, RowsOfIInv DEF RInv, RegistryInit

LEMMA RegistryStep ==
  ASSUME RInv, [RegistryNext]_registryVars
  PROVE  RInv'
  <1>1. CASE \E u \in Users, v \in VersionNumbers : Operation(u, v)
    BY <1>1, OperationKeepsRInv
  <1>2. CASE Commit
    <2>1. /\ committed' = versions /\ inTxn' = FALSE /\ versions' = versions
          /\ registry' = registry /\ rolledBack' = rolledBack
      BY <1>2 DEF Commit
    <2>2. QED
      BY <2>1 DEF RInv, RowsOK, UniqueApproved, ApprovedVersions
  <1>3. CASE Rollback
    <2>1. /\ versions' = committed /\ inTxn' = FALSE /\ committed' = committed
          /\ registry' = registry /\ rolledBack' = TRUE
      BY <1>3 DEF Rollback
    <2>2. QED
      BY <2>1 DEF RInv, RowsOK, UniqueApproved
  <1>4. CASE RebuildRegistryFromDocuments
    BY <1>4, RebuildKeepsRInv
  <1>5. CASE UNCHANGED registryVars
    <2>1. /\ versions' = versions /\ inTxn' = inTxn /\ committed' = committed
          /\ registry' = registry /\ rolledBack' = rolledBack
      BY <1>5 DEF registryVars
    <2>2. QED
      BY <2>1 DEF RInv, RowsOK, UniqueApproved, ApprovedVersions
  <1>6. QED
    BY <1>1, <1>2, <1>3, <1>4, <1>5 DEF RegistryNext

\* RInv holds in every state of the registry specification: after every operation
\* of the workflow, commit, rollback and rebuild of the entry.
THEOREM RegistryInvariance == RegistrySpec => []RInv
  <1>1. RegistryInit => RInv
    BY RegistryStart
  <1>2. RInv /\ [RegistryNext]_registryVars => RInv'
    BY RegistryStep
  <1>3. QED
    BY <1>1, <1>2, PTL DEF RegistrySpec

\* The rows that are seen and the committed ones are well-formed, and the entry
\* holds a register state and a version number or none.
THEOREM RegistryTypeCorrect == RegistrySpec => []RegistryTypeOK
  <1>1. RInv => RegistryTypeOK
    BY DEF RInv, RegistryTypeOK, RowsOK, TypeOK
  <1>2. QED
    BY <1>1, RegistryInvariance, PTL

\* Unless a rollback left the entry behind (_sync_registry commits through a
\* connection of its own), the entry names the one APPROVED version, or none.
THEOREM RegistryNamesApproved == RegistrySpec => []ActiveIsApproved
  <1>1. RInv => ActiveIsApproved
    BY DEF RInv, ActiveIsApproved, ApprovedVersions
  <1>2. QED
    BY <1>1, RegistryInvariance, PTL

\* No archived version is ever the active one, also after a rollback of the
\* operation that wrote the entry.
THEOREM NoArchivedActive == RegistrySpec => []ArchivedNeverActive
  <1>1. RInv => ArchivedNeverActive
    BY DEF RInv, ArchivedNeverActive
  <1>2. QED
    BY <1>1, RegistryInvariance, PTL

-----------------------------------------------------------------------------
(* Comments *)

\* What the numbers of comments rest on: a number made in the application is at
\* most the number of comments there are, one of the Word file at most the
\* highest so far.
NumbersInv ==
    /\ Len(comments) <= MaxComments
    /\ \A i \in DOMAIN comments :
          /\ comments[i].ref <= Len(comments)
          /\ IF comments[i].word = None
             THEN comments[i].ref <= Cardinality(Rows(comments[i].version, comments[i].context))
             ELSE comments[i].context = "DOCX_EDIT"

\* What the token rests on: no row and no view is younger than the last write.
TokenInv ==
    /\ \A i \in DOMAIN comments : comments[i].updatedAt <= writes
    /\ view # None => view.row.updatedAt <= writes

CInv ==
    /\ CommentsTypeOK
    /\ NumbersInv /\ RefNosUnique
    /\ TokenInv /\ TokenMeansSeen

LEMMA LeastNatural ==
  ASSUME NEW A, A \subseteq Nat, A # {}
  PROVE  \E n \in A : \A m \in A : n <= m
  <1>1. PICK n \in A : \A m \in A : ~(<<m, n>> \in OpToRel(<, Nat))
    BY NatLessThanWellFounded, WFMin
  <1>2. ASSUME NEW m \in A PROVE n <= m
    <2> SUFFICES ASSUME m < n PROVE FALSE
      OBVIOUS
    <2>1. <<m, n>> \in {ss \in Nat \X Nat : ss[1] < ss[2]}
      OBVIOUS
    <2>2. QED
      BY <1>1, <2>1 DEF OpToRel
  <1>3. QED
    BY <1>2

\* The k-th place is a place, for every k up to their number.
LEMMA NthPlace ==
  ASSUME NEW n \in Nat, NEW S, S \subseteq 1..n, NEW k \in 1..Cardinality(S)
  PROVE  Nth(S, k) \in S
  <1> DEFINE U(m) == {j \in S : j <= m}
             C == [m \in 0..n |-> Cardinality(U(m))]
             A == {m \in 0..n : C[m] >= k}
  <1>1. IsFiniteSet(S) /\ \A m \in 0..n : IsFiniteSet(U(m))
    <2>1. IsFiniteSet(1..n)
      BY FS_Interval
    <2>2. S \in SUBSET (1..n) /\ \A m \in 0..n : U(m) \in SUBSET (1..n)
      OBVIOUS
    <2> HIDE DEF U
    <2>3. QED
      BY <2>1, <2>2, FS_Subset
  <1>2. \A m \in 1..n : /\ m - 1 \in 0..n
                        /\ m \notin U(m - 1)
                        /\ m \in S => U(m) = U(m - 1) \cup {m}
                        /\ m \notin S => U(m) = U(m - 1)
    <2> TAKE m \in 1..n
    <2>1. m - 1 \in 0..n /\ \A j \in S : j \in Int
      OBVIOUS
    <2>2. \A j \in S : j <= m <=> j <= m - 1 \/ j = m
      BY <2>1
    <2>3. ~(m <= m - 1)
      BY <2>1
    <2>4. QED
      BY <2>1, <2>2, <2>3, Zenon
  <1>3. U(n) = S /\ U(0) = {}
    <2>1. \A j \in S : j <= n /\ ~(j <= 0)
      OBVIOUS
    <2>2. QED
      BY <2>1, Zenon
  <1> HIDE DEF U
  <1>4. C[n] = Cardinality(S) /\ C[0] = 0 /\ Cardinality(S) \in Nat
    BY <1>1, <1>3, FS_EmptySet, FS_CardinalityType
  <1>5. \A m \in 0..n : C[m] = Cardinality(U(m)) /\ C[m] \in Nat
    BY <1>1, FS_CardinalityType
  <1>6. \A m \in 1..n : C[m] = IF m \in S THEN C[m - 1] + 1 ELSE C[m - 1]
    <2> TAKE m \in 1..n
    <2>1. m - 1 \in 0..n /\ m \in 0..n
      BY <1>2
    <2>2. CASE m \in S
      <3>1. Cardinality(U(m - 1) \cup {m}) = Cardinality(U(m - 1)) + 1
        BY <1>1, <1>2, <2>1, FS_AddElement
      <3>2. QED
        BY <1>2, <1>5, <2>1, <2>2, <3>1
    <2>3. CASE m \notin S
      BY <1>2, <1>5, <2>1, <2>3
    <2>4. QED
      BY <2>2, <2>3
  <1> HIDE DEF C
  <1>7. n \in A /\ 0 \notin A /\ A \subseteq Nat
    BY <1>4
  <1>8. PICK p \in A : \A m \in A : p <= m
    <2> HIDE DEF A
    <2> QED
      BY <1>7, LeastNatural
  <1>9. p \in 1..n /\ p - 1 \in 0..n /\ p - 1 \notin A
    BY <1>7, <1>8
  <1>10. C[p - 1] < k /\ C[p] >= k /\ C[p - 1] \in Nat /\ C[p] \in Nat /\ k \in Nat
    BY <1>5, <1>8, <1>9
  <1>11. p \in S /\ C[p] = k
    BY <1>6, <1>9, <1>10
  <1>12. Cardinality({j \in S : j <= p}) = k
    BY <1>5, <1>9, <1>11 DEF U
  <1>13. QED
    BY <1>11, <1>12 DEF Nth

\* A writing operation leaves the old rows in their places, rewrites some of them
\* and puts new ones behind them.
Extends(old, added) ==
    /\ old \in Seq(WorkflowCommentRecord)
    /\ added \in Seq(WorkflowCommentRecord)
    /\ Len(old) = Len(comments)
    /\ Len(comments) + Len(added) <= MaxComments
    /\ comments' = old \o added
    /\ writes < MaxWrites
    /\ writes' = writes + 1
    /\ view' = view
    /\ \A i \in DOMAIN comments :
          /\ old[i].version = comments[i].version
          /\ old[i].context = comments[i].context
          /\ old[i].word = comments[i].word
          /\ old[i].ref = comments[i].ref
          /\ old[i] = comments[i] \/ old[i].updatedAt = writes + 1
    /\ \A k \in DOMAIN added : added[k].updatedAt = writes + 1

\* The new rows are rows of one version and context, numbered from base upwards.
Numbered(added, v, context, base) ==
    /\ base \in Nat /\ base <= Len(comments)
    /\ \A k \in DOMAIN added :
          /\ added[k].version = v /\ added[k].context = context
          /\ added[k].ref = base + k
          /\ IF added[k].word = None
             THEN base + k <= Cardinality(Rows(v, context)')
             ELSE context = "DOCX_EDIT"
          /\ \A i \in Rows(v, context) :
                (comments[i].word = None) = (added[k].word = None) => comments[i].ref <= base

LEMMA ExtendedShape ==
  ASSUME CInv, NEW old, NEW added, Extends(old, added)
  PROVE  /\ Len(comments) \in Nat /\ Len(added) \in Nat
         /\ DOMAIN comments = 1..Len(comments) /\ DOMAIN added = 1..Len(added)
         /\ comments' \in Seq(WorkflowCommentRecord)
         /\ Len(comments') = Len(comments) + Len(added)
         /\ DOMAIN comments' = 1..(Len(comments) + Len(added))
         /\ \A i \in 1..Len(comments) : comments'[i] = old[i]
         /\ \A i \in (Len(comments) + 1)..(Len(comments) + Len(added)) :
               i - Len(comments) \in 1..Len(added) /\ comments'[i] = added[i - Len(comments)]
  <1>1. comments \in Seq(WorkflowCommentRecord)
    BY DEF CInv, CommentsTypeOK
  <1>2. /\ old \in Seq(WorkflowCommentRecord) /\ added \in Seq(WorkflowCommentRecord)
        /\ Len(old) = Len(comments) /\ comments' = old \o added
    BY DEF Extends
  <1>3. /\ Len(comments) \in Nat /\ Len(added) \in Nat
        /\ DOMAIN comments = 1..Len(comments) /\ DOMAIN added = 1..Len(added)
    BY <1>1, <1>2, LenProperties
  <1>4. /\ comments' \in Seq(WorkflowCommentRecord)
        /\ Len(comments') = Len(comments) + Len(added)
        /\ \A i \in 1..(Len(comments) + Len(added)) :
              comments'[i] = IF i <= Len(comments) THEN old[i] ELSE added[i - Len(comments)]
    <2>1. /\ old \o added \in Seq(WorkflowCommentRecord)
          /\ Len(old \o added) = Len(old) + Len(added)
          /\ \A i \in 1..(Len(old) + Len(added)) :
                (old \o added)[i] = IF i <= Len(old) THEN old[i] ELSE added[i - Len(old)]
      BY <1>2, ConcatProperties
    <2>2. QED
      BY <1>2, <2>1, Zenon
  <1>5. DOMAIN comments' = 1..(Len(comments) + Len(added))
    BY <1>4, LenProperties
  <1>6. QED
    BY <1>3, <1>4, <1>5

LEMMA ExtendedToken ==
  ASSUME CInv, NEW old, NEW added, Extends(old, added)
  PROVE  CommentsTypeOK' /\ TokenInv' /\ TokenMeansSeen'
  <1>1. /\ writes \in Nat /\ MaxWrites \in Nat /\ writes' = writes + 1 /\ writes' \in 0..MaxWrites
        /\ view' = view
    BY CommentAssumption DEF Extends, CInv, CommentsTypeOK
  <1>2. DOMAIN comments \subseteq DOMAIN comments'
    BY ExtendedShape
  <1>3. CommentsTypeOK'
    BY <1>1, <1>2, ExtendedShape DEF CInv, CommentsTypeOK
  <1>4. \A i \in DOMAIN comments : comments'[i] = comments[i] \/ comments'[i].updatedAt = writes'
    BY <1>1, ExtendedShape DEF Extends
  <1>5. \A i \in DOMAIN comments' \ DOMAIN comments : comments'[i].updatedAt = writes'
    BY <1>1, ExtendedShape DEF Extends
  <1>6. \A i \in DOMAIN comments : comments[i].updatedAt \in Nat /\ comments[i].updatedAt <= writes
    <2>1. \A i \in DOMAIN comments : comments[i] \in WorkflowCommentRecord
      BY LenProperties DEF CInv, CommentsTypeOK
    <2>2. QED
      BY <2>1 DEF CInv, TokenInv, WorkflowCommentRecord
  <1>7. view # None => /\ view.at \in DOMAIN comments /\ view.row.updatedAt \in Nat
                       /\ view.row.updatedAt <= writes
    BY DEF CInv, CommentsTypeOK, TokenInv, WorkflowCommentRecord
  <1>8. TokenInv'
    BY <1>1, <1>4, <1>5, <1>6, <1>7 DEF TokenInv
  <1>9. TokenMeansSeen'
    BY <1>1, <1>4, <1>6, <1>7 DEF TokenMeansSeen, CInv
  <1>10. QED
    BY <1>3, <1>8, <1>9

LEMMA ExtendedNumbers ==
  ASSUME CInv, NEW old, NEW added, Extends(old, added),
         NEW v, NEW context, NEW base, Numbered(added, v, context, base)
  PROVE  NumbersInv' /\ RefNosUnique'
  <1> DEFINE n == Len(comments)
             m == Len(added)
  <1>1. /\ n \in Nat /\ m \in Nat /\ base \in Nat /\ base <= n /\ n + m <= MaxComments
        /\ MaxComments \in Nat
    BY ExtendedShape, CommentAssumption DEF Extends, Numbered
  <1>2. DOMAIN comments = 1..n /\ DOMAIN comments' = 1..(n + m) /\ Len(comments') = n + m
    BY ExtendedShape
  <1>3. \A i \in 1..n : /\ comments'[i].version = comments[i].version
                        /\ comments'[i].context = comments[i].context
                        /\ comments'[i].word = comments[i].word
                        /\ comments'[i].ref = comments[i].ref
                        /\ comments[i].ref \in Nat /\ comments[i].ref <= n
    <2>1. \A i \in 1..n : comments[i] \in WorkflowCommentRecord
      BY LenProperties DEF CInv, CommentsTypeOK
    <2>2. \A i \in 1..n : comments[i].ref \in Nat /\ comments[i].ref <= n
      BY <1>2, <2>1 DEF CInv, NumbersInv, WorkflowCommentRecord
    <2>3. \A i \in 1..n : comments'[i] = old[i]
      BY ExtendedShape
    <2>4. \A i \in DOMAIN comments : /\ old[i].version = comments[i].version
                                     /\ old[i].context = comments[i].context
                                     /\ old[i].word = comments[i].word
                                     /\ old[i].ref = comments[i].ref
      BY DEF Extends
    <2>5. QED
      BY <1>2, <2>2, <2>3, <2>4, Zenon
  <1>4. \A i \in (n + 1)..(n + m) :
           /\ i - n \in 1..m
           /\ comments'[i].version = v /\ comments'[i].context = context
           /\ comments'[i].ref = base + (i - n)
           /\ IF comments'[i].word = None
              THEN comments'[i].ref <= Cardinality(Rows(v, context)')
              ELSE context = "DOCX_EDIT"
           /\ \A j \in Rows(v, context) :
                 (comments[j].word = None) = (comments'[i].word = None) => comments[j].ref <= base
    <2> SUFFICES ASSUME NEW i \in (n + 1)..(n + m)
                 PROVE  /\ i - n \in 1..m
                        /\ comments'[i].version = v /\ comments'[i].context = context
                        /\ comments'[i].ref = base + (i - n)
                        /\ IF comments'[i].word = None
                           THEN comments'[i].ref <= Cardinality(Rows(v, context)')
                           ELSE context = "DOCX_EDIT"
                        /\ \A j \in Rows(v, context) :
                              (comments[j].word = None) = (comments'[i].word = None)
                                 => comments[j].ref <= base
      OBVIOUS
    <2>1. i - n \in 1..m /\ DOMAIN added = 1..m /\ comments'[i] = added[i - n]
      BY ExtendedShape
    <2>2. PICK k \in 1..m : k = i - n /\ k \in DOMAIN added /\ comments'[i] = added[k]
      BY <2>1, Zenon
    <2>3. QED
      BY <2>1, <2>2, Zenon DEF Numbered
  <1>5. ASSUME NEW w, NEW x
        PROVE  /\ Rows(w, x) \subseteq Rows(w, x)'
               /\ Cardinality(Rows(w, x)) \in Nat /\ Cardinality(Rows(w, x)') \in Nat
               /\ Cardinality(Rows(w, x)) <= Cardinality(Rows(w, x)')
    <2>1. Rows(w, x) \subseteq Rows(w, x)' /\ Rows(w, x)' \subseteq 1..(n + m)
      BY <1>1, <1>2, <1>3 DEF Rows
    <2>2. IsFiniteSet(1..(n + m))
      BY <1>1, FS_Interval
    <2>3. IsFiniteSet(Rows(w, x)')
      BY <2>1, <2>2, FS_Subset
    <2>4. IsFiniteSet(Rows(w, x)) /\ Cardinality(Rows(w, x)) <= Cardinality(Rows(w, x)')
      BY <2>1, <2>3, FS_Subset
    <2>5. QED
      BY <2>1, <2>3, <2>4, FS_CardinalityType
  <1>6. NumbersInv'
    <2>1. ASSUME NEW i \in 1..n
          PROVE  /\ comments'[i].ref <= n + m
                 /\ IF comments'[i].word = None
                    THEN comments'[i].ref <= Cardinality(Rows(comments[i].version,
                                                              comments[i].context)')
                    ELSE comments'[i].context = "DOCX_EDIT"
      <3>1. IF comments[i].word = None
            THEN comments[i].ref <= Cardinality(Rows(comments[i].version, comments[i].context))
            ELSE comments[i].context = "DOCX_EDIT"
        BY <1>2 DEF CInv, NumbersInv
      <3>2. PICK w, x : w = comments[i].version /\ x = comments[i].context
        OBVIOUS
      <3>3. w = comments'[i].version /\ x = comments'[i].context
        BY <1>3, <3>2
      <3>4. Cardinality(Rows(w, x)) \in Nat /\ Cardinality(Rows(w, x)') \in Nat
            /\ Cardinality(Rows(w, x)) <= Cardinality(Rows(w, x)')
        BY <1>5
      <3>5. Rows(comments[i].version, comments[i].context)' = Rows(w, x)'
        BY <3>3 DEF Rows
      <3>6. comments'[i].word = None => comments'[i].ref <= Cardinality(Rows(w, x)')
        BY <1>3, <3>1, <3>2, <3>4
      <3>7. comments'[i].ref <= n + m
        BY <1>1, <1>3
      <3>8. QED
        BY <1>3, <3>1, <3>5, <3>6, <3>7
    <2>2. ASSUME NEW i \in (n + 1)..(n + m)
          PROVE  /\ comments'[i].ref <= n + m
                 /\ IF comments'[i].word = None
                    THEN comments'[i].ref <= Cardinality(Rows(comments[i].version,
                                                              comments[i].context)')
                    ELSE comments'[i].context = "DOCX_EDIT"
      <3>1. Rows(comments[i].version, comments[i].context)' = Rows(v, context)'
        BY <1>4 DEF Rows
      <3>2. comments'[i].ref <= n + m
        BY <1>1, <1>4
      <3>3. QED
        BY <1>4, <3>1, <3>2
    <2>3. \A i \in 1..(n + m) : i \in 1..n \/ i \in (n + 1)..(n + m)
      BY <1>1
    <2>4. Len(comments') <= MaxComments
      BY <1>1, <1>2
    <2>5. QED
      BY <1>2, <2>1, <2>2, <2>3, <2>4 DEF NumbersInv
  <1>7. RefNosUnique'
    <2> SUFFICES ASSUME NEW i \in 1..(n + m), NEW j \in 1..(n + m),
                        comments'[i].version = comments'[j].version,
                        comments'[i].context = comments'[j].context,
                        (comments'[i].word = None) = (comments'[j].word = None),
                        comments'[i].ref = comments'[j].ref,
                        i <= j
                 PROVE  i = j
      BY <1>1, <1>2 DEF RefNosUnique
    <2>1. CASE j <= n
      <3>1. i \in 1..n /\ j \in 1..n
        BY <1>1, <2>1
      <3>2. /\ comments[i].version = comments[j].version
            /\ comments[i].context = comments[j].context
            /\ (comments[i].word = None) = (comments[j].word = None)
            /\ comments[i].ref = comments[j].ref
        BY <1>3, <3>1, Zenon
      <3>3. QED
        BY <1>2, <3>1, <3>2, Zenon DEF CInv, RefNosUnique
    <2>2. CASE i > n
      BY <1>1, <1>4, <2>2
    <2>3. CASE i <= n /\ j > n
      <3>1. i \in 1..n /\ j \in (n + 1)..(n + m)
        BY <1>1, <2>3
      <3>2. i \in Rows(v, context)
        BY <1>2, <1>3, <1>4, <3>1 DEF Rows
      <3>3. comments[i].ref <= base
        BY <1>3, <1>4, <3>1, <3>2
      <3>4. QED
        BY <1>1, <1>3, <1>4, <3>1, <3>3
    <2>4. QED
      BY <1>1, <2>1, <2>2, <2>3
  <1>8. QED
    BY <1>6, <1>7

LEMMA CreateKeepsCInv ==
  ASSUME CInv, NEW u \in Users, NEW v \in VersionNumbers, NEW context \in Contexts,
         CreatePdfComment(u, v, context)
  PROVE  CInv'
  <1> DEFINE base  == Cardinality(Rows(v, context))
             row   == NewComment(v, context, None, base + 1, None)
             added == <<row>>
             n     == Len(comments)
  <1>1. /\ comments' = Append(comments, row) /\ writes' = writes + 1 /\ writes < MaxWrites
        /\ view' = view /\ n < MaxComments
    BY DEF CreatePdfComment, WriteComments, NextRef
  <1>2. /\ comments \in Seq(WorkflowCommentRecord) /\ n \in Nat /\ DOMAIN comments = 1..n
        /\ writes \in Nat /\ MaxWrites \in Nat /\ MaxComments \in Nat
    BY LenProperties, CommentAssumption DEF CInv, CommentsTypeOK
  <1>3. /\ IsFiniteSet(Rows(v, context)) /\ base \in Nat /\ base <= n
        /\ Rows(v, context) \subseteq 1..n
    <2>1. Rows(v, context) \in SUBSET (1..n)
      BY <1>2 DEF Rows
    <2>2. IsFiniteSet(1..n) /\ Cardinality(1..n) = n
      BY <1>2, FS_Interval
    <2>3. QED
      BY <2>1, <2>2, FS_Subset, FS_CardinalityType
  <1> HIDE DEF base
  <1>4. /\ row.version = v /\ row.context = context /\ row.word = None /\ row.ref = base + 1
        /\ row.updatedAt = writes + 1
    BY DEF NewComment
  <1>5. row \in WorkflowCommentRecord
    <2>1. base + 1 \in 1..MaxComments /\ writes + 1 \in 1..MaxWrites
      BY <1>1, <1>2, <1>3
    <2>2. QED
      BY <2>1 DEF NewComment, WorkflowCommentRecord, CommentStatus
  <1> HIDE DEF row
  <1>6. /\ added \in Seq(WorkflowCommentRecord) /\ Len(added) = 1 /\ DOMAIN added = 1..1
        /\ added[1] = row
    BY <1>5
  <1>7. comments' = comments \o added
    BY <1>1, <1>2, <1>5, AppendIsConcat
  <1> HIDE DEF added
  <1>8. \A k \in DOMAIN added : k = 1
    BY <1>6
  <1>9. Extends(comments, added)
    BY <1>1, <1>2, <1>4, <1>6, <1>7, <1>8 DEF Extends
  <1>10. Rows(v, context)' = Rows(v, context) \cup {n + 1}
    <2>1. /\ DOMAIN comments' = 1..(n + 1) /\ comments'[n + 1] = row
          /\ \A i \in 1..n : comments'[i] = comments[i]
      BY <1>1, <1>2, <1>5, AppendProperties, LenProperties
    <2>2. QED
      BY <1>2, <1>4, <2>1 DEF Rows
  <1>11. Cardinality(Rows(v, context)') = base + 1
    <2>1. n + 1 \notin Rows(v, context)
      BY <1>2, <1>3
    <2>2. QED
      BY <1>3, <1>10, <2>1, FS_AddElement DEF base
  <1>12. \A i \in Rows(v, context) : comments[i].word = None => comments[i].ref <= base
    BY DEF CInv, NumbersInv, Rows, base
  <1>13. Numbered(added, v, context, base)
    <2>1. \A i \in Rows(v, context) :
             (comments[i].word = None) = (row.word = None) => comments[i].ref <= base
      BY <1>4, <1>12, Zenon
    <2>2. base + 1 <= Cardinality(Rows(v, context)')
      BY <1>3, <1>11
    <2>3. QED
      BY <1>3, <1>4, <1>6, <1>8, <2>1, <2>2 DEF Numbered
  <1>14. QED
    BY <1>9, <1>13, ExtendedToken, ExtendedNumbers DEF CInv

\* The highest number given to a comment of the file bounds all of them.
LEMMA HighestBounds ==
  ASSUME CInv, NEW v \in VersionNumbers
  PROVE  /\ HighestDocxRef(v) \in Nat /\ HighestDocxRef(v) <= Len(comments)
         /\ \A i \in Rows(v, "DOCX_EDIT") :
               comments[i].word # None => comments[i].ref <= HighestDocxRef(v)
  <1> DEFINE docx == {j \in Rows(v, "DOCX_EDIT") : comments[j].word # None}
             refs == {comments[i].ref : i \in docx}
             n == Len(comments)
  <1>1. n \in Nat /\ DOMAIN comments = 1..n /\ comments \in Seq(WorkflowCommentRecord)
    BY LenProperties DEF CInv, CommentsTypeOK
  <1>2. \A i \in 1..n : comments[i].ref \in Nat /\ comments[i].ref <= n
    <2>1. \A i \in 1..n : comments[i] \in WorkflowCommentRecord
      BY <1>1, LenProperties
    <2>2. \A i \in 1..n : comments[i].ref \in Nat
      BY <2>1 DEF WorkflowCommentRecord
    <2>3. \A i \in 1..n : comments[i].ref <= n
      BY <1>1 DEF CInv, NumbersInv
    <2>4. QED
      BY <2>2, <2>3
  <1>3. \A x \in refs : x \in Nat /\ x <= n
    BY <1>1, <1>2 DEF Rows
  <1>4. HighestDocxRef(v) = IF refs = {} THEN 0 ELSE CHOOSE x \in refs : \A k \in refs : k <= x
    BY DEF HighestDocxRef
  <1>5. \A i \in docx : comments[i].ref \in refs
    OBVIOUS
  <1> HIDE DEF refs
  <1>6. CASE refs = {}
    BY <1>1, <1>4, <1>5, <1>6
  <1>7. CASE refs # {}
    <2> DEFINE gaps == {n - x : x \in refs}
    <2>1. gaps \subseteq Nat /\ gaps # {}
      <3>1. \A x \in refs : n - x \in Nat
        BY <1>1, <1>3
      <3>2. QED
        BY <1>7, <3>1, Zenon
    <2>2. PICK g \in gaps : \A h \in gaps : g <= h
      <3> HIDE DEF gaps
      <3> QED
        BY <2>1, LeastNatural
    <2>3. PICK x \in refs : g = n - x
      BY <2>2
    <2>4. \A k \in refs : k <= x
      <3> TAKE k \in refs
      <3>1. n - x <= n - k
        BY <2>2, <2>3
      <3>2. QED
        BY <1>1, <1>3, <3>1
    <2>5. HighestDocxRef(v) \in refs /\ \A k \in refs : k <= HighestDocxRef(v)
      BY <1>4, <1>7, <2>4
    <2>6. HighestDocxRef(v) \in Nat /\ HighestDocxRef(v) <= n
      BY <1>1, <1>3, <2>5
    <2>7. QED
      BY <1>5, <2>5, <2>6
  <1>8. QED
    BY <1>6, <1>7

LEMMA SyncKeepsCInv ==
  ASSUME TypeOK, CInv, NEW u \in Users, NEW v \in VersionNumbers, SyncDocxComments(u, v)
  PROVE  CInv' /\ \E old, added : /\ Extends(old, added)
                                  /\ \A i \in DOMAIN comments : old[i].status = comments[i].status
  <1> DEFINE file    == DocxComments[versions[v].sourceDocx]
             places  == NewPlaces(v, file)
             From(i) == {f \in ToSet(file) : i \in MatchExisting(v, f)}
             base    == HighestDocxRef(v)
             n       == Len(comments)
             m       == Cardinality(places)
             Fresh(k) == file[Nth(places, k)]
             Kept(i) == IF From(i) = {} THEN comments[i]
                        ELSE SyncedRow(comments[i], CHOOSE f \in From(i) : TRUE)
             New(k)  == NewComment(v, "DOCX_EDIT", Fresh(k).word, base + k, Fresh(k).text)
             old     == [i \in DOMAIN comments |-> Kept(i)]
             added   == [k \in 1..m |-> New(k)]
  <1>1. /\ comments' = old \o added /\ n + m <= MaxComments
        /\ versions[v].sourceDocx # None
        /\ writes' = writes + 1 /\ writes < MaxWrites /\ view' = view
    BY DEF SyncDocxComments, WriteComments
  <1>2. /\ comments \in Seq(WorkflowCommentRecord) /\ n \in Nat /\ DOMAIN comments = 1..n
        /\ writes \in Nat /\ MaxWrites \in Nat /\ MaxComments \in Nat
        /\ writes + 1 \in 1..MaxWrites
    <2>1. comments \in Seq(WorkflowCommentRecord) /\ writes \in Nat
      BY CommentAssumption DEF CInv, CommentsTypeOK
    <2>2. MaxWrites \in Nat /\ MaxComments \in Nat
      BY CommentAssumption
    <2>3. n \in Nat /\ DOMAIN comments = 1..n
      BY <2>1, LenProperties
    <2>4. writes < MaxWrites
      BY <1>1
    <2>5. writes + 1 \in 1..MaxWrites
      BY <2>1, <2>2, <2>4
    <2>6. QED
      BY <2>1, <2>2, <2>3, <2>5
  <1>3. file \in Seq(FileComments) /\ Len(file) \in Nat /\ DOMAIN file = 1..Len(file)
    <2>1. versions[v].sourceDocx \in Contents
      BY <1>1 DEF TypeOK, DocumentVersionState
    <2>2. file \in Seq(FileComments)
      BY <2>1, CommentAssumption
    <2> HIDE DEF file
    <2>3. QED
      BY <2>2, LenProperties
  <1>4. \A f \in FileComments : f.word # None
    BY CommentAssumption
  <1> HIDE DEF file
  <1>5. places \subseteq 1..Len(file) /\ IsFiniteSet(places) /\ m \in Nat
    <2>1. places \in SUBSET (1..Len(file))
      BY <1>3 DEF NewPlaces
    <2>2. IsFiniteSet(1..Len(file))
      BY <1>3, FS_Interval
    <2>3. IsFiniteSet(places)
      BY <2>1, <2>2, FS_Subset
    <2>4. QED
      BY <2>1, <2>3, FS_CardinalityType
  <1> HIDE DEF places
  <1>6. \A k \in 1..m : Fresh(k) \in FileComments
    <2> TAKE k \in 1..m
    <2>1. Nth(places, k) \in places
      BY <1>3, <1>5, NthPlace
    <2>2. PICK p \in 1..Len(file) : p = Nth(places, k)
      BY <1>5, <2>1
    <2>3. file[p] \in FileComments
      BY <1>3, ElementOfSeq
    <2>4. QED
      BY <2>2, <2>3
  <1>7. /\ base \in Nat /\ base <= n
        /\ \A i \in Rows(v, "DOCX_EDIT") : comments[i].word # None => comments[i].ref <= base
    BY HighestBounds
  <1> HIDE DEF base, Fresh
  <1>8. \A k \in 1..m :
           /\ New(k) \in WorkflowCommentRecord
           /\ New(k).version = v /\ New(k).context = "DOCX_EDIT" /\ New(k).word # None
           /\ New(k).ref = base + k /\ New(k).updatedAt = writes + 1
    <2> TAKE k \in 1..m
    <2>1. base + k \in 1..MaxComments
      BY <1>1, <1>2, <1>5, <1>7
    <2>2. /\ Fresh(k).word \in {f.word : f \in FileComments} /\ Fresh(k).word # None
          /\ Fresh(k).text \in {f.text : f \in FileComments}
      BY <1>4, <1>6
    <2>3. QED
      BY <1>2, <2>1, <2>2 DEF NewComment, WorkflowCommentRecord, Contexts, CommentStatus
  <1>9. \A i \in 1..n :
           /\ Kept(i) \in WorkflowCommentRecord
           /\ Kept(i).version = comments[i].version /\ Kept(i).context = comments[i].context
           /\ Kept(i).word = comments[i].word /\ Kept(i).ref = comments[i].ref
           /\ Kept(i).status = comments[i].status
           /\ Kept(i) = comments[i] \/ Kept(i).updatedAt = writes + 1
    <2> TAKE i \in 1..n
    <2>1. comments[i] \in WorkflowCommentRecord
      BY <1>2, LenProperties
    <2>2. CASE From(i) = {}
      BY <2>1, <2>2
    <2>3. CASE From(i) # {}
      <3>1. PICK f : f = CHOOSE g \in From(i) : TRUE
        OBVIOUS
      <3>2. f \in FileComments
        <4>1. f \in From(i)
          BY <2>3, <3>1
        <4>2. ToSet(file) \subseteq FileComments
          BY <1>3 DEF ToSet
        <4>3. QED
          BY <4>1, <4>2
      <3>3. Kept(i) = [comments[i] EXCEPT !.text = f.text, !.updatedAt = writes + 1]
        BY <2>3, <3>1 DEF SyncedRow
      <3>4. f.text \in {g.text : g \in FileComments}
        BY <3>2
      <3> HIDE DEF Kept
      <3>5. QED
        BY <1>2, <2>1, <3>3, <3>4 DEF WorkflowCommentRecord
    <2>4. QED
      BY <2>2, <2>3
  <1> HIDE DEF Kept, New
  <1>10. /\ old \in Seq(WorkflowCommentRecord) /\ Len(old) = n
         /\ \A i \in 1..n : old[i] = Kept(i)
    BY <1>2, <1>9
  <1>11. /\ added \in Seq(WorkflowCommentRecord) /\ Len(added) = m /\ DOMAIN added = 1..m
         /\ \A k \in 1..m : added[k] = New(k)
    BY <1>5, <1>8
  <1> HIDE DEF old, added
  <1>12. Extends(old, added)
    <2>1. \A i \in DOMAIN comments : i \in 1..n /\ old[i] = Kept(i)
      BY <1>2, <1>10
    <2>2. \A k \in DOMAIN added : added[k] = New(k) /\ k \in 1..m
      BY <1>11
    <2>3. QED
      BY <1>1, <1>2, <1>8, <1>9, <1>10, <1>11, <2>1, <2>2 DEF Extends
  <1>13. Numbered(added, v, "DOCX_EDIT", base)
    <2>1. \A k \in 1..m, i \in Rows(v, "DOCX_EDIT") :
             (comments[i].word = None) = (New(k).word = None) => comments[i].ref <= base
      BY <1>7, <1>8, Zenon
    <2>2. QED
      BY <1>7, <1>8, <1>11, <2>1 DEF Numbered
  <1>14. CInv'
    BY <1>12, <1>13, ExtendedToken, ExtendedNumbers DEF CInv
  <1>15. \A i \in DOMAIN comments : old[i].status = comments[i].status
    BY <1>2, <1>9, <1>10
  <1>16. QED
    BY <1>12, <1>14, <1>15

LEMMA StatusKeepsCInv ==
  ASSUME CInv, NEW u \in Users, NEW i \in DOMAIN comments, NEW status \in CommentStatus,
         NEW expected, SetWorkflowCommentStatus(u, i, status, expected)
  PROVE  CInv' /\ \E old, added :
                     /\ Extends(old, added)
                     /\ \A j \in DOMAIN comments :
                           old[j].status = IF j = i THEN status ELSE comments[j].status
  <1> DEFINE row == [comments[i] EXCEPT !.status = status, !.updatedAt = writes + 1]
             old == [comments EXCEPT ![i] = row]
             n   == Len(comments)
  <1>1. /\ comments' = [comments EXCEPT ![i].status = status, ![i].updatedAt = writes + 1]
        /\ writes' = writes + 1 /\ writes < MaxWrites /\ view' = view
    BY DEF SetWorkflowCommentStatus
  <1>2. /\ comments \in Seq(WorkflowCommentRecord) /\ n \in Nat /\ DOMAIN comments = 1..n
        /\ writes \in Nat /\ MaxWrites \in Nat /\ MaxComments \in Nat
        /\ writes + 1 \in 1..MaxWrites /\ n <= MaxComments
    BY <1>1, LenProperties, CommentAssumption DEF CInv, CommentsTypeOK, NumbersInv
  <1>3. comments' = old
    BY <1>1, <1>2, LenProperties
  <1>4. comments[i] \in WorkflowCommentRecord
    BY <1>2, LenProperties
  <1>5. /\ row \in WorkflowCommentRecord
        /\ row.version = comments[i].version /\ row.context = comments[i].context
        /\ row.word = comments[i].word /\ row.ref = comments[i].ref
        /\ row.status = status /\ row.updatedAt = writes + 1
    BY <1>2, <1>4 DEF WorkflowCommentRecord
  <1> HIDE DEF row
  <1>6. /\ old \in Seq(WorkflowCommentRecord) /\ Len(old) = n
        /\ \A j \in 1..n : old[j] = IF j = i THEN row ELSE comments[j]
    BY <1>2, <1>5, ExceptSeq
  <1> HIDE DEF old
  <1>7. <<>> \in Seq(WorkflowCommentRecord) /\ Len(<<>>) = 0 /\ DOMAIN <<>> = {}
    BY EmptySeq
  <1>8. comments' = old \o <<>>
    BY <1>3, <1>6, ConcatEmptySeq
  <1>9. Extends(old, <<>>)
    <2>1. \A j \in DOMAIN comments :
             /\ old[j].version = comments[j].version /\ old[j].context = comments[j].context
             /\ old[j].word = comments[j].word /\ old[j].ref = comments[j].ref
             /\ old[j] = comments[j] \/ old[j].updatedAt = writes + 1
      BY <1>2, <1>5, <1>6
    <2>2. Len(comments) + Len(<<>>) <= MaxComments
      BY <1>2, <1>7
    <2>3. \A k \in DOMAIN <<>> : <<>>[k].updatedAt = writes + 1
      BY <1>7
    <2>4. QED
      BY <1>1, <1>6, <1>7, <1>8, <2>1, <2>2, <2>3, Zenon DEF Extends
  <1>10. Numbered(<<>>, 0, 0, 0)
    BY <1>2, <1>7 DEF Numbered
  <1>11. CInv'
    BY <1>9, <1>10, ExtendedToken, ExtendedNumbers DEF CInv
  <1>12. \A j \in DOMAIN comments :
            old[j].status = IF j = i THEN status ELSE comments[j].status
    BY <1>2, <1>5, <1>6
  <1>13. QED
    BY <1>9, <1>11, <1>12

LEMMA ReadKeepsCInv ==
  ASSUME CInv, NEW u \in Users, NEW i \in DOMAIN comments, ReadComment(u, i)
  PROVE  CInv'
  <1>1. /\ view' = [at |-> i, row |-> comments[i]]
        /\ comments' = comments /\ writes' = writes
    BY DEF ReadComment
  <1>2. comments[i] \in WorkflowCommentRecord
    BY LenProperties DEF CInv, CommentsTypeOK
  <1>3. CommentsTypeOK' /\ TokenInv' /\ TokenMeansSeen'
    BY <1>1, <1>2 DEF CInv, CommentsTypeOK, TokenInv, TokenMeansSeen
  <1>4. NumbersInv' /\ RefNosUnique'
    BY <1>1 DEF CInv, NumbersInv, RefNosUnique, Rows
  <1>5. QED
    BY <1>3, <1>4 DEF CInv

\* What a step may do to the rows that are there.
DecisionsKept ==
    /\ \A i \in DOMAIN comments :
          /\ i \in DOMAIN comments'
          /\ comments'[i].ref = comments[i].ref
          /\ comments'[i].word = comments[i].word
          /\ comments'[i].status # comments[i].status =>
                \E u \in Users : SetWorkflowCommentStatus(u, i, comments'[i].status,
                                                        comments[i].updatedAt)
    /\ \A u \in Users, v \in VersionNumbers :
          SyncDocxComments(u, v) =>
             \A i \in DOMAIN comments : comments'[i].status = comments[i].status

\* The rows that are there keep their places, numbers and Word ids.
LEMMA ExtendedRows ==
  ASSUME CInv, NEW old, NEW added, Extends(old, added)
  PROVE  \A i \in DOMAIN comments :
            /\ i \in DOMAIN comments' /\ comments'[i] = old[i]
            /\ comments'[i].ref = comments[i].ref /\ comments'[i].word = comments[i].word
  <1>1. \A i \in DOMAIN comments : i \in DOMAIN comments' /\ comments'[i] = old[i]
    BY ExtendedShape
  <1>2. \A i \in DOMAIN comments : old[i].ref = comments[i].ref /\ old[i].word = comments[i].word
    BY DEF Extends
  <1>3. QED
    BY <1>1, <1>2, Zenon

\* A synchronisation changes the status of no row.
LEMMA SyncKeepsStatus ==
  ASSUME TypeOK, CInv, NEW u \in Users, NEW v \in VersionNumbers, SyncDocxComments(u, v)
  PROVE  \A i \in DOMAIN comments :
            /\ i \in DOMAIN comments' /\ comments'[i].status = comments[i].status
            /\ comments'[i].ref = comments[i].ref /\ comments'[i].word = comments[i].word
  <1>1. PICK old, added : /\ Extends(old, added)
                          /\ \A i \in DOMAIN comments : old[i].status = comments[i].status
    BY SyncKeepsCInv
  <1>2. \A i \in DOMAIN comments :
            /\ i \in DOMAIN comments' /\ comments'[i] = old[i]
            /\ comments'[i].ref = comments[i].ref /\ comments'[i].word = comments[i].word
    BY <1>1, ExtendedRows
  <1>3. QED
    BY <1>1, <1>2, Zenon

\* A step that changes no status keeps the decisions ...
LEMMA UndecidedStep ==
  ASSUME TypeOK, CInv,
         \A i \in DOMAIN comments :
            /\ i \in DOMAIN comments' /\ comments'[i].status = comments[i].status
            /\ comments'[i].ref = comments[i].ref /\ comments'[i].word = comments[i].word
  PROVE  DecisionsKept
  BY DEF DecisionsKept

\* ... and so does a decision, which changes the status of its row only.
LEMMA DecidedStep ==
  ASSUME TypeOK, CInv, NEW u \in Users, NEW i \in DOMAIN comments, NEW status \in CommentStatus,
         NEW expected, SetWorkflowCommentStatus(u, i, status, expected)
  PROVE  DecisionsKept
  <1>1. PICK old, added :
            /\ Extends(old, added)
            /\ \A j \in DOMAIN comments :
                  old[j].status = IF j = i THEN status ELSE comments[j].status
    BY StatusKeepsCInv
  <1>2. \A j \in DOMAIN comments :
            /\ j \in DOMAIN comments' /\ comments'[j] = old[j]
            /\ comments'[j].ref = comments[j].ref /\ comments'[j].word = comments[j].word
    BY <1>1, ExtendedRows
  <1>3. expected = comments[i].updatedAt /\ status = comments'[i].status
    <2>1. comments[i].updatedAt = expected
      BY DEF SetWorkflowCommentStatus
    <2>2. QED
      BY <1>1, <1>2, <2>1
  <1>4. SetWorkflowCommentStatus(u, i, comments'[i].status, comments[i].updatedAt)
    BY <1>3
  <1>5. \A j \in DOMAIN comments : comments'[j].status # comments[j].status => j = i
    BY <1>1, <1>2
  <1>6. \A w \in Users, v \in VersionNumbers :
           SyncDocxComments(w, v) =>
              \A j \in DOMAIN comments : comments'[j].status = comments[j].status
    BY SyncKeepsStatus
  <1>7. QED
    BY <1>2, <1>4, <1>5, <1>6, Zenon DEF DecisionsKept

LEMMA CommentsStep ==
  ASSUME TypeOK, CInv, [CommentsNext]_<<versions, commentVars>>
  PROVE  CInv' /\ DecisionsKept
  <1>1. ASSUME UNCHANGED commentVars PROVE CInv' /\ DecisionsKept
    <2>1. CInv'
      BY <1>1 DEF commentVars, CInv, CommentsTypeOK, NumbersInv, RefNosUnique,
                  TokenInv, TokenMeansSeen, Rows
    <2>2. QED
      BY <1>1, <2>1, UndecidedStep DEF commentVars
  <1>2. ASSUME NEW u \in Users, NEW v \in VersionNumbers, NEW context \in Contexts,
               CreatePdfComment(u, v, context)
        PROVE  CInv' /\ DecisionsKept
    <2>1. comments' = Append(comments, NewComment(v, context, None, NextRef(v, context), None))
      BY <1>2 DEF CreatePdfComment
    <2>2. comments \in Seq(WorkflowCommentRecord) /\ comments' \in Seq(WorkflowCommentRecord)
      BY <1>2, CreateKeepsCInv DEF CInv, CommentsTypeOK
    <2>3. \A i \in DOMAIN comments : i \in DOMAIN comments' /\ comments'[i] = comments[i]
      BY <2>1, <2>2
    <2>4. QED
      BY <1>2, <2>3, CreateKeepsCInv, UndecidedStep
  <1>3. ASSUME NEW u \in Users, NEW v \in VersionNumbers, SyncDocxComments(u, v)
        PROVE  CInv' /\ DecisionsKept
    BY <1>3, SyncKeepsCInv, SyncKeepsStatus, UndecidedStep
  <1>4. ASSUME NEW u \in Users, NEW i \in DOMAIN comments, ReadComment(u, i)
        PROVE  CInv' /\ DecisionsKept
    BY <1>4, ReadKeepsCInv, UndecidedStep DEF ReadComment
  <1>5. ASSUME NEW u \in Users, NEW i \in DOMAIN comments, NEW status \in CommentStatus,
               NEW expected \in 1..MaxWrites, SetWorkflowCommentStatus(u, i, status, expected)
        PROVE  CInv' /\ DecisionsKept
    BY <1>5, StatusKeepsCInv, DecidedStep
  <1>6. QED
    BY <1>1, <1>2, <1>3, <1>4, <1>5 DEF CommentsNext, commentVars

\* The comments do not disturb the workflow, and the invariant of the comments
\* holds in every state of the composition.
THEOREM CommentsInvariance == CommentsSpec => [](IInv /\ CInv)
  <1>1. CommentsInit => IInv /\ CInv
    <2> SUFFICES ASSUME CommentsInit PROVE IInv /\ CInv
      OBVIOUS
    <2>1. IInv
      BY InitInv DEF CommentsInit
    <2>2. comments = <<>> /\ writes = 0 /\ view = None
      BY DEF CommentsInit
    <2>3. CommentsTypeOK
      BY <2>2, EmptySeq, CommentAssumption DEF CommentsTypeOK
    <2>4. DOMAIN comments = {} /\ Len(comments) = 0
      BY <2>2
    <2>5. QED
      BY <2>1, <2>2, <2>3, <2>4, CommentAssumption
         DEF CInv, NumbersInv, RefNosUnique, TokenInv, TokenMeansSeen
  <1>2. IInv /\ CInv /\ [CommentsNext]_<<versions, commentVars>> => (IInv /\ CInv)'
    <2> SUFFICES ASSUME IInv, CInv, [CommentsNext]_<<versions, commentVars>>
                 PROVE  IInv' /\ CInv'
      OBVIOUS
    <2>1. Next \/ versions' = versions
      BY DEF CommentsNext, CreatePdfComment, SyncDocxComments, WriteComments, ReadComment,
             SetWorkflowCommentStatus
    <2>2. IInv'
      <3>1. CASE Next
        BY <3>1, NextInv
      <3>2. CASE versions' = versions
        BY <3>2 DEF IInv, TypeOK, SupersessionSound, Exists
      <3>3. QED
        BY <2>1, <3>1, <3>2
    <2>3. CInv'
      BY CommentsStep DEF IInv
    <2>4. QED
      BY <2>2, <2>3
  <1>3. QED
    BY <1>1, <1>2, PTL DEF CommentsSpec

\* No two comments of one kind share a number, whatever was synchronised,
\* created and decided before (create_pdf_comment, _next_docx_ref_index).
THEOREM CommentNumbersUnique == CommentsSpec => []RefNosUnique
  <1>1. CInv => RefNosUnique
    BY DEF CInv
  <1>2. QED
    BY <1>1, CommentsInvariance, PTL

\* A token that still fits was read with the row as it is now
\* (set_workflow_comment_status_if_current).
THEOREM FittingTokenWasSeen == CommentsSpec => []TokenMeansSeen
  <1>1. CInv => TokenMeansSeen
    BY DEF CInv
  <1>2. QED
    BY <1>1, CommentsInvariance, PTL

\* What was decided about a comment changes only in a new decision about that
\* comment with a token that fits it, and in no synchronisation; and nothing
\* renumbers or drops a comment (sync_docx_comments,
\* set_workflow_comment_status_if_current).
THEOREM DecisionsAreKept == CommentsSpec => DecisionsSurviveSync
  <1>1. IInv /\ CInv /\ [CommentsNext]_<<versions, commentVars>> => [DecisionsKept]_comments
    BY CommentsStep DEF IInv
  <1>2. QED
    BY <1>1, CommentsInvariance, PTL DEF CommentsSpec, DecisionsSurviveSync, DecisionsKept

-----------------------------------------------------------------------------
(* Optimistic locking *)

\* The template upload writes back a row it read earlier, beside files of today,
\* so the invariant of the workflow is lost.  What every row keeps is that its
\* phase belongs to its profile; this is what the operations need to yield rows.
PhasesOK == TypeOK /\ \A v \in VersionNumbers : PhaseInv(versions[v])

\* The upload works on a version that exists, with a row that existed.
UploadOK ==
    /\ PhaseInv(upload.row)
    /\ upload.phase # "idle" => upload.user \in Users /\ upload.version \in VersionNumbers
    /\ upload.phase = "ensured" => Exists(upload.version) /\ upload.row.status # "ABSENT"

\* A client whose ETag is the stored one has loaded the stored row, unless that
\* was superseded.
ClientOK(c) ==
    clients[c].version # 0 =>
       /\ clients[c].user \in Users
       /\ Exists(clients[c].version)
       /\ EtagMatches(c) => clients[c].current \/ Superseded(versions[clients[c].version])

\* What is proved inductive.
LInv ==
    /\ LockTypeOK
    /\ PhasesOK
    /\ UploadOK
    /\ \A c \in Clients : ClientOK(c)
    /\ ~lost

\* A row that changed carries the event e, or was superseded; the source PDF alone
\* may change without either.
Traced(e) ==
    \A w \in VersionNumbers : Exists(w) =>
        /\ versions'[w].status # "ABSENT"
        /\ \/ versions'[w].lastEvent = e
           \/ View(versions'[w]) = View(versions[w])
           \/ Superseded(versions'[w])

\* What the operations need of a stored row.
LEMMA PhaseOfRow ==
  ASSUME PhasesOK, NEW v \in VersionNumbers
  PROVE  versions[v] \in DocumentVersionState /\ PhaseInv(versions[v])
  BY DEF PhasesOK, TypeOK

LEMMA StoreTraced ==
  ASSUME PhasesOK, NEW v \in VersionNumbers, NEW t \in DocumentVersionState, NEW e,
         StoreVersion(v, t), PhaseInv(t), t.status # "ABSENT",
         \/ ~Exists(v)
         \/ t.lastEvent = e
         \/ View(t) = View(versions[v])
  PROVE  PhasesOK' /\ Traced(e)
  <1>1. /\ versions' = [versions EXCEPT ![v] = t]
        /\ versions \in [VersionNumbers -> DocumentVersionState]
    BY DEF StoreVersion, Store, PhasesOK, TypeOK
  <1>2. versions'[v] = t /\ \A w \in VersionNumbers : w # v => versions'[w] = versions[w]
    BY <1>1
  <1>3. PhasesOK'
    BY <1>1, <1>2 DEF PhasesOK, TypeOK
  <1>4. Traced(e)
    BY <1>2, Zenon DEF Traced, Exists
  <1>5. QED
    BY <1>3, <1>4

LEMMA StampedRow ==
  ASSUME NEW s \in DocumentVersionState, PhaseInv(s), NEW e \in EventIds
  PROVE  /\ Stamp(s, e) \in DocumentVersionState /\ PhaseInv(Stamp(s, e))
         /\ Stamp(s, e).status = s.status /\ Stamp(s, e).lastEvent = e
  <1>1. Stamp(s, e) \in DocumentVersionState
    BY RowFields DEF Stamp
  <1>2. QED
    BY <1>1 DEF Stamp, DocumentVersionState, PhaseInv

\* A stamped row is stored.
LEMMA StampedTraced ==
  ASSUME PhasesOK, NEW v \in VersionNumbers, NEW s \in DocumentVersionState, PhaseInv(s),
         s.status # "ABSENT", NEW e \in EventIds, StoreVersion(v, Stamp(s, e))
  PROVE  PhasesOK' /\ Traced(e)
  <1> DEFINE t == Stamp(s, e)
  <1>1. t \in DocumentVersionState /\ PhaseInv(t) /\ t.status # "ABSENT" /\ t.lastEvent = e
    BY StampedRow
  <1> HIDE DEF t
  <1>2. StoreVersion(v, t)
    BY DEF t
  <1>3. QED
    BY <1>1, <1>2, StoreTraced

\* The row of s with other files, assignments or counts is in the same phase.
LEMMA SamePhase ==
  ASSUME NEW s \in DocumentVersionState, PhaseInv(s), NEW t \in DocumentVersionState,
         t.status = s.status, t.workflowActive = s.workflowActive, t.profile = s.profile
  PROVE  PhaseInv(t)
  BY DEF PhaseInv

\* Files, assignments, metadata and change requests.
LEMMA RecordTraced ==
  ASSUME PhasesOK, NEW u \in Users, NEW v \in VersionNumbers, NEW e \in EventIds,
         \/ \E c \in Contents : \/ ImportExistingPdf(u, v, c, e)
                                \/ ImportExistingDocx(u, v, c, e)
         \/ \E new \in AssignmentChoices : AssignWorkflowRoles(u, v, new, e)
         \/ ExtendAnnualValidity(u, v, e)
         \/ UpdateVersionMetadata(u, v, e)
         \/ AddChangeRequest(u, v, e)
  PROVE  PhasesOK' /\ Traced(e)
  <1> DEFINE s == versions[v]
  <1>1. s \in DocumentVersionState /\ PhaseInv(s)
    BY PhaseOfRow
  <1>2. s.status # "ABSENT"
    BY DEF ImportExistingPdf, ImportExistingDocx, MutateOwnVersion, AssignWorkflowRoles,
           ExtendAnnualValidity, UpdateVersionMetadata, AddChangeRequest, MutateVersion, Exists
  <1>3. ASSUME NEW t \in DocumentVersionState, t.status = s.status,
               t.workflowActive = s.workflowActive, t.profile = s.profile,
               StoreVersion(v, Stamp(t, e))
        PROVE  PhasesOK' /\ Traced(e)
    <2>1. PhaseInv(t) /\ t.status # "ABSENT"
      BY <1>1, <1>2, <1>3, SamePhase
    <2>2. QED
      BY <1>3, <2>1, StampedTraced
  <1>4. ASSUME NEW c \in Contents, ImportExistingPdf(u, v, c, e) PROVE PhasesOK' /\ Traced(e)
    <2> DEFINE t == [s EXCEPT !.sourcePdf = c]
    <2>1. t \in DocumentVersionState
      BY <1>1, RowFields
    <2>2. t.status = s.status /\ t.workflowActive = s.workflowActive /\ t.profile = s.profile
      BY <1>1 DEF DocumentVersionState
    <2>3. StoreVersion(v, Stamp(t, e))
      BY <1>4 DEF ImportExistingPdf
    <2> HIDE DEF t
    <2>4. QED
      BY <1>3, <2>1, <2>2, <2>3
  <1>5. ASSUME NEW c \in Contents, ImportExistingDocx(u, v, c, e) PROVE PhasesOK' /\ Traced(e)
    <2> DEFINE t == [s EXCEPT !.sourceDocx = c]
    <2>1. t \in DocumentVersionState
      BY <1>1, RowFields
    <2>2. t.status = s.status /\ t.workflowActive = s.workflowActive /\ t.profile = s.profile
      BY <1>1 DEF DocumentVersionState
    <2>3. StoreVersion(v, Stamp(t, e))
      BY <1>5 DEF ImportExistingDocx
    <2> HIDE DEF t
    <2>4. QED
      BY <1>3, <2>1, <2>2, <2>3
  <1>6. ASSUME NEW new \in AssignmentChoices, AssignWorkflowRoles(u, v, new, e)
        PROVE  PhasesOK' /\ Traced(e)
    <2> DEFINE t == [s EXCEPT !.assignments = new]
    <2>1. t \in DocumentVersionState
      BY <1>1, RowFields, DataAssumption
    <2>2. t.status = s.status /\ t.workflowActive = s.workflowActive /\ t.profile = s.profile
      BY <1>1 DEF DocumentVersionState
    <2>3. StoreVersion(v, Stamp(t, e))
      BY <1>6 DEF AssignWorkflowRoles
    <2> HIDE DEF t
    <2>4. QED
      BY <1>3, <2>1, <2>2, <2>3
  <1>7. CASE ExtendAnnualValidity(u, v, e)
    <2> DEFINE x == SignatureInput(s, "EXTEND_VALIDITY")
               t == [s EXCEPT !.signedPdf = x, !.extensionCount = @ + 1]
    <2>1. x \in Contents \cup {None}
      BY <1>1, SignatureInputType
    <2>2. s.extensionCount + 1 \in ExtensionCounts
      BY <1>1, <1>7 DEF ExtendAnnualValidity, DocumentVersionState, ExtensionCounts, MaxExtensions
    <2>3. StoreVersion(v, Stamp(t, e))
      BY <1>7 DEF ExtendAnnualValidity
    <2> HIDE DEF x
    <2>4. t \in DocumentVersionState
      BY <1>1, <2>1, <2>2, RowFields
    <2>5. t.status = s.status /\ t.workflowActive = s.workflowActive /\ t.profile = s.profile
      BY <1>1 DEF DocumentVersionState
    <2> HIDE DEF t
    <2>6. QED
      BY <1>3, <2>3, <2>4, <2>5
  <1>8. CASE UpdateVersionMetadata(u, v, e) \/ AddChangeRequest(u, v, e)
    <2>1. StoreVersion(v, Stamp(s, e))
      BY <1>8 DEF UpdateVersionMetadata, AddChangeRequest
    <2>2. QED
      BY <1>1, <1>3, <2>1
  <1>9. QED
    BY <1>4, <1>5, <1>6, <1>7, <1>8

\* Start, rejections, abort and archive.
LEMMA MoveTraced ==
  ASSUME PhasesOK, NEW u \in Users, NEW v \in VersionNumbers, NEW e \in EventIds,
         \/ \E p \in Profiles : StartWorkflow(u, v, p, e)
         \/ RejectReview(u, v, e)
         \/ RejectApproval(u, v, e)
         \/ AbortWorkflow(u, v, e)
         \/ ArchiveApproved(u, v, e)
  PROVE  PhasesOK' /\ Traced(e)
  <1> DEFINE s == versions[v]
  <1>1. s \in DocumentVersionState /\ PhaseInv(s)
    BY PhaseOfRow
  <1>2. \A p \in Profiles : "IN_PROGRESS" \in DOMAIN p.next
    BY ProfileAssumption DEF ValidDefinition, IsChain
  <1>3. ASSUME NEW p \in Profiles, StartWorkflow(u, v, p, e) PROVE PhasesOK' /\ Traced(e)
    <2> DEFINE t == [s EXCEPT !.status = "IN_PROGRESS", !.workflowActive = TRUE,
                              !.profile = p, !.reviewedBy = {}]
    <2>1. t \in DocumentVersionState
      BY <1>1, RowFields DEF DocumentStatus, WorkPhases
    <2>2. t.status = "IN_PROGRESS" /\ t.workflowActive = TRUE /\ t.profile = p
      BY <1>1 DEF DocumentVersionState
    <2>3. StoreVersion(v, Stamp(t, e))
      BY <1>3 DEF StartWorkflow
    <2> HIDE DEF t
    <2>4. PhaseInv(t)
      BY <1>2, <2>2 DEF PhaseInv
    <2>5. QED
      BY <2>1, <2>2, <2>3, <2>4, StampedTraced
  <1>4. CASE RejectReview(u, v, e) \/ RejectApproval(u, v, e)
    <2> DEFINE t == [s EXCEPT !.status = "IN_PROGRESS"]
    <2>1. t \in DocumentVersionState
      BY <1>1, RowFields DEF DocumentStatus, WorkPhases
    <2>2. t.status = "IN_PROGRESS" /\ t.workflowActive = s.workflowActive /\ t.profile = s.profile
      BY <1>1 DEF DocumentVersionState
    <2>3. StoreVersion(v, Stamp(t, e))
      BY <1>4 DEF RejectReview, RejectApproval
    <2>4. s.status \in {"IN_REVIEW", "IN_APPROVAL"}
      BY <1>4 DEF RejectReview, RejectApproval, MutateVersion, EvaluateWorkflowAction
    <2> HIDE DEF t
    <2>5. PhaseInv(t)
      BY <1>1, <1>2, <2>2, <2>4 DEF PhaseInv, WorkPhases
    <2>6. QED
      BY <2>1, <2>2, <2>3, <2>5, StampedTraced
  <1>5. CASE AbortWorkflow(u, v, e)
    <2> DEFINE t == [s EXCEPT !.status = "PLANNED", !.workflowActive = FALSE]
    <2>1. t \in DocumentVersionState
      BY <1>1, RowFields DEF DocumentStatus
    <2>2. t.status = "PLANNED"
      BY <1>1 DEF DocumentVersionState
    <2>3. StoreVersion(v, Stamp(t, e))
      BY <1>5 DEF AbortWorkflow
    <2> HIDE DEF t
    <2>4. PhaseInv(t)
      BY <2>2 DEF PhaseInv, WorkPhases
    <2>5. QED
      BY <2>1, <2>2, <2>3, <2>4, StampedTraced
  <1>6. CASE ArchiveApproved(u, v, e)
    <2> DEFINE t == [s EXCEPT !.status = "ARCHIVED", !.workflowActive = FALSE, !.archivedBy = u]
    <2>1. t \in DocumentVersionState
      BY <1>1, RowFields DEF DocumentStatus
    <2>2. t.status = "ARCHIVED" /\ t.profile = s.profile
      BY <1>1 DEF DocumentVersionState
    <2>3. StoreVersion(v, Stamp(t, e)) /\ s.status = "APPROVED"
      BY <1>6 DEF ArchiveApproved, MutateVersion, EvaluateWorkflowAction
    <2> HIDE DEF t
    <2>4. PhaseInv(t)
      BY <1>1, <2>2, <2>3 DEF PhaseInv, WorkPhases
    <2>5. QED
      BY <2>1, <2>2, <2>3, <2>4, StampedTraced
  <1>7. QED
    BY <1>3, <1>4, <1>5, <1>6

\* The end of a review.
LEMMA ReviewTraced ==
  ASSUME PhasesOK, NEW u \in Users, NEW v \in VersionNumbers, NEW e \in EventIds,
         AcceptReview(u, v, e)
  PROVE  PhasesOK' /\ Traced(e)
  <1> DEFINE r == versions[v]
             s == Sign(r, "IN_REVIEW->IN_APPROVAL")
             t == [s EXCEPT !.status = s.profile.next["IN_REVIEW"],
                            !.reviewedBy = @ \cup {u}, !.reviewCompletedBy = u]
  <1>1. r \in DocumentVersionState /\ PhaseInv(r)
    BY PhaseOfRow
  <1>2. r.status = "IN_REVIEW" /\ StoreVersion(v, Stamp(t, e))
    BY DEF AcceptReview, MutateVersion, EvaluateWorkflowAction
  <1>3. s \in DocumentVersionState /\ s = [r EXCEPT !.signedPdf = s.signedPdf]
    BY <1>1, SignRow DEF SignatureTransitions
  <1> HIDE DEF s
  <1>4. s.status = r.status /\ s.workflowActive = r.workflowActive /\ s.profile = r.profile
    BY <1>1, <1>3 DEF DocumentVersionState
  <1>5. /\ s.profile \in Profiles /\ s.workflowActive
        /\ s.profile.next["IN_REVIEW"] \in {"IN_APPROVAL", "APPROVED"}
        /\ s.profile.next["IN_REVIEW"] \in DOMAIN s.profile.next \cup {"APPROVED"}
    BY <1>1, <1>2, <1>4, ProfileAssumption DEF PhaseInv, WorkPhases, ValidDefinition, IsChain
  <1>6. s.reviewedBy \cup {u} \in SUBSET Users
    BY <1>3 DEF DocumentVersionState
  <1>7. t \in DocumentVersionState
    BY <1>3, <1>5, <1>6, RowFields DEF DocumentStatus, WorkPhases
  <1>8. /\ t.status = s.profile.next["IN_REVIEW"]
        /\ t.workflowActive = s.workflowActive /\ t.profile = s.profile
    BY <1>3 DEF DocumentVersionState
  <1> HIDE DEF t
  <1>9. PhaseInv(t) /\ t.status # "ABSENT"
    BY <1>5, <1>8 DEF PhaseInv, WorkPhases
  <1>10. QED
    BY <1>2, <1>7, <1>9, StampedTraced

\* The end of editing, which may be the release.
LEMMA EditingTraced ==
  ASSUME PhasesOK, NEW u \in Users, NEW v \in VersionNumbers, NEW e \in EventIds,
         CompleteEditing(u, v, e)
  PROVE  PhasesOK' /\ Traced(e)
  <1> DEFINE r == versions[v]
             f == WithSourcePdf(r)
             s == Sign(f, "IN_PROGRESS->IN_REVIEW")
             t == EditingCompleted(s, u)
  <1>1. r \in DocumentVersionState /\ PhaseInv(r)
    BY PhaseOfRow
  <1>2. r.status = "IN_PROGRESS" /\ StoreVersion(v, Stamp(t, e))
    BY DEF CompleteEditing, MutateVersion, EvaluateWorkflowAction
  <1>3. f \in DocumentVersionState /\ f = [r EXCEPT !.sourcePdf = f.sourcePdf]
    BY <1>1, SourcePdfRow
  <1>4. s \in DocumentVersionState /\ s = [f EXCEPT !.signedPdf = s.signedPdf]
    BY <1>3, SignRow DEF SignatureTransitions
  <1> HIDE DEF f, s
  <1>5. s.status = r.status /\ s.workflowActive = r.workflowActive /\ s.profile = r.profile
    BY <1>1, <1>3, <1>4 DEF DocumentVersionState
  <1> DEFINE next   == s.profile.next["IN_PROGRESS"]
             signed == s.editSignatureDone \/ SignatureRequired(s, "IN_PROGRESS->IN_REVIEW")
             edited == [s EXCEPT !.status = next, !.editSignatureDone = signed]
  <1>6. /\ s.profile \in Profiles /\ s.workflowActive
        /\ next \in {"IN_REVIEW", "IN_APPROVAL", "APPROVED"}
        /\ next \in DOMAIN s.profile.next \cup {"APPROVED"}
    BY <1>1, <1>2, <1>5, ProfileAssumption DEF PhaseInv, WorkPhases, ValidDefinition, IsChain
  <1>7. signed \in BOOLEAN
    BY <1>4 DEF DocumentVersionState
  <1>8. edited \in DocumentVersionState
    BY <1>4, <1>6, <1>7, RowFields DEF DocumentStatus, WorkPhases
  <1>9. /\ edited.status = next /\ edited.profile = s.profile
        /\ edited.workflowActive = s.workflowActive
    BY <1>4 DEF DocumentVersionState
  <1>10. t \in DocumentVersionState /\ PhaseInv(t) /\ t.status # "ABSENT"
    <2>1. CASE next = "APPROVED"
      <3> DEFINE g == [edited EXCEPT !.approvalCompletedBy = u, !.released = TRUE,
                                     !.workflowActive = FALSE]
      <3>1. t = WithReleasedPdf(g)
        BY <2>1 DEF EditingCompleted
      <3> HIDE DEF edited
      <3>2. g \in DocumentVersionState
        BY <1>8, RowFields
      <3>3. g.status = next /\ g.profile = s.profile
        BY <1>8, <1>9 DEF DocumentVersionState
      <3> HIDE DEF g
      <3>4. t \in DocumentVersionState /\ t = [g EXCEPT !.releasedPdf = t.releasedPdf]
        BY <3>1, <3>2, ReleasedPdfRow
      <3> HIDE DEF t
      <3>5. t.status = "APPROVED" /\ t.profile = s.profile
        BY <2>1, <3>2, <3>3, <3>4 DEF DocumentVersionState
      <3>6. QED
        BY <1>6, <3>4, <3>5 DEF PhaseInv, WorkPhases
    <2>2. CASE next # "APPROVED"
      <3>1. t = edited
        BY <2>2 DEF EditingCompleted
      <3> HIDE DEF t, edited
      <3>2. QED
        BY <1>6, <1>8, <1>9, <2>2, <3>1 DEF PhaseInv, WorkPhases
    <2>3. QED
      BY <2>1, <2>2
  <1> HIDE DEF t
  <1>11. QED
    BY <1>2, <1>10, StampedTraced

\* New rows, a template for an existing one, and the conversion without a stamp.
LEMMA IntakeTraced ==
  ASSUME PhasesOK, NEW u \in Users, NEW v \in VersionNumbers, NEW e \in EventIds,
         \/ \E owner \in Users : CreateDocumentVersion(u, v, owner)
         \/ \E c \in Contents : CreateFromTemplate(u, v, c, e)
         \/ EnsureSourcePdf(u, v)
  PROVE  PhasesOK' /\ Traced(e)
  <1> DEFINE s == versions[v]
  <1>1. s \in DocumentVersionState /\ PhaseInv(s)
    BY PhaseOfRow
  <1>2. ASSUME NEW owner \in Users
        PROVE  /\ NewVersion(owner) \in DocumentVersionState /\ PhaseInv(NewVersion(owner))
               /\ NewVersion(owner).status = "PLANNED"
    <2>1. NewVersion(owner) \in DocumentVersionState /\ PhaseInv(NewVersion(owner))
      BY NewVersionRow DEF RowInv
    <2>2. QED
      BY <2>1 DEF NewVersion
  <1>3. ASSUME NEW owner \in Users, CreateDocumentVersion(u, v, owner)
        PROVE  PhasesOK' /\ Traced(e)
    <2> DEFINE t == NewVersion(owner)
    <2>1. t \in DocumentVersionState /\ PhaseInv(t) /\ t.status # "ABSENT"
      BY <1>2
    <2>2. ~Exists(v) /\ StoreVersion(v, t)
      BY <1>3 DEF CreateDocumentVersion
    <2> HIDE DEF t
    <2>3. QED
      BY <2>1, <2>2, StoreTraced
  <1>4. ASSUME NEW c \in Contents, NEW n \in DocumentVersionState, PhaseInv(n),
               n.status # "ABSENT", StoreVersion(v, Stamp([n EXCEPT !.sourceDocx = c], e))
        PROVE  PhasesOK' /\ Traced(e)
    <2> DEFINE t == [n EXCEPT !.sourceDocx = c]
    <2>1. t \in DocumentVersionState
      BY RowFields
    <2>2. t.status = n.status /\ t.workflowActive = n.workflowActive /\ t.profile = n.profile
      BY DEF DocumentVersionState
    <2>3. StoreVersion(v, Stamp(t, e))
      BY <1>4
    <2> HIDE DEF t
    <2>4. PhaseInv(t) /\ t.status # "ABSENT"
      BY <1>4, <2>1, <2>2, SamePhase
    <2>5. QED
      BY <2>1, <2>3, <2>4, StampedTraced
  <1>5. ASSUME NEW c \in Contents, CreateFromTemplate(u, v, c, e)
        PROVE  PhasesOK' /\ Traced(e)
    <2>1. CASE s.status # "ABSENT" /\ StoreVersion(v, Stamp([s EXCEPT !.sourceDocx = c], e))
      BY <1>1, <1>4, <2>1
    <2>2. CASE StoreVersion(v, Stamp([NewVersion(u) EXCEPT !.sourceDocx = c], e))
      <3> DEFINE n == NewVersion(u)
      <3>1. n \in DocumentVersionState /\ PhaseInv(n) /\ n.status # "ABSENT"
        BY <1>2
      <3>2. StoreVersion(v, Stamp([n EXCEPT !.sourceDocx = c], e))
        BY <2>2
      <3> HIDE DEF n
      <3>3. QED
        BY <1>4, <3>1, <3>2
    <2>3. QED
      BY <1>5, <2>1, <2>2 DEF CreateFromTemplate, MutateOwnVersion, Exists
  <1>6. CASE EnsureSourcePdf(u, v)
    <2> DEFINE t == WithSourcePdf(s)
    <2>1. t \in DocumentVersionState /\ t = [s EXCEPT !.sourcePdf = t.sourcePdf]
      BY <1>1, SourcePdfRow
    <2>2. s.status # "ABSENT" /\ StoreVersion(v, t)
      BY <1>6 DEF EnsureSourcePdf, Exists
    <2> HIDE DEF t
    <2>3. t.status = s.status /\ t.workflowActive = s.workflowActive /\ t.profile = s.profile
      BY <1>1, <2>1 DEF DocumentVersionState
    <2>4. View(t) = View(s)
      BY <1>1, <2>1 DEF View, DocumentVersionState
    <2>5. PhaseInv(t)
      BY <1>1, <2>1, <2>3, SamePhase
    <2>6. QED
      BY <2>1, <2>2, <2>3, <2>4, <2>5, StoreTraced
  <1>7. QED
    BY <1>3, <1>5, <1>6

\* A release stamps its version and supersedes the other approved ones.
LEMMA ReleaseTraced ==
  ASSUME PhasesOK, NEW u \in Users, NEW v \in VersionNumbers, NEW e \in EventIds,
         AcceptApproval(u, v, e)
  PROVE  PhasesOK' /\ Traced(e)
  <1> DEFINE r == versions[v]
             s == Sign(r, "IN_APPROVAL->APPROVED")
             g == [s EXCEPT !.status = "APPROVED", !.approvalCompletedBy = u,
                            !.released = TRUE, !.workflowActive = FALSE]
             a == ApprovalAccepted(s, u)
             t == Stamp(a, e)
             Old(w) == [versions[w] EXCEPT !.status = "ARCHIVED", !.workflowActive = FALSE,
                                           !.archivedBy = u, !.supersededBy = v]
  <1>1. r \in DocumentVersionState /\ PhaseInv(r)
    BY PhaseOfRow
  <1>2. /\ r.status = "IN_APPROVAL"
        /\ versions' = [SupersedeOtherApproved(versions, v, u) EXCEPT ![v] = t]
    BY DEF AcceptApproval, MutateVersion, EvaluateWorkflowAction, Store
  <1>3. s \in DocumentVersionState /\ s = [r EXCEPT !.signedPdf = s.signedPdf]
    BY <1>1, SignRow DEF SignatureTransitions
  <1>4. g \in DocumentVersionState
    BY <1>3, RowFields DEF DocumentStatus
  <1>5. a \in DocumentVersionState /\ a = [g EXCEPT !.releasedPdf = a.releasedPdf]
    BY <1>4, ReleasedPdfRow DEF ApprovalAccepted
  <1> HIDE DEF s
  <1>6. g.status = "APPROVED" /\ g.profile = r.profile
    <2>1. s.profile = r.profile
      BY <1>1, <1>3 DEF DocumentVersionState
    <2>2. QED
      BY <1>3, <2>1 DEF DocumentVersionState
  <1> HIDE DEF a, g
  <1>7. PhaseInv(a) /\ a.status = "APPROVED"
    <2>1. a.status = "APPROVED" /\ a.profile = r.profile
      BY <1>4, <1>5, <1>6 DEF DocumentVersionState
    <2>2. QED
      BY <1>1, <1>2, <2>1 DEF PhaseInv, WorkPhases
  <1>8. /\ t \in DocumentVersionState /\ PhaseInv(t)
        /\ t.status = "APPROVED" /\ t.lastEvent = e
    BY <1>5, <1>7, StampedRow
  <1> HIDE DEF t
  <1>9. ASSUME NEW w \in VersionNumbers
        PROVE  /\ versions'[w] \in DocumentVersionState /\ PhaseInv(versions'[w])
               /\ Exists(w) => versions'[w].status # "ABSENT"
               /\ \/ versions'[w].lastEvent = e
                  \/ versions'[w] = versions[w]
                  \/ Superseded(versions'[w])
    <2>1. versions[w] \in DocumentVersionState /\ PhaseInv(versions[w])
      BY PhaseOfRow
    <2>2. CASE w = v
      <3>1. versions'[w] = t
        BY <1>2, <2>2 DEF SupersedeOtherApproved
      <3>2. QED
        BY <1>8, <3>1
    <2>3. CASE w # v /\ versions[w].status = "APPROVED"
      <3>1. versions'[w] = Old(w)
        BY <1>2, <2>3 DEF SupersedeOtherApproved
      <3>2. Old(w) \in DocumentVersionState
        BY <2>1, RowFields DEF DocumentStatus
      <3>3. /\ Old(w).supersededBy = v /\ Old(w).status = "ARCHIVED"
            /\ Old(w).profile = versions[w].profile
        BY <2>1 DEF DocumentVersionState
      <3> HIDE DEF Old
      <3>4. PhaseInv(Old(w)) /\ v # 0
        BY <2>1, <2>3, <3>3, VersionAssumption DEF PhaseInv, WorkPhases
      <3>5. QED
        BY <3>1, <3>2, <3>3, <3>4 DEF Superseded
    <2>4. CASE w # v /\ versions[w].status # "APPROVED"
      <3>1. versions'[w] = versions[w]
        BY <1>2, <2>4 DEF SupersedeOtherApproved
      <3>2. QED
        BY <2>1, <3>1 DEF Exists
    <2>5. QED
      BY <2>2, <2>3, <2>4
  <1>10. PhasesOK'
    BY <1>2, <1>9 DEF PhasesOK, TypeOK, SupersedeOtherApproved
  <1>11. Traced(e)
    BY <1>9 DEF Traced
  <1>12. QED
    BY <1>10, <1>11

\* The archived version and its successor carry the same event.
LEMMA SuccessorTraced ==
  ASSUME PhasesOK, NEW u \in Users, NEW v \in VersionNumbers, NEW next \in VersionNumbers,
         NEW e \in EventIds, CreateNewVersionAfterArchive(u, v, next, e)
  PROVE  PhasesOK' /\ Traced(e)
  <1> DEFINE s   == versions[v]
             old == [s EXCEPT !.supersededBy = next]
             new == NewVersion(s.owner)
  <1>1. s \in DocumentVersionState /\ PhaseInv(s)
    BY PhaseOfRow
  <1>2. /\ s.status = "ARCHIVED" /\ v # next
        /\ versions' = [versions EXCEPT ![v] = Stamp(old, e), ![next] = Stamp(new, e)]
    <2>1. next > v
      BY DEF CreateNewVersionAfterArchive
    <2>2. QED
      BY <2>1, VersionAssumption
         DEF CreateNewVersionAfterArchive, MutateVersion, EvaluateWorkflowAction, Store
  <1>3. old \in DocumentVersionState /\ PhaseInv(old) /\ old.status = "ARCHIVED"
    <2>1. old \in DocumentVersionState
      BY <1>1, RowFields
    <2>2. /\ old.status = s.status /\ old.workflowActive = s.workflowActive
          /\ old.profile = s.profile
      BY <1>1 DEF DocumentVersionState
    <2> HIDE DEF old
    <2>3. QED
      BY <1>1, <1>2, <2>1, <2>2, SamePhase
  <1>4. new \in DocumentVersionState /\ PhaseInv(new) /\ new.status = "PLANNED"
    <2>1. s.owner \in Users \cup {None}
      BY <1>1 DEF DocumentVersionState
    <2>2. new \in DocumentVersionState /\ PhaseInv(new)
      BY <2>1, NewVersionRow DEF RowInv
    <2>3. QED
      BY <2>2 DEF NewVersion
  <1> HIDE DEF old, new
  <1>5. /\ Stamp(old, e) \in DocumentVersionState /\ PhaseInv(Stamp(old, e))
        /\ Stamp(old, e).status = "ARCHIVED" /\ Stamp(old, e).lastEvent = e
        /\ Stamp(new, e) \in DocumentVersionState /\ PhaseInv(Stamp(new, e))
        /\ Stamp(new, e).status = "PLANNED" /\ Stamp(new, e).lastEvent = e
    BY <1>3, <1>4, StampedRow
  <1>6. versions \in [VersionNumbers -> DocumentVersionState]
    BY DEF PhasesOK, TypeOK
  <1>7. /\ versions'[v] = Stamp(old, e) /\ versions'[next] = Stamp(new, e)
        /\ \A w \in VersionNumbers : w # v /\ w # next => versions'[w] = versions[w]
    BY <1>2, <1>6
  <1>8. versions' \in [VersionNumbers -> DocumentVersionState]
    BY <1>2, <1>5, <1>6
  <1>9. \A w \in VersionNumbers : PhaseInv(versions'[w])
    BY <1>5, <1>7, PhaseOfRow
  <1>10. \A w \in VersionNumbers :
            Exists(w) => /\ versions'[w].status # "ABSENT"
                         /\ versions'[w].lastEvent = e \/ versions'[w] = versions[w]
    BY <1>5, <1>7 DEF Exists
  <1>11. QED
    BY <1>8, <1>9, <1>10 DEF PhasesOK, TypeOK, Traced

\* Whatever a client or the environment does to the rows.
LEMMA MutationTraced ==
  ASSUME PhasesOK, NEW u \in Users, NEW v \in VersionNumbers, NEW e \in EventIds,
         Mutation(u, v, e) \/ \E owner \in Users : CreateDocumentVersion(u, v, owner)
  PROVE  PhasesOK' /\ Traced(e)
  <1>1. CASE VersionMutation(u, v, e)
    BY <1>1, RecordTraced, MoveTraced, ReviewTraced, EditingTraced, ReleaseTraced,
       SuccessorTraced DEF VersionMutation
  <1>2. QED
    BY <1>1, IntakeTraced DEF Mutation

\* There is always a new event id.
LEMMA NewEventIsNew ==
  ASSUME LockTypeOK
  PROVE  NewEvent \in EventIds /\ NewEvent \notin HeldEvents
  <1> DEFINE stored == [v \in VersionNumbers |-> versions[v].lastEvent]
             loaded == [c \in Clients |-> clients[c].etag]
             kept   == upload.row.lastEvent
  <1>1. stored \in [VersionNumbers -> EventIds \cup {None}]
    BY DEF LockTypeOK, TypeOK, DocumentVersionState
  <1>2. loaded \in [Clients -> EventIds \cup {None}] /\ kept \in EventIds \cup {None}
    BY DEF LockTypeOK, DocumentVersionState
  <1>3. HeldEvents = {stored[v] : v \in VersionNumbers} \cup {loaded[c] : c \in Clients} \cup {kept}
    BY DEF HeldEvents
  <1> HIDE DEF stored, loaded, kept
  <1>4. \E e \in EventIds : e \notin HeldEvents
    <2>1. \E e \in EventIds : e \notin {stored[v] : v \in VersionNumbers}
                                     \cup {loaded[c] : c \in Clients} \cup {kept}
      BY <1>1, <1>2, EventAssumption, Zenon
    <2>2. QED
      BY <1>3, <2>1, Zenon
  <1>5. QED
    BY <1>4 DEF NewEvent

ClientRecord ==
    [user : Users \cup {None}, version : VersionNumbers \cup {0},
     etag : EventIds \cup {None}, current : BOOLEAN]

\* What one view tells of a row.
LEMMA SameView ==
  ASSUME NEW s \in DocumentVersionState, NEW t \in DocumentVersionState, View(t) = View(s)
  PROVE  t.lastEvent = s.lastEvent /\ (Superseded(t) <=> Superseded(s))
  <1>1. /\ View(s).lastEvent = s.lastEvent /\ View(s).status = s.status
        /\ View(s).supersededBy = s.supersededBy
    BY DEF View, DocumentVersionState
  <1>2. /\ View(t).lastEvent = t.lastEvent /\ View(t).status = t.status
        /\ View(t).supersededBy = t.supersededBy
    BY DEF View, DocumentVersionState
  <1>3. QED
    BY <1>1, <1>2 DEF Superseded

\* The heart of the argument: a client that only watches a traced change either
\* holds an ETag that no longer fits, or has lost nothing.
LEMMA WatchingClient ==
  ASSUME LInv, NEW e, e \notin HeldEvents, PhasesOK', Traced(e),
         NEW c \in Clients, clients'[c] = Noticed[c]
  PROVE  Noticed[c] \in ClientRecord /\ ClientOK(c)'
  <1> DEFINE k == clients[c]
             v == k.version
  <1>1. k \in ClientRecord /\ ClientOK(c)
    BY DEF LInv, LockTypeOK, ClientRecord
  <1>2. CASE v = 0
    <2>1. Noticed[c] = k
      BY <1>2 DEF Noticed
    <2>2. QED
      BY <1>1, <1>2, <2>1 DEF ClientOK
  <1>3. CASE v # 0
    <2> DEFINE same == View(versions'[v]) = View(versions[v])
               n    == [k EXCEPT !.current = @ /\ same]
    <2>1. Noticed[c] = n
      BY <1>3 DEF Noticed
    <2> HIDE DEF same
    <2>2. /\ n \in ClientRecord /\ n.user = k.user /\ n.version = v /\ n.etag = k.etag
          /\ n.current = (k.current /\ same)
      BY <1>1 DEF ClientRecord, same
    <2> HIDE DEF n
    <2>3. v \in VersionNumbers /\ k.user \in Users /\ Exists(v) /\ k.etag # e
      BY <1>1, <1>3 DEF ClientRecord, ClientOK, HeldEvents
    <2>4. /\ versions[v] \in DocumentVersionState
          /\ versions'[v] \in DocumentVersionState
      BY <2>3 DEF LInv, PhasesOK, TypeOK
    <2>5. versions'[v].status # "ABSENT"
      BY <2>3 DEF Traced
    <2>6. ASSUME k.etag = versions'[v].lastEvent
          PROVE  n.current \/ Superseded(versions'[v])
      <3>1. same \/ Superseded(versions'[v])
        BY <2>3, <2>6 DEF Traced, same
      <3>2. CASE same
        <4>1. /\ versions'[v].lastEvent = versions[v].lastEvent
              /\ Superseded(versions'[v]) <=> Superseded(versions[v])
          BY <2>4, <3>2, SameView DEF same
        <4>2. k.current \/ Superseded(versions[v])
          BY <1>1, <1>3, <2>6, <4>1 DEF ClientOK, EtagMatches
        <4>3. QED
          BY <2>2, <3>2, <4>1, <4>2
      <3>3. QED
        BY <3>1, <3>2
    <2>7. ClientOK(c)'
      BY <2>1, <2>2, <2>3, <2>5, <2>6 DEF ClientOK, EtagMatches, Exists
    <2>8. QED
      BY <2>1, <2>2, <2>7
  <1>4. QED
    BY <1>2, <1>3

\* A step on the rows that the clients only watch.
LEMMA WatchedStep ==
  ASSUME LInv, NEW e, e \notin HeldEvents, PhasesOK', Traced(e), clients' = Noticed
  PROVE  clients' \in [Clients -> ClientRecord] /\ \A c \in Clients : ClientOK(c)'
  <1>1. \A c \in Clients : Noticed[c] \in ClientRecord /\ ClientOK(c)'
    BY WatchingClient
  <1>2. QED
    BY <1>1 DEF Noticed

\* The upload in progress is not disturbed by a traced change.
LEMMA UploadUndisturbed ==
  ASSUME LInv, NEW e, Traced(e), UNCHANGED upload
  PROVE  UploadOK'
  BY DEF LInv, UploadOK, Traced, Exists

LEMMA LockStart == LockInit => LInv
  <1> SUFFICES ASSUME LockInit PROVE LInv
    OBVIOUS
  <1> USE DEF LockInit
  <1>1. Absent \in DocumentVersionState /\ PhaseInv(Absent)
    BY AbsentRow DEF RowInv
  <1>2. PhasesOK
    BY <1>1 DEF Init, PhasesOK, TypeOK
  <1>3. LockTypeOK
    BY <1>1, <1>2 DEF LockTypeOK, PhasesOK, NoClient, NoUpload
  <1>4. UploadOK
    BY <1>1 DEF UploadOK, NoUpload
  <1>5. \A c \in Clients : ClientOK(c)
    BY DEF ClientOK, NoClient
  <1>6. QED
    BY <1>2, <1>3, <1>4, <1>5 DEF LInv

\* A client loads a version.
LEMMA GetVersionKeepsLInv ==
  ASSUME LInv, NEW c \in Clients, NEW u \in Users, NEW v \in VersionNumbers,
         GetVersion(c, u, v)
  PROVE  LInv'
  <1> DEFINE n == [user |-> u, version |-> v, current |-> TRUE, etag |-> versions[v].lastEvent]
  <1>1. Exists(v) /\ clients' = [clients EXCEPT ![c] = n] /\ UNCHANGED <<versions, upload, lost>>
    BY DEF GetVersion
  <1>2. n \in ClientRecord
    BY DEF LInv, PhasesOK, TypeOK, DocumentVersionState, ClientRecord
  <1>3. n.user = u /\ n.version = v /\ n.current
    OBVIOUS
  <1> HIDE DEF n
  <1>4. clients \in [Clients -> ClientRecord]
    BY DEF LInv, LockTypeOK, ClientRecord
  <1>5. clients' \in [Clients -> ClientRecord] /\ clients'[c] = n
        /\ \A d \in Clients : d # c => clients'[d] = clients[d]
    BY <1>1, <1>2, <1>4
  <1>6. PhasesOK' /\ UploadOK' /\ ~lost'
    BY <1>1 DEF LInv, PhasesOK, TypeOK, UploadOK, Exists
  <1>7. LockTypeOK'
    BY <1>1, <1>5 DEF LInv, LockTypeOK, TypeOK, ClientRecord
  <1>8. ASSUME NEW d \in Clients PROVE ClientOK(d)'
    <2>1. CASE d = c
      BY <1>1, <1>3, <1>5, <2>1 DEF ClientOK, Exists
    <2>2. CASE d # c
      BY <1>1, <1>5, <2>2 DEF LInv, ClientOK, EtagMatches, Exists
    <2>3. QED
      BY <2>1, <2>2
  <1>9. QED
    BY <1>6, <1>7, <1>8 DEF LInv

\* A client sends its ETag and is answered with a new one.
LEMMA SubmitKeepsLInv ==
  ASSUME LInv, NEW c \in Clients, Submit(c, NewEvent)
  PROVE  LInv'
  <1> DEFINE e == NewEvent
             u == clients[c].user
             v == clients[c].version
             n == [user |-> u, version |-> v, current |-> TRUE, etag |-> versions'[v].lastEvent]
  <1>1. e \in EventIds /\ e \notin HeldEvents
    BY NewEventIsNew DEF LInv
  <1>2. /\ v # 0 /\ EtagMatches(c) /\ Mutation(u, v, e)
        /\ clients' = [Noticed EXCEPT ![c] = n]
        /\ lost' = (lost \/ ~ (clients[c].current \/ Superseded(versions[v])))
        /\ UNCHANGED upload
    BY DEF Submit
  <1> HIDE DEF e
  <1>3. clients \in [Clients -> ClientRecord] /\ ClientOK(c)
    BY DEF LInv, LockTypeOK, ClientRecord
  <1>4. u \in Users /\ v \in VersionNumbers /\ Exists(v)
    BY <1>2, <1>3 DEF ClientRecord, ClientOK
  <1>5. PhasesOK' /\ Traced(e)
    BY <1>1, <1>2, <1>4, MutationTraced DEF LInv
  <1>6. ~lost'
    BY <1>2, <1>3 DEF LInv, ClientOK
  <1>7. UploadOK'
    BY <1>2, <1>5, UploadUndisturbed
  <1>8. n \in ClientRecord
    BY <1>3, <1>4, <1>5 DEF PhasesOK, TypeOK, DocumentVersionState, ClientRecord
  <1>9. n.user = u /\ n.version = v /\ n.current
    OBVIOUS
  <1> HIDE DEF n
  <1>10. clients'[c] = n /\ \A d \in Clients : d # c => clients'[d] = Noticed[d]
    BY <1>2 DEF Noticed
  <1>11. ASSUME NEW d \in Clients PROVE clients'[d] \in ClientRecord /\ ClientOK(d)'
    <2>1. CASE d = c
      <3>1. versions'[v].status # "ABSENT"
        BY <1>4, <1>5 DEF Traced
      <3>2. QED
        BY <1>4, <1>8, <1>9, <1>10, <2>1, <3>1 DEF ClientOK, Exists
    <2>2. CASE d # c
      BY <1>1, <1>5, <1>10, <2>2, WatchingClient
    <2>3. QED
      BY <2>1, <2>2
  <1>12. clients' \in [Clients -> ClientRecord]
    BY <1>2, <1>11 DEF Noticed
  <1>13. LockTypeOK'
    BY <1>2, <1>5, <1>6, <1>12 DEF LInv, LockTypeOK, PhasesOK, ClientRecord
  <1>14. QED
    BY <1>5, <1>6, <1>7, <1>11, <1>13 DEF LInv

\* Another client, whatever it holds.
LEMMA OtherClientKeepsLInv ==
  ASSUME LInv, NEW u \in Users, NEW v \in VersionNumbers, OtherClient(u, v, NewEvent)
  PROVE  LInv'
  <1> DEFINE e == NewEvent
  <1>1. e \in EventIds /\ e \notin HeldEvents
    BY NewEventIsNew DEF LInv
  <1>2. /\ Mutation(u, v, e) \/ \E owner \in Users : CreateDocumentVersion(u, v, owner)
        /\ clients' = Noticed /\ UNCHANGED <<upload, lost>>
    BY DEF OtherClient
  <1> HIDE DEF e
  <1>3. PhasesOK' /\ Traced(e)
    BY <1>1, <1>2, MutationTraced DEF LInv
  <1>4. clients' \in [Clients -> ClientRecord] /\ \A c \in Clients : ClientOK(c)'
    BY <1>1, <1>2, <1>3, WatchedStep
  <1>5. UploadOK' /\ ~lost'
    BY <1>2, <1>3, UploadUndisturbed DEF LInv
  <1>6. LockTypeOK'
    BY <1>2, <1>3, <1>4, <1>5 DEF LInv, LockTypeOK, PhasesOK, ClientRecord
  <1>7. QED
    BY <1>3, <1>4, <1>5, <1>6 DEF LInv

UploadRecord ==
    [phase : {"idle", "uploading", "ensured"}, user : Users \cup {None},
     version : VersionNumbers \cup {0}, row : DocumentVersionState]

\* The upload of a template begins, or is given up.
LEMMA UploadKeepsLInv ==
  ASSUME LInv, TemplateFails \/ \E u \in Users, v \in VersionNumbers : TemplateUpload(u, v)
  PROVE  LInv'
  <1>1. Absent \in DocumentVersionState /\ PhaseInv(Absent)
    BY AbsentRow DEF RowInv
  <1>2. UNCHANGED <<versions, clients, lost>>
    BY DEF TemplateFails, TemplateUpload
  <1>3. upload' \in UploadRecord /\ UploadOK'
    <2>1. CASE TemplateFails
      BY <1>1, <2>1 DEF TemplateFails, NoUpload, UploadOK, UploadRecord
    <2>2. ASSUME NEW u \in Users, NEW v \in VersionNumbers, TemplateUpload(u, v)
          PROVE  upload' \in UploadRecord /\ UploadOK'
      BY <1>1, <2>2 DEF TemplateUpload, UploadOK, UploadRecord
    <2>3. QED
      BY <2>1, <2>2
  <1>4. LockTypeOK' /\ PhasesOK' /\ ~lost'
    BY <1>2, <1>3 DEF LInv, LockTypeOK, PhasesOK, TypeOK, UploadRecord
  <1>5. \A c \in Clients : ClientOK(c)'
    BY <1>2 DEF LInv, ClientOK, EtagMatches, Exists
  <1>6. QED
    BY <1>3, <1>4, <1>5 DEF LInv

\* The version is created by the upload, or taken as it is.
LEMMA EnsureVersionKeepsLInv ==
  ASSUME LInv, TemplateEnsureVersion
  PROVE  LInv'
  <1> DEFINE e == NewEvent
             u == upload.user
             v == upload.version
  <1>1. e \in EventIds /\ e \notin HeldEvents
    BY NewEventIsNew DEF LInv
  <1> HIDE DEF e
  <1>2. u \in Users /\ v \in VersionNumbers
    BY DEF LInv, UploadOK, TemplateEnsureVersion
  <1>3. clients' = Noticed /\ UNCHANGED lost
    BY DEF TemplateEnsureVersion
  <1>4. PhasesOK' /\ Traced(e) /\ upload' \in UploadRecord /\ UploadOK'
    <2>1. ASSUME NEW row \in DocumentVersionState, PhaseInv(row), row.status # "ABSENT",
                 upload' = [upload EXCEPT !.phase = "ensured", !.row = row],
                 versions'[v].status # "ABSENT"
          PROVE  upload' \in UploadRecord /\ UploadOK'
      <3>1. upload \in UploadRecord
        BY DEF LInv, LockTypeOK, UploadRecord
      <3>2. /\ upload' \in UploadRecord /\ upload'.user = u /\ upload'.version = v
            /\ upload'.row = row
        BY <2>1, <3>1 DEF UploadRecord
      <3>3. QED
        BY <1>2, <2>1, <3>2 DEF UploadOK, Exists
    <2>2. CASE /\ Exists(v) /\ UNCHANGED versions
               /\ upload' = [upload EXCEPT !.phase = "ensured", !.row = Row(versions[v])]
      <3> DEFINE s   == versions[v]
                 row == Row(s)
      <3>1. PhasesOK' /\ Traced(e)
        BY <2>2 DEF LInv, PhasesOK, TypeOK, Traced, Exists
      <3>2. s \in DocumentVersionState /\ PhaseInv(s)
        BY <1>2, PhaseOfRow DEF LInv
      <3>3. row \in DocumentVersionState
        BY <3>2, RowFields DEF Row
      <3>4. /\ row.status = s.status /\ row.workflowActive = s.workflowActive
            /\ row.profile = s.profile
        BY <3>2 DEF Row, DocumentVersionState
      <3>5. upload' = [upload EXCEPT !.phase = "ensured", !.row = row]
        BY <2>2
      <3> HIDE DEF row
      <3>6. PhaseInv(row) /\ row.status # "ABSENT" /\ versions'[v].status # "ABSENT"
        BY <2>2, <3>2, <3>3, <3>4, SamePhase DEF Exists
      <3>7. QED
        BY <2>1, <3>1, <3>3, <3>5, <3>6
    <2>3. CASE /\ CreateDocumentVersion(u, v, u)
               /\ upload' = [upload EXCEPT !.phase = "ensured", !.row = NewVersion(u)]
      <3> DEFINE row == NewVersion(u)
      <3>1. PhasesOK' /\ Traced(e)
        BY <1>1, <1>2, <2>3, IntakeTraced DEF LInv
      <3>2. row \in DocumentVersionState /\ PhaseInv(row)
        BY <1>2, NewVersionRow DEF RowInv
      <3>3. row.status = "PLANNED"
        BY DEF NewVersion
      <3>4. upload' = [upload EXCEPT !.phase = "ensured", !.row = row]
        BY <2>3
      <3>5. StoreVersion(v, row)
        BY <2>3 DEF CreateDocumentVersion
      <3> HIDE DEF row
      <3>6. versions'[v] = row
        BY <1>2, <3>5, StoreWritesOne DEF LInv, LockTypeOK
      <3>7. QED
        BY <2>1, <3>1, <3>2, <3>3, <3>4, <3>6
    <2>4. QED
      BY <2>2, <2>3 DEF TemplateEnsureVersion
  <1>5. clients' \in [Clients -> ClientRecord] /\ \A c \in Clients : ClientOK(c)'
    BY <1>1, <1>3, <1>4, WatchedStep
  <1>6. LockTypeOK' /\ ~lost'
    BY <1>3, <1>4, <1>5 DEF LInv, LockTypeOK, PhasesOK, ClientRecord, UploadRecord
  <1>7. QED
    BY <1>4, <1>5, <1>6 DEF LInv

\* The row read earlier is written back, but stamped: no ETag fits afterwards.
LEMMA TemplateStoreKeepsLInv ==
  ASSUME LInv, NEW x \in Contents, TemplateStore(x, NewEvent)
  PROVE  LInv'
  <1> DEFINE e   == NewEvent
             v   == upload.version
             now == versions[v]
             row == upload.row
             t   == [row EXCEPT !.sourceDocx = x, !.sourcePdf = now.sourcePdf,
                                !.signedPdf = now.signedPdf, !.releasedPdf = now.releasedPdf]
  <1>1. e \in EventIds /\ e \notin HeldEvents
    BY NewEventIsNew DEF LInv
  <1>2. /\ upload.phase = "ensured" /\ StoreVersion(v, Stamp(t, e))
        /\ upload' = NoUpload /\ clients' = Noticed /\ UNCHANGED lost
    BY DEF TemplateStore
  <1> HIDE DEF e
  <1>3. v \in VersionNumbers /\ row.status # "ABSENT" /\ PhaseInv(row)
    BY <1>2 DEF LInv, UploadOK
  <1>4. /\ row \in DocumentVersionState
        /\ now.sourcePdf \in Contents \cup {None} /\ now.signedPdf \in Contents \cup {None}
        /\ now.releasedPdf \in Contents \cup {None}
    BY <1>3 DEF LInv, LockTypeOK, TypeOK, DocumentVersionState
  <1>5. t \in DocumentVersionState
    BY <1>4, RowFields
  <1>6. t.status = row.status /\ t.workflowActive = row.workflowActive /\ t.profile = row.profile
    BY <1>4 DEF DocumentVersionState
  <1> HIDE DEF t
  <1>7. PhaseInv(t) /\ t.status # "ABSENT"
    BY <1>3, <1>4, <1>5, <1>6, SamePhase
  <1>8. PhasesOK' /\ Traced(e)
    BY <1>1, <1>2, <1>3, <1>5, <1>7, StampedTraced DEF LInv
  <1>9. upload' \in UploadRecord /\ UploadOK'
    BY <1>2, AbsentRow DEF NoUpload, UploadOK, UploadRecord, RowInv
  <1>10. clients' \in [Clients -> ClientRecord] /\ \A c \in Clients : ClientOK(c)'
    BY <1>1, <1>2, <1>8, WatchedStep
  <1>11. LockTypeOK' /\ ~lost'
    BY <1>2, <1>8, <1>9, <1>10 DEF LInv, LockTypeOK, PhasesOK, ClientRecord, UploadRecord
  <1>12. QED
    BY <1>8, <1>9, <1>10, <1>11 DEF LInv

(* The locking invariant holds whatever the clients and the upload do to the  *)
(* versions (documents_routes.py and the service behind it).                  *)
THEOREM LockInvariance == LockSpec => []LInv
  <1>1. LInv /\ [LockNext]_lockVars => LInv'
    <2> SUFFICES ASSUME LInv, [LockNext]_lockVars PROVE LInv'
      OBVIOUS
    <2>1. CASE UNCHANGED lockVars
      BY <2>1 DEF lockVars, LInv, LockTypeOK, PhasesOK, TypeOK, UploadOK, ClientOK, EtagMatches,
                  Exists
    <2>2. CASE LockNext
      BY <2>2, GetVersionKeepsLInv, UploadKeepsLInv, EnsureVersionKeepsLInv, SubmitKeepsLInv,
         OtherClientKeepsLInv, TemplateStoreKeepsLInv DEF LockNext
    <2>3. QED
      BY <2>1, <2>2
  <1>2. QED
    BY <1>1, LockStart, PTL DEF LockSpec

(* Rows, client copies and the upload always hold values of their kinds, also *)
(* when the upload writes back the row it read earlier.                       *)
THEOREM LockTypeCorrect == LockSpec => []LockTypeOK
  <1>1. LInv => LockTypeOK
    BY DEF LInv
  <1>2. QED
    BY <1>1, LockInvariance, PTL

(* No write that carries a matching If-Match replaces an update its author    *)
(* has not seen: for any number of clients and versions, the ETag of a copy   *)
(* that is no longer current never matches, except on a version superseded    *)
(* meanwhile.                                                                 *)
THEOREM NoUpdateIsLost == LockSpec => []NoLostUpdate
  <1>1. LInv => NoLostUpdate
    BY DEF LInv, NoLostUpdate
  <1>2. QED
    BY <1>1, LockInvariance, PTL

=============================================================================
