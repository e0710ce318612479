------------------------ MODULE TrainingAssignments ------------------------
(***************************************************************************)
(* Who has to be trained on which released version (modules/training): the *)
(* assignment snapshots, rebuilt from scope, tags, manual assignments and  *)
(* exemptions.  The inbox and the quiz read only the snapshots             *)
(* (TrainingQuiz).                                                         *)
(*                                                                         *)
(* Every repository call commits on its own: a rebuild reads its inputs,   *)
(* deletes all snapshots and writes the new ones one at a time, and may be *)
(* cut short after any of them; its inputs may change meanwhile.  One      *)
(* rebuild runs at a time.  One document is modelled; approved is its      *)
(* released version, 0 for none.                                           *)
(***************************************************************************)
EXTENDS Naturals, Sequences

CONSTANTS Users,         \* user ids
          MaxVersion,    \* number of versions of the document
          Tags,          \* tags of documents and users
          MaxManual,     \* bound on manual assignments
          MaxExemptions, \* bound on exemptions
          MaxCrashes     \* bound on interrupted rebuilds

ASSUME AssignmentConstants ==
    /\ MaxVersion \in Nat \ {0}
    /\ MaxManual \in Nat
    /\ MaxExemptions \in Nat
    /\ MaxCrashes \in Nat

VARIABLES approved,           \* the released version, 0 for none
          released,           \* the versions released so far
          scope,              \* users whose department or site fits the document
          docTags, userTags,  \* training_document_tags, training_user_tags
          manual,             \* training_manual_assignments
          exemptions,         \* training_exemptions, in the order granted
          snapshots,          \* training_assignment_snapshots
          rebuild,            \* what a running rebuild still has to write
          dirty,              \* inputs changed since a finished rebuild read them
          crashes             \* rebuilds interrupted so far

releases == <<approved, released>>
inputs == <<releases, scope, docTags, userTags, manual, exemptions>>
vars == <<inputs, snapshots, rebuild, dirty, crashes>>

Versions == 1 .. MaxVersion

AssignmentSource == {"SCOPE", "TAG", "MANUAL", "EXEMPTED"}
NoSnapshot == "NOT_RELEVANT"

\* No rebuild under way.
Idle == [busy |-> FALSE, todo |-> {}]

ManualAssignment == [user : Users, revoked : BOOLEAN]

\* valid_until: none, still to come, or over.
TrainingExemption ==
    [user : Users, version : Versions, revoked : BOOLEAN,
     until : {"unlimited", "future", "past"}]

TypeOK ==
    /\ approved \in 0 .. MaxVersion
    /\ released \subseteq Versions
    /\ scope \subseteq Users
    /\ docTags \subseteq Tags
    /\ userTags \in [Users -> SUBSET Tags]
    /\ manual \in Seq(ManualAssignment)
    /\ exemptions \in Seq(TrainingExemption)
    /\ snapshots \in [Users \X Versions -> AssignmentSource \cup {NoSnapshot}]
    /\ rebuild \in [busy : BOOLEAN,
                    todo : SUBSET (Users \X Versions \X AssignmentSource)]
    /\ dirty \in BOOLEAN
    /\ crashes \in 0 .. MaxCrashes

Init ==
    /\ approved = 0
    /\ released = {}
    /\ scope = {}
    /\ docTags = {}
    /\ userTags = [u \in Users |-> {}]
    /\ manual = <<>>
    /\ exemptions = <<>>
    /\ snapshots = [k \in Users \X Versions |-> NoSnapshot]
    /\ rebuild = Idle
    /\ dirty = FALSE
    /\ crashes = 0

-----------------------------------------------------------------------------
(* Inputs.  Each changes what the next rebuild computes; none starts one. *)

InputChanged ==
    /\ dirty' = TRUE
    /\ UNCHANGED <<snapshots, rebuild, crashes>>

\* A version is released and supersedes whichever is released now, a newer one
\* as well as an older one; an archived version is never released again
\* (DocumentsWorkflow).
ReleaseVersion ==
    /\ InputChanged
    /\ \E v \in Versions \ released : approved' = v /\ released' = released \cup {v}
    /\ UNCHANGED <<scope, docTags, userTags, manual, exemptions>>

\* archive_approved: the document has no released version any more.
ArchiveApproved ==
    /\ InputChanged
    /\ approved # 0
    /\ approved' = 0
    /\ UNCHANGED <<released, scope, docTags, userTags, manual, exemptions>>

\* A user's profile or the document's header is edited: ScopeResolver.matches
\* answers differently.
ScopeChanges(users) ==
    /\ InputChanged
    /\ scope' = users
    /\ UNCHANGED <<releases, docTags, userTags, manual, exemptions>>

SetDocumentTags(tags) ==
    /\ InputChanged
    /\ docTags' = tags
    /\ UNCHANGED <<releases, scope, userTags, manual, exemptions>>

SetUserTags(u, tags) ==
    /\ InputChanged
    /\ userTags' = [userTags EXCEPT ![u] = tags]
    /\ UNCHANGED <<releases, scope, docTags, manual, exemptions>>

GrantManualAssignment(u) ==
    /\ InputChanged
    /\ Len(manual) < MaxManual
    /\ manual' = Append(manual, [user |-> u, revoked |-> FALSE])
    /\ UNCHANGED <<releases, scope, docTags, userTags, exemptions>>

RevokeManualAssignment(i) ==
    /\ InputChanged
    /\ manual' = [manual EXCEPT ![i].revoked = TRUE]
    /\ UNCHANGED <<releases, scope, docTags, userTags, exemptions>>

GrantExemption(u, v, until) ==
    /\ InputChanged
    /\ Len(exemptions) < MaxExemptions
    /\ exemptions' = Append(exemptions, [user |-> u, version |-> v,
                                         until |-> until, revoked |-> FALSE])
    /\ UNCHANGED <<releases, scope, docTags, userTags, manual>>

RevokeExemption(i) ==
    /\ InputChanged
    /\ exemptions' = [exemptions EXCEPT ![i].revoked = TRUE]
    /\ UNCHANGED <<releases, scope, docTags, userTags, manual>>

\* valid_until passes; nothing is told.
ExemptionExpires(i) ==
    /\ InputChanged
    /\ exemptions[i].until = "future"
    /\ exemptions' = [exemptions EXCEPT ![i].until = "past"]
    /\ UNCHANGED <<releases, scope, docTags, userTags, manual>>

-----------------------------------------------------------------------------
(* The projection. *)

\* Indices of the unrevoked exemptions of u and v.
ActiveExemptions(u, v) ==
    {i \in DOMAIN exemptions : /\ exemptions[i].user = u
                               /\ exemptions[i].version = v
                               /\ ~exemptions[i].revoked}

\* exemption_map: each row overwrites the one granted before it.
Exempted(u, v) ==
    \E i \in ActiveExemptions(u, v) :
        /\ exemptions[i].until # "past"
        /\ \A j \in ActiveExemptions(u, v) : j <= i

ManualMatch(u) == \E i \in DOMAIN manual : manual[i].user = u /\ ~manual[i].revoked

TagMatch(u) == docTags \cap userTags[u] # {}

\* Mutant of Resolve: a manual assignment outranks the exemption.
ResolveManualFirst(u, v) ==
    IF      ManualMatch(u)  THEN "MANUAL"
    ELSE IF Exempted(u, v)  THEN "EXEMPTED"
    ELSE IF TagMatch(u)     THEN "TAG"
    ELSE IF u \in scope     THEN "SCOPE"
    ELSE                         NoSnapshot

\* TrainingAssignmentResolver.resolve, the sources in priority order.
Resolve(u, v) ==
    IF      Exempted(u, v)  THEN "EXEMPTED"
    ELSE IF ManualMatch(u)  THEN "MANUAL"
    ELSE IF TagMatch(u)     THEN "TAG"
    ELSE IF u \in scope     THEN "SCOPE"
    ELSE                         NoSnapshot

\* Mutant of Projection: newer versions are projected as well, drafts included.
ProjectDrafts ==
    {k \in Users \X Versions \X AssignmentSource :
        k[2] >= approved /\ k[3] = Resolve(k[1], k[2])}

\* The snapshots of the released documents.
Projection ==
    {k \in Users \X Versions \X AssignmentSource :
        k[2] = approved /\ k[3] = Resolve(k[1], k[2])}

\* rebuild_all: read the inputs, delete every snapshot ...
RebuildAll ==
    /\ ~rebuild.busy
    /\ rebuild' = [busy |-> TRUE, todo |-> Projection]
    /\ snapshots' = [k \in Users \X Versions |-> NoSnapshot]
    /\ dirty' = FALSE
    /\ UNCHANGED <<inputs, crashes>>

\* ... and write the new ones, one transaction each.
UpsertSnapshot ==
    /\ \E k \in rebuild.todo :
          /\ snapshots' = [snapshots EXCEPT ![<<k[1], k[2]>>] = k[3]]
          /\ rebuild' = [rebuild EXCEPT !.todo = @ \ {k}]
    /\ UNCHANGED <<inputs, dirty, crashes>>

RebuildEnds ==
    /\ rebuild.busy
    /\ rebuild.todo = {}
    /\ rebuild' = Idle
    /\ UNCHANGED <<inputs, snapshots, dirty, crashes>>

\* The process dies in the middle of it.
RebuildInterrupted ==
    /\ rebuild.busy
    /\ crashes < MaxCrashes
    /\ crashes' = crashes + 1
    /\ rebuild' = Idle
    /\ dirty' = TRUE
    /\ UNCHANGED <<inputs, snapshots>>

-----------------------------------------------------------------------------
Assigning ==
    \/ ReleaseVersion
    \/ ArchiveApproved
    \/ \E users \in SUBSET Users : ScopeChanges(users)
    \/ \E tags \in SUBSET Tags : SetDocumentTags(tags)
    \/ \E u \in Users, tags \in SUBSET Tags : SetUserTags(u, tags)
    \/ \E u \in Users : GrantManualAssignment(u)
    \/ \E i \in DOMAIN manual : RevokeManualAssignment(i)
    \/ \E u \in Users, v \in Versions, until \in {"unlimited", "future", "past"} :
          GrantExemption(u, v, until)
    \/ \E i \in DOMAIN exemptions : RevokeExemption(i) \/ ExemptionExpires(i)

Projecting == RebuildAll \/ UpsertSnapshot \/ RebuildEnds \/ RebuildInterrupted

Next == Assigning \/ Projecting

Spec == Init /\ [][Next]_vars

-----------------------------------------------------------------------------
\* An unrevoked exemption of u for v that is not over.
ValidExemptions(u, v) ==
    {i \in ActiveExemptions(u, v) : exemptions[i].until # "past"}

Obliged(u) == ManualMatch(u) \/ TagMatch(u) \/ u \in scope

(***************************************************************************)
(* When a rebuild has run to its end and nothing changed since it read its *)
(* inputs, the snapshots say who has to be trained: none for a version     *)
(* that is not released (left over from an earlier or interrupted          *)
(* rebuild), an exempted user only with a valid exemption, and always with *)
(* one when it is the only one, everybody else exactly when obliged.       *)
(* (TrainingSnapshotProjector.rebuild_all)                                 *)
(***************************************************************************)
SnapshotsTrue ==
    (~rebuild.busy /\ ~dirty) =>
        \A u \in Users, v \in Versions :
            LET s == snapshots[<<u, v>>]
                only == /\ ValidExemptions(u, v) # {}
                        /\ ValidExemptions(u, v) = ActiveExemptions(u, v)
            IN  /\ v # approved => s = NoSnapshot
                /\ s = "EXEMPTED" => ValidExemptions(u, v) # {}
                /\ (v = approved /\ only) => s = "EXEMPTED"
                /\ (v = approved /\ s # "EXEMPTED") => ((s # NoSnapshot) <=> Obliged(u))

\* The refinement mapping: who has a snapshot, whatever its source.
View == INSTANCE AssignmentView
            WITH assigned <- {k \in Users \X Versions : snapshots[k] # NoSnapshot}

(***************************************************************************)
(* The projection implements AssignmentView, on which TrainingQuiz is      *)
(* built: snapshots vanish only all at once, come back one at a time, and  *)
(* never name a version that was not released, whatever is granted,        *)
(* revoked, released or archived while a rebuild is under way.             *)
(***************************************************************************)
ImplementsAssignmentView == View!ViewSpec

=============================================================================
