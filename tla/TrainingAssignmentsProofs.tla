---------------------- MODULE TrainingAssignmentsProofs ----------------------
(***************************************************************************)
(* Proofs about TrainingAssignments for any users, versions and tags, any  *)
(* number of assignments and exemptions, and any number of interrupted     *)
(* rebuilds: after a rebuild that ran to its end over unchanged inputs the *)
(* snapshots are true, and the projection implements AssignmentView.       *)
(***************************************************************************)
EXTENDS TrainingAssignments, WellFoundedInduction, TLAPS

\* What the snapshot of u and v is to be.
Projected(u, v) == IF v = approved THEN Resolve(u, v) ELSE NoSnapshot

\* The approved version was released, and so was every version that a rebuild
\* still has to write, whatever has become of it since.
TodoReleased ==
    /\ approved \in released \cup {0}
    /\ \A k \in rebuild.todo : k[2] \in released

\* Only a running rebuild has something to write.
IdleHasNothing == ~rebuild.busy => rebuild.todo = {}

\* Unless the inputs have changed, what is still to be written is right, and
\* so is everything that is not.
WritesRight ==
    ~dirty =>
        /\ rebuild.todo \subseteq Projection
        /\ \A u \in Users, v \in Versions :
              <<u, v, Projected(u, v)>> \notin rebuild.todo
              => snapshots[<<u, v>>] = Projected(u, v)

\* The inductive invariant.
AInv == TypeOK /\ TodoReleased /\ IdleHasNothing /\ WritesRight

-----------------------------------------------------------------------------
\* The sources are taken in the order of their priority.
LEMMA ResolveOrder ==
  ASSUME NEW u, NEW v
  PROVE  /\ Resolve(u, v) \in AssignmentSource \cup {NoSnapshot}
         /\ Resolve(u, v) = "EXEMPTED" <=> Exempted(u, v)
         /\ ~Exempted(u, v) => (Resolve(u, v) # NoSnapshot <=> Obliged(u))
  BY DEF Resolve, AssignmentSource, NoSnapshot, Obliged

\* A set of positions of a sequence has a greatest member.
LEMMA GreatestPosition ==
  ASSUME NEW n \in Nat, NEW A, A \subseteq 1 .. n, A # {}
  PROVE  \E i \in A : \A j \in A : j <= i
  <1> DEFINE Bounds == {m \in Nat : \A j \in A : j <= m}
  <1>1. Bounds # {} /\ Bounds \subseteq Nat
    <2>1. n \in Bounds
      OBVIOUS
    <2>2. QED
      BY <2>1
  <1>2. PICK m \in Bounds : \A k \in Bounds : ~(<<k, m>> \in OpToRel(<, Nat))
    <2> HIDE DEF Bounds
    <2> QED
      BY <1>1, NatLessThanWellFounded, WFMin
  <1>3. m \in A
    <2> SUFFICES ASSUME m \notin A PROVE FALSE
      OBVIOUS
    <2>1. m \in Nat /\ \A j \in A : j \in Nat /\ 1 <= j /\ j < m
      OBVIOUS
    <2>2. m > 0
      <3>1. PICK j \in A : TRUE
        OBVIOUS
      <3>2. QED
        BY <2>1, <3>1
    <2>3. m - 1 \in Nat /\ \A j \in A : j <= m - 1
      BY <2>1, <2>2
    <2>4. m - 1 \in Bounds
      BY <2>3
    <2>5. <<m - 1, m>> \in {ss \in Nat \X Nat : ss[1] < ss[2]}
      BY <2>1, <2>2
    <2>6. QED
      BY <1>2, <2>4, <2>5 DEF OpToRel
  <1>4. QED
    BY <1>3

\* A valid exemption that no later one overrides exempts.
LEMMA OnlyValidExemptions ==
  ASSUME TypeOK, NEW u \in Users, NEW v \in Versions,
         ValidExemptions(u, v) # {}, ValidExemptions(u, v) = ActiveExemptions(u, v)
  PROVE  Exempted(u, v)
  <1>1. Len(exemptions) \in Nat /\ ActiveExemptions(u, v) \subseteq 1 .. Len(exemptions)
    BY DEF TypeOK, ActiveExemptions
  <1>2. PICK i \in ActiveExemptions(u, v) : \A j \in ActiveExemptions(u, v) : j <= i
    BY <1>1, GreatestPosition
  <1>3. exemptions[i].until # "past"
    BY <1>2 DEF ValidExemptions
  <1>4. QED
    BY <1>2, <1>3 DEF Exempted

\* A step that leaves the inputs alone leaves what is to be projected alone.
LEMMA InputsDecide ==
  ASSUME UNCHANGED inputs
  PROVE  /\ Projection' = Projection
         /\ \A u, v : Projected(u, v)' = Projected(u, v)
  BY DEF inputs, releases, Projection, Projected, Resolve, Exempted, ActiveExemptions,
         ManualMatch, TagMatch, Versions, AssignmentSource, NoSnapshot

-----------------------------------------------------------------------------
LEMMA InitAInv == Init => AInv
  <1> SUFFICES ASSUME Init PROVE AInv
    OBVIOUS
  <1> USE DEF Init
  <1>1. TypeOK
    <2>1. manual \in Seq(ManualAssignment) /\ exemptions \in Seq(TrainingExemption)
      OBVIOUS
    <2>2. snapshots \in [Users \X Versions -> AssignmentSource \cup {NoSnapshot}]
      OBVIOUS
    <2>3. userTags \in [Users -> SUBSET Tags]
      OBVIOUS
    <2>4. rebuild \in [busy : BOOLEAN,
                        todo : SUBSET (Users \X Versions \X AssignmentSource)]
      BY DEF Idle
    <2>5. /\ approved \in 0 .. MaxVersion /\ released \subseteq Versions
          /\ crashes \in 0 .. MaxCrashes
      BY AssignmentConstants
    <2>6. QED
      BY <2>1, <2>2, <2>3, <2>4, <2>5 DEF TypeOK
  <1>2. TodoReleased /\ IdleHasNothing
    BY DEF TodoReleased, IdleHasNothing, Idle
  <1>3. WritesRight
    BY DEF WritesRight, Idle, Projected, Versions
  <1>4. QED
    BY <1>1, <1>2, <1>3 DEF AInv

\* Granting, revoking, releasing and archiving leave the projection to the next
\* rebuild.
LEMMA InputStep ==
  ASSUME AInv, InputChanged, TypeOK', released \subseteq released', approved' \in released' \cup {0}
  PROVE  AInv'
  BY DEF AInv, InputChanged, TodoReleased, IdleHasNothing, WritesRight

LEMMA AssigningAInv ==
  ASSUME AInv, Assigning
  PROVE  AInv'
  <1> USE AssignmentConstants DEF AInv, TypeOK, TodoReleased, releases
  <1>1. CASE ReleaseVersion
    <2>1. PICK v \in Versions : approved' = v /\ released' = released \cup {v}
      BY <1>1 DEF ReleaseVersion
    <2>2. InputChanged /\ approved' \in 0 .. MaxVersion /\ released' \subseteq Versions
      BY <1>1, <2>1 DEF ReleaseVersion, Versions
    <2>3. TypeOK'
      BY <1>1, <2>2 DEF ReleaseVersion, InputChanged, Versions
    <2>4. QED
      BY <2>1, <2>2, <2>3, InputStep
  <1>2. ASSUME NEW users \in SUBSET Users, ScopeChanges(users) PROVE AInv'
    BY <1>2, InputStep DEF ScopeChanges, InputChanged
  <1>3. ASSUME NEW tags \in SUBSET Tags, SetDocumentTags(tags) PROVE AInv'
    BY <1>3, InputStep DEF SetDocumentTags, InputChanged
  <1>4. ASSUME NEW u \in Users, NEW tags \in SUBSET Tags, SetUserTags(u, tags) PROVE AInv'
    BY <1>4, InputStep DEF SetUserTags, InputChanged
  <1>5. ASSUME NEW u \in Users, GrantManualAssignment(u) PROVE AInv'
    <2>1. manual' \in Seq(ManualAssignment)
      BY <1>5 DEF GrantManualAssignment, ManualAssignment
    <2>2. QED
      BY <1>5, <2>1, InputStep DEF GrantManualAssignment, InputChanged
  <1>6. ASSUME NEW i \in DOMAIN manual, RevokeManualAssignment(i) PROVE AInv'
    <2> DEFINE row == [manual[i] EXCEPT !.revoked = TRUE]
    <2>1. row \in ManualAssignment
      <3>1. manual[i] \in ManualAssignment
        OBVIOUS
      <3>2. QED
        BY <3>1 DEF ManualAssignment
    <2>2. manual' = [manual EXCEPT ![i] = row]
      BY <1>6 DEF RevokeManualAssignment
    <2> HIDE DEF row
    <2>3. manual' \in Seq(ManualAssignment)
      BY <2>1, <2>2
    <2>4. QED
      BY <1>6, <2>3, InputStep DEF RevokeManualAssignment, InputChanged
  <1>7. ASSUME NEW u \in Users, NEW v \in Versions,
               NEW until \in {"unlimited", "future", "past"}, GrantExemption(u, v, until)
        PROVE  AInv'
    <2>1. exemptions' \in Seq(TrainingExemption)
      BY <1>7 DEF GrantExemption, TrainingExemption
    <2>2. QED
      BY <1>7, <2>1, InputStep DEF GrantExemption, InputChanged
  <1>8. ASSUME NEW i \in DOMAIN exemptions, RevokeExemption(i) \/ ExemptionExpires(i)
        PROVE  AInv'
    <2>1. exemptions[i] \in TrainingExemption
      OBVIOUS
    <2>2. PICK row \in TrainingExemption : exemptions' = [exemptions EXCEPT ![i] = row]
      <3>1. [exemptions[i] EXCEPT !.revoked = TRUE] \in TrainingExemption
        BY <2>1 DEF TrainingExemption
      <3>2. [exemptions[i] EXCEPT !.until = "past"] \in TrainingExemption
        BY <2>1 DEF TrainingExemption
      <3>3. QED
        BY <1>8, <3>1, <3>2, Zenon DEF RevokeExemption, ExemptionExpires
    <2>3. exemptions' \in Seq(TrainingExemption)
      BY <2>2
    <2>4. InputChanged /\ UNCHANGED <<releases, scope, docTags, userTags, manual>>
      BY <1>8 DEF RevokeExemption, ExemptionExpires
    <2>5. QED
      BY <2>3, <2>4, InputStep DEF InputChanged
  <1>9. CASE ArchiveApproved
    BY <1>9, InputStep DEF ArchiveApproved, InputChanged
  <1> HIDE DEF AInv, TypeOK
  <1>10. QED
    BY <1>1, <1>2, <1>3, <1>4, <1>5, <1>6, <1>7, <1>8, <1>9 DEF Assigning

\* A rebuild starts from nothing and with everything still to be written.
LEMMA RebuildAllAInv ==
  ASSUME AInv, RebuildAll
  PROVE  AInv'
  <1> DEFINE todo == Projection
  <1>1. todo \subseteq Users \X Versions \X AssignmentSource
    BY DEF Projection
  <1>2. \A k \in todo : k[2] = approved
    BY DEF Projection
  <1>3. approved' = approved /\ released' = released /\ approved \in released \cup {0}
    BY DEF AInv, TodoReleased, RebuildAll, inputs, releases
  <1>4. rebuild'.todo = todo /\ rebuild'.busy /\ ~dirty'
    BY DEF RebuildAll
  <1>5. \A u \in Users, v \in Versions :
           <<u, v, Projected(u, v)>> \notin todo => Projected(u, v) = NoSnapshot
    BY ResolveOrder DEF Projection, Projected
  <1>6. UNCHANGED inputs
    BY DEF RebuildAll
  <1>7. snapshots' = [k \in Users \X Versions |-> NoSnapshot]
    BY DEF RebuildAll
  <1>8. TypeOK'
    BY <1>1, <1>7 DEF AInv, TypeOK, RebuildAll, inputs, releases
  <1> HIDE DEF todo
  <1>9. TodoReleased' /\ IdleHasNothing'
    <2>1. \A k \in todo : k[2] # 0
      BY <1>1 DEF Versions
    <2>2. QED
      BY <1>2, <1>3, <1>4, <2>1 DEF TodoReleased, IdleHasNothing
  <1>10. WritesRight'
    <2>1. Projection' = todo /\ \A u, v : Projected(u, v)' = Projected(u, v)
      BY <1>6, InputsDecide DEF todo
    <2>2. \A u \in Users, v \in Versions : snapshots'[<<u, v>>] = NoSnapshot
      BY <1>7
    <2> HIDE DEF todo
    <2>3. QED
      BY <1>4, <1>5, <2>1, <2>2 DEF WritesRight
  <1>11. QED
    BY <1>8, <1>9, <1>10 DEF AInv

\* Writing a row moves it from what is still to be written to what is right.
LEMMA UpsertSnapshotAInv ==
  ASSUME AInv, UpsertSnapshot
  PROVE  AInv'
  <1> USE DEF AInv
  <1>1. PICK k \in rebuild.todo :
            /\ snapshots' = [snapshots EXCEPT ![<<k[1], k[2]>>] = k[3]]
            /\ rebuild' = [rebuild EXCEPT !.todo = @ \ {k}]
    BY DEF UpsertSnapshot
  <1>2. k \in Users \X Versions \X AssignmentSource
    BY DEF TypeOK
  <1>3. PICK u0 \in Users, v0 \in Versions, s0 \in AssignmentSource : k = <<u0, v0, s0>>
    BY <1>2
  <1>4. snapshots' = [snapshots EXCEPT ![<<u0, v0>>] = s0]
    BY <1>1, <1>3
  <1>5. rebuild'.todo = rebuild.todo \ {k} /\ rebuild'.busy = rebuild.busy
    BY <1>1 DEF TypeOK
  <1>6. UNCHANGED <<inputs, dirty, crashes>>
    BY DEF UpsertSnapshot
  <1>7. rebuild.busy
    BY DEF IdleHasNothing, TypeOK
  <1>8. TypeOK'
    <2>1. snapshots' \in [Users \X Versions -> AssignmentSource \cup {NoSnapshot}]
      BY <1>4 DEF TypeOK
    <2>2. rebuild' \in [busy : BOOLEAN,
                         todo : SUBSET (Users \X Versions \X AssignmentSource)]
      BY <1>1 DEF TypeOK
    <2>3. QED
      BY <1>6, <2>1, <2>2 DEF TypeOK, inputs, releases
  <1>9. TodoReleased' /\ IdleHasNothing'
    BY <1>5, <1>6, <1>7 DEF TodoReleased, IdleHasNothing, inputs, releases
  <1>10. WritesRight'
    <2> SUFFICES ASSUME ~dirty
                 PROVE  /\ rebuild'.todo \subseteq Projection
                        /\ \A u \in Users, v \in Versions :
                              <<u, v, Projected(u, v)>> \notin rebuild'.todo
                              => snapshots'[<<u, v>>] = Projected(u, v)
      BY <1>6, InputsDecide DEF WritesRight
    <2>1. rebuild.todo \subseteq Projection
      BY DEF WritesRight
    <2>2. s0 = Projected(u0, v0)
      BY <1>3, <2>1 DEF Projection, Projected
    <2>3. ASSUME NEW u \in Users, NEW v \in Versions,
                 <<u, v, Projected(u, v)>> \notin rebuild'.todo
          PROVE  snapshots'[<<u, v>>] = Projected(u, v)
      <3>1. CASE u = u0 /\ v = v0
        BY <1>4, <2>2, <3>1 DEF TypeOK
      <3>2. CASE ~(u = u0 /\ v = v0)
        <4>1. <<u, v, Projected(u, v)>> \notin rebuild.todo
          BY <1>3, <1>5, <2>3, <3>2
        <4>2. snapshots[<<u, v>>] = Projected(u, v)
          BY <4>1 DEF WritesRight
        <4>3. snapshots'[<<u, v>>] = snapshots[<<u, v>>]
          BY <1>4, <3>2 DEF TypeOK
        <4>4. QED
          BY <4>2, <4>3
      <3>3. QED
        BY <3>1, <3>2
    <2>4. QED
      BY <1>5, <2>1, <2>3
  <1>11. QED
    BY <1>8, <1>9, <1>10

LEMMA RebuildStopsAInv ==
  ASSUME AInv, RebuildEnds \/ RebuildInterrupted
  PROVE  AInv'
  <1> USE DEF AInv
  <1>1. UNCHANGED <<inputs, snapshots>> /\ rebuild' = Idle
    BY DEF RebuildEnds, RebuildInterrupted
  <1>2. rebuild'.todo = {} /\ ~rebuild'.busy
    BY <1>1 DEF Idle
  <1>3. dirty' \in BOOLEAN /\ crashes' \in 0 .. MaxCrashes
    <2>1. CASE RebuildEnds
      BY <2>1 DEF RebuildEnds, TypeOK
    <2>2. CASE RebuildInterrupted
      <3>1. crashes \in 0 .. MaxCrashes /\ crashes < MaxCrashes /\ crashes' = crashes + 1
        BY <2>2 DEF RebuildInterrupted, TypeOK
      <3>2. crashes' \in 0 .. MaxCrashes
        BY <3>1, AssignmentConstants
      <3>3. QED
        BY <2>2, <3>2 DEF RebuildInterrupted
    <2>3. QED
      BY <2>1, <2>2
  <1>4. TypeOK'
    BY <1>1, <1>3 DEF TypeOK, inputs, releases, Idle
  <1>5. TodoReleased' /\ IdleHasNothing'
    BY <1>1, <1>2 DEF TodoReleased, IdleHasNothing, inputs, releases
  <1>6. WritesRight'
    <2>1. ~dirty' => ~dirty /\ rebuild.todo = {}
      BY DEF RebuildEnds, RebuildInterrupted
    <2>2. QED
      BY <1>1, <1>2, <2>1, InputsDecide DEF WritesRight
  <1>7. QED
    BY <1>4, <1>5, <1>6

LEMMA NextAInv == AInv /\ [Next]_vars => AInv'
  <1> SUFFICES ASSUME AInv, [Next]_vars PROVE AInv'
    OBVIOUS
  <1>1. CASE Assigning
    BY <1>1, AssigningAInv
  <1>2. CASE Projecting
    BY <1>2, RebuildAllAInv, UpsertSnapshotAInv, RebuildStopsAInv DEF Projecting
  <1>3. CASE UNCHANGED vars
    <2>1. UNCHANGED <<inputs, snapshots, rebuild, dirty, crashes>>
      BY <1>3 DEF vars
    <2>2. TypeOK'
      BY <2>1 DEF AInv, TypeOK, inputs, releases
    <2>3. TodoReleased' /\ IdleHasNothing'
      BY <2>1 DEF AInv, TodoReleased, IdleHasNothing, inputs, releases
    <2>4. WritesRight'
      BY <2>1, InputsDecide DEF AInv, WritesRight
    <2>5. QED
      BY <2>2, <2>3, <2>4 DEF AInv
  <1>4. QED
    BY <1>1, <1>2, <1>3 DEF Next

-----------------------------------------------------------------------------
\* The inductive invariant holds in every reachable state: until an input
\* changes, a rebuild has written, or still has to write, exactly the rows of
\* the projection, and never one of a version that was not released.
\* (rebuild_all)
THEOREM AssignmentsInvariance == Spec => []AInv
  BY InitAInv, NextAInv, PTL DEF Spec

\* After a rebuild that ran to its end, over inputs unchanged since it read
\* them, the snapshots say who has to be trained.  (rebuild_all)
THEOREM SnapshotsAreTrue == Spec => []SnapshotsTrue
  <1>1. AInv => SnapshotsTrue
    <2> SUFFICES ASSUME AInv, ~rebuild.busy, ~dirty, NEW u \in Users, NEW v \in Versions
                 PROVE  LET s == snapshots[<<u, v>>]
                            only == /\ ValidExemptions(u, v) # {}
                                    /\ ValidExemptions(u, v) = ActiveExemptions(u, v)
                        IN  /\ v # approved => s = NoSnapshot
                            /\ s = "EXEMPTED" => ValidExemptions(u, v) # {}
                            /\ (v = approved /\ only) => s = "EXEMPTED"
                            /\ (v = approved /\ s # "EXEMPTED")
                               => ((s # NoSnapshot) <=> Obliged(u))
      BY DEF SnapshotsTrue
    <2>1. snapshots[<<u, v>>] = Projected(u, v)
      BY DEF AInv, WritesRight, IdleHasNothing
    <2>2. Exempted(u, v) => ValidExemptions(u, v) # {}
      BY DEF Exempted, ValidExemptions
    <2>3. ValidExemptions(u, v) # {} /\ ValidExemptions(u, v) = ActiveExemptions(u, v)
          => Exempted(u, v)
      BY OnlyValidExemptions DEF AInv
    <2>4. QED
      BY <2>1, <2>2, <2>3, ResolveOrder DEF Projected, NoSnapshot
  <1>2. QED
    BY <1>1, AssignmentsInvariance, PTL

-----------------------------------------------------------------------------
(* The refinement of AssignmentView. *)

\* The users and versions with a snapshot, as the mapping has it.
Assigned == {k \in Users \X Versions : snapshots[k] # NoSnapshot}

LEMMA StepRefines ==
  ASSUME AInv, [Next]_vars
  PROVE  View!ViewNext \/ (released' = released /\ Assigned' = Assigned)
  <1>1. CASE Assigning
    <2>1. UNCHANGED snapshots
      BY <1>1 DEF Assigning, ReleaseVersion, ArchiveApproved, ScopeChanges, SetDocumentTags,
           SetUserTags, GrantManualAssignment, RevokeManualAssignment, GrantExemption,
           RevokeExemption, ExemptionExpires, InputChanged
    <2>2. Assigned' = Assigned
      BY <2>1 DEF Assigned, Versions, NoSnapshot
    <2>3. CASE ReleaseVersion
      <3>1. \E v \in View!ViewVersions \ released : released' = released \cup {v}
        BY <2>3 DEF ReleaseVersion, View!ViewVersions, Versions
      <3>2. QED
        BY <2>2, <3>1 DEF View!ViewNext, View!Release, Assigned
    <2>4. CASE ~ReleaseVersion
      BY <1>1, <2>2, <2>4 DEF Assigning, ArchiveApproved, ScopeChanges, SetDocumentTags,
         SetUserTags, GrantManualAssignment, RevokeManualAssignment, GrantExemption,
         RevokeExemption, ExemptionExpires, releases
    <2>5. QED
      BY <2>3, <2>4
  <1>2. CASE RebuildAll
    <2>1. Assigned' = {}
      BY <1>2 DEF RebuildAll, Assigned, Versions, NoSnapshot
    <2>2. released' = released
      BY <1>2 DEF RebuildAll, inputs, releases
    <2>3. QED
      BY <2>1, <2>2 DEF View!ViewNext, View!DeleteAllSnapshots, Assigned
  <1>3. CASE UpsertSnapshot
    <2>1. PICK k \in rebuild.todo :
              snapshots' = [snapshots EXCEPT ![<<k[1], k[2]>>] = k[3]]
      BY <1>3 DEF UpsertSnapshot
    <2>2. k \in Users \X Versions \X AssignmentSource /\ k[2] \in released
      BY DEF AInv, TypeOK, TodoReleased
    <2>3. PICK u \in Users, v \in Versions, s \in AssignmentSource : k = <<u, v, s>>
      BY <2>2
    <2>4. snapshots' = [snapshots EXCEPT ![<<u, v>>] = s] /\ v \in released
      BY <2>1, <2>2, <2>3
    <2>5. s # NoSnapshot
      BY DEF AssignmentSource, NoSnapshot
    <2>6. Assigned' = Assigned \cup {<<u, v>>}
      BY <2>4, <2>5 DEF Assigned, AInv, TypeOK, Versions, NoSnapshot
    <2>7. released' = released
      BY <1>3 DEF UpsertSnapshot, inputs, releases
    <2>8. QED
      BY <2>4, <2>6, <2>7 DEF View!ViewNext, View!WriteSnapshot, Assigned
  <1>4. CASE RebuildEnds \/ RebuildInterrupted \/ UNCHANGED vars
    BY <1>4 DEF RebuildEnds, RebuildInterrupted, vars, inputs, releases, Assigned, Versions,
                NoSnapshot
  <1>5. QED
    BY <1>1, <1>2, <1>3, <1>4 DEF Next, Projecting

\* The projection implements AssignmentView, whatever is granted, revoked,
\* released or archived while a rebuild is under way and wherever one is cut
\* short: rows vanish only all at once, come back one at a time, and never name a
\* version that was not released.  (delete_all_snapshots, upsert_snapshot)
THEOREM AssignmentsRefineView == Spec => ImplementsAssignmentView
  <1>1. Init => View!ViewInit
    BY DEF Init, View!ViewInit
  <1>2. AInv /\ [Next]_vars => [View!ViewNext]_<<released, Assigned>>
    BY StepRefines
  <1>3. QED
    BY <1>1, <1>2, AssignmentsInvariance, PTL
    DEF Spec, ImplementsAssignmentView, View!ViewSpec, Assigned
=============================================================================
