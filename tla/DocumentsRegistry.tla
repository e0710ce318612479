------------------------- MODULE DocumentsRegistry -------------------------
(***************************************************************************)
(* The registry entry of the document: the projection that other parts     *)
(* read to learn which version is valid.  A documents operation writes the *)
(* entry through a connection of the registry, which commits at once,      *)
(* while its own transaction is still open.  `versions' is what the        *)
(* operation sees, `committed' what survives when it is rolled back.       *)
(***************************************************************************)
EXTENDS DocumentsWorkflow, FiniteSetsExt

VARIABLES
    committed,   \* the rows as last committed
    inTxn,       \* an operation holds the lock and has not committed yet
    registry,    \* the committed registry entry
    rolledBack   \* history: a rollback since the registry was last rebuilt

registryVars == <<versions, committed, inTxn, registry, rolledBack>>

RegisterStates == {"VALID", "IN_REVIEW", "IN_PROGRESS", "INVALID", "ARCHIVED"}

NoEntry == [active |-> 0, state |-> None, findable |-> FALSE]

\* Which state a document's status is registered as.
MapRegisterState(status) ==
    CASE status = "APPROVED"    -> [state |-> "VALID",       findable |-> TRUE]
      [] status = "IN_REVIEW"   -> [state |-> "IN_REVIEW",   findable |-> TRUE]
      [] status = "IN_PROGRESS" -> [state |-> "IN_PROGRESS", findable |-> TRUE]
      [] status = "ARCHIVED"    -> [state |-> "ARCHIVED",    findable |-> FALSE]
      [] OTHER                  -> [state |-> "INVALID",     findable |-> TRUE]

\* Mutant: any archived version that is reported clears the active one.
ArchivedClearsActive(entry, v, status) ==
    [active   |-> IF status = "APPROVED" THEN v
                  ELSE IF status = "ARCHIVED" THEN 0 ELSE entry.active,
     state    |-> MapRegisterState(status).state,
     findable |-> MapRegisterState(status).findable]

\* Mutant: archiving the active version leaves it active.
ArchivedStaysActive(entry, v, status) ==
    [active   |-> IF status = "APPROVED" THEN v ELSE entry.active,
     state    |-> MapRegisterState(status).state,
     findable |-> MapRegisterState(status).findable]

\* The entry follows the version that was written last; the active version
\* changes only when a version is released or the active one is archived.
ApplyDocumentsState(entry, v, status) ==
    [active   |-> IF status = "APPROVED" THEN v
                  ELSE IF status = "ARCHIVED" /\ entry.active = v THEN 0
                  ELSE entry.active,
     state    |-> MapRegisterState(status).state,
     findable |-> MapRegisterState(status).findable]

\* An operation on v reports v; creating a successor reports v, then it.
\* Superseded versions are not reported.
SyncRegistry(v) ==
    LET reported  == ApplyDocumentsState(registry, v, versions'[v].status)
        successor == versions'[v].supersededBy
    IN  IF Exists(v) /\ successor # versions[v].supersededBy
        THEN ApplyDocumentsState(reported, successor, versions'[successor].status)
        ELSE reported

-----------------------------------------------------------------------------
Operation(u, v) ==
    /\ ~inTxn
    /\ \/ \E owner \in Users : CreateDocumentVersion(u, v, owner)
       \/ EnsureSourcePdf(u, v)
       \/ \E e \in EventIds :
             \/ \E c \in Contents : CreateFromTemplate(u, v, c, e)
             \/ VersionMutation(u, v, e)
    /\ registry' = SyncRegistry(v)
    /\ inTxn' = TRUE
    /\ UNCHANGED <<committed, rolledBack>>

Commit ==
    /\ inTxn
    /\ committed' = versions
    /\ inTxn' = FALSE
    /\ UNCHANGED <<versions, registry, rolledBack>>

\* The process dies, or the commit fails, after the registry was written.
Rollback ==
    /\ inTxn
    /\ versions' = committed
    /\ inTxn' = FALSE
    /\ rolledBack' = TRUE
    /\ UNCHANGED <<committed, registry>>

ApprovedVersions(rows) == {v \in VersionNumbers : rows[v].status = "APPROVED"}

StoredVersions(rows) == {v \in VersionNumbers : rows[v].status # "ABSENT"}

\* The entry the recovery drill computes from the documents database.
RebuiltEntry(rows) ==
    LET approved == ApprovedVersions(rows)
        basis    == IF approved # {} THEN "APPROVED" ELSE rows[Max(StoredVersions(rows))].status
    IN  [active   |-> IF approved # {} THEN Max(approved) ELSE 0,
         state    |-> MapRegisterState(basis).state,
         findable |-> MapRegisterState(basis).findable]

RebuildRegistryFromDocuments ==
    /\ ~inTxn
    /\ rolledBack
    /\ StoredVersions(committed) # {}
    /\ registry' = RebuiltEntry(committed)
    /\ rolledBack' = FALSE
    /\ UNCHANGED <<versions, committed, inTxn>>

RegistryInit ==
    /\ Init
    /\ committed = versions
    /\ inTxn = FALSE
    /\ registry = NoEntry
    /\ rolledBack = FALSE

RegistryNext ==
    \/ \E u \in Users, v \in VersionNumbers : Operation(u, v)
    \/ Commit
    \/ Rollback
    \/ RebuildRegistryFromDocuments

RegistrySpec == RegistryInit /\ [][RegistryNext]_registryVars

-----------------------------------------------------------------------------
(* The registry entry holds one of the register states of the registry        *)
(* contract, never a document status.                                         *)
RegistryTypeOK ==
    /\ TypeOK
    /\ committed \in [VersionNumbers -> DocumentVersionState]
    /\ inTxn \in BOOLEAN
    /\ rolledBack \in BOOLEAN
    /\ registry \in [active : VersionNumbers \cup {0}, state : RegisterStates \cup {None},
                     findable : BOOLEAN]

(* Unless an operation was rolled back after it had written the registry, the *)
(* active version of the registry is the APPROVED version of the document, or *)
(* none when there is none; and rebuilding the registry restores that for all *)
(* that follows.                                                              *)
ActiveIsApproved ==
    (~inTxn /\ ~rolledBack)
       => ApprovedVersions(committed) = IF registry.active = 0 THEN {} ELSE {registry.active}

(* An archived version is never the active one, rollbacks included (invariant *)
(* 7 of the contract).                                                        *)
ArchivedNeverActive ==
    \A v \in VersionNumbers : committed[v].status = "ARCHIVED" => registry.active # v

=============================================================================
