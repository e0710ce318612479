------------------------- MODULE DatabaseEvolution -------------------------
(***************************************************************************)
(* The preflight that brings a set of SQLite databases to the version of   *)
(* the installed software (qm_platform/persistence/database_evolution.py), *)
(* run by every program start, and the operator's restore of a backup set. *)
(*                                                                         *)
(* A start checks the journal, reads the statuses of all databases and     *)
(* takes the file lock only when something is pending.  Under the lock it  *)
(* backs the set up, writes the journal, migrates database by database and *)
(* step by step, verifies, and removes the journal.  A failure restores    *)
(* the backup; a crash leaves the journal, and the next start restores the *)
(* backup it names and stops.  The lock is a lock of the operating system: *)
(* a crash frees it, the journal and the files stay.                       *)
(***************************************************************************)
EXTENDS Naturals, Sequences, FiniteSets

CONSTANTS Procs,        \* programs on the machine (desktop, CLI, backend)
          NoProc,
          Specs,        \* the databases in the order of their ids
          Target,       \* the version of the installed software
          Work,         \* units of work the application may record
          MaxBackups,   \* bound: backup sets ever made
          MaxCrashes,   \* bound: killed programs
          MaxFaults     \* bound: restores that fail half way

ASSUME TargetAssumption == Target \in Nat \ {0}
ASSUME ProcAssumption == NoProc \notin Procs
ASSUME BoundAssumption == MaxBackups \in Nat /\ MaxCrashes \in Nat /\ MaxFaults \in Nat

\* The databases of the installation, in a sequence so that every program visits
\* them in the same order.
Databases == {Specs[i] : i \in DOMAIN Specs}
ASSUME SpecsAssumption == Specs \in Seq(Databases)

VARIABLES dbs,      \* the database files
          backups,  \* the backup sets, oldest first
          journal,  \* the backup set the journal names, 0 without a journal
          lock,     \* the holder of database-migration.lock
          pc,       \* where each program stands
          src,      \* the backup set a program restores from
          at,       \* the next entry of that set
          ledger,   \* history: the work recorded and not discarded by a restore
          torn,     \* history: a restore was broken off, or an application was open
                    \* on files another program was migrating or replacing, or the
                    \* operator chose a set that was saved half migrated or half
                    \* replaced
          crashes, faults

vars == <<dbs, backups, journal, lock, pc, src, at, ledger, torn, crashes, faults>>

Steps == {"idle", "check", "recover", "statuses", "pending", "backup", "journal",
          "migrating", "finishing", "undoing", "recovering", "replacing", "reverting",
          "running"}

\* A program in one of these steps copies a backup set over the databases.
Restoring == {"undoing", "recovering", "replacing", "reverting"}

\* A database file: its user_version, whether integrity, history, fingerprint and
\* the module's validators accept it, and the work recorded in it.
Content == [present : BOOLEAN, version : 0..Target, valid : BOOLEAN, rows : SUBSET Work]

Missing == [present |-> FALSE, version |-> 0, valid |-> TRUE, rows |-> {}]

\* The state status() reports.  An unversioned file is adoptable when it is valid.
Status(c) ==
    CASE ~ c.present                              -> "missing"
      [] c.present /\ ~ c.valid                   -> "blocked"
      [] c.present /\ c.valid /\ c.version = 0    -> "adoptable_v1"
      [] c.present /\ c.valid /\ c.version \in 1..(Target - 1) -> "pending"
      [] OTHER                                    -> "current"

\* All databases of a set are at the same version, in the same state and hold the
\* same work.
Even(set) == \A d, e \in Databases :
    /\ Status(set[d]) = Status(set[e])
    /\ set[d].version = set[e].version
    /\ set[d].rows = set[e].rows

\* Mutant: invalid databases are not held back.
NoneBlocked == FALSE

SomeBlocked == \E d \in Databases : Status(dbs[d]) = "blocked"
AllCurrent == \A d \in Databases : Status(dbs[d]) = "current"

TypeOK ==
    /\ dbs \in [Databases -> Content]
    /\ backups \in Seq([Databases -> Content])
    /\ journal \in 0..Len(backups)
    /\ lock \in Procs \cup {NoProc}
    /\ pc \in [Procs -> Steps]
    /\ src \in [Procs -> 0..Len(backups)]
    /\ at \in [Procs -> 1..(Len(Specs) + 1)]
    /\ ledger \subseteq Work
    /\ torn \in BOOLEAN
    /\ crashes \in 0..MaxCrashes
    /\ faults \in 0..MaxFaults
    /\ \A p \in Procs : pc[p] \in Restoring => src[p] # 0 /\ lock = p
-----------------------------------------------------------------------------
\* A release ships all its migrations together: the databases of an installation
\* are all new, all unversioned, or all at the version of an earlier release.
Init ==
    /\ \E c \in {Missing} \cup {[Missing EXCEPT !.present = TRUE, !.version = v] : v \in 0..Target} :
          dbs = [d \in Databases |-> c]
    /\ backups = << >>
    /\ journal = 0
    /\ lock = NoProc
    /\ pc = [p \in Procs |-> "idle"]
    /\ src = [p \in Procs |-> 0]
    /\ at = [p \in Procs |-> 1]
    /\ ledger = {}
    /\ torn = FALSE
    /\ crashes = 0
    /\ faults = 0
-----------------------------------------------------------------------------
\* Program p goes on to step s.
Goto(p, s) == pc' = [pc EXCEPT ![p] = s]

\* The preflight accepts the databases and the application of p opens them;
\* undecided when what it opens may still be replaced by a backup set.
Starts(p, undecided) ==
    /\ Goto(p, "running")
    /\ torn' = (torn \/ undecided)

\* The migration lock is released and the attempt ends with an error.
Fails(p) ==
    /\ Goto(p, "idle")
    /\ lock' = IF lock = p THEN NoProc ELSE lock
    /\ src' = [src EXCEPT ![p] = 0]
    /\ at' = [at EXCEPT ![p] = 1]

\* _restore_backup begins to copy set b over the databases.
BeginRestore(p, s, b) ==
    /\ Goto(p, s)
    /\ src' = [src EXCEPT ![p] = b]
    /\ at' = [at EXCEPT ![p] = 1]
-----------------------------------------------------------------------------
\* A program is started: it configures the databases and calls migrate().
StartProgram(p) ==
    /\ pc[p] = "idle"
    /\ Goto(p, "check")
    /\ UNCHANGED <<dbs, backups, journal, lock, src, at, ledger, torn, crashes, faults>>

\* has_interrupted_migration, read without the lock.
CheckJournal(p) ==
    /\ pc[p] = "check"
    /\ Goto(p, IF journal = 0 THEN "statuses" ELSE "recover")
    /\ UNCHANGED <<dbs, backups, journal, lock, src, at, ledger, torn, crashes, faults>>

\* The lock is not waited for.  Under it the journal is looked at again: it may be
\* gone, and then the attempt goes on without the lock.
RecoverInterrupted(p) ==
    /\ pc[p] = "recover"
    /\ \/ lock # NoProc /\ Fails(p)
       \/ lock = NoProc /\ journal = 0 /\ Goto(p, "statuses") /\ UNCHANGED <<lock, src, at>>
       \/ lock = NoProc /\ journal # 0 /\ lock' = p /\ BeginRestore(p, "recovering", journal)
    /\ UNCHANGED <<dbs, backups, journal, ledger, torn, crashes, faults>>

\* The statuses before the lock: a blocked database ends the attempt, and when
\* nothing is pending the application starts, without the lock and without a new
\* look at the journal.
Preflight(p) ==
    /\ pc[p] = "statuses"
    /\ \/ SomeBlocked /\ Goto(p, "idle") /\ UNCHANGED torn
       \/ AllCurrent /\ Starts(p, lock # NoProc \/ journal # 0)
       \/ ~ SomeBlocked /\ ~ AllCurrent /\ Goto(p, "pending") /\ UNCHANGED torn
    /\ UNCHANGED <<dbs, backups, journal, lock, src, at, ledger, crashes, faults>>

\* The lock, the second look at the journal and the refreshed statuses.
LockForMigration(p) ==
    /\ pc[p] = "pending"
    /\ \/ lock # NoProc /\ Goto(p, "idle") /\ UNCHANGED <<lock, src, at, torn>>
       \/ /\ lock = NoProc /\ journal # 0
          /\ lock' = p
          /\ BeginRestore(p, "recovering", journal)
          /\ UNCHANGED torn
       \/ /\ lock = NoProc /\ journal = 0 /\ SomeBlocked
          /\ Goto(p, "idle")
          /\ UNCHANGED <<lock, src, at, torn>>
       \/ /\ lock = NoProc /\ journal = 0 /\ AllCurrent
          /\ Starts(p, FALSE)
          /\ UNCHANGED <<lock, src, at>>
       \/ /\ lock = NoProc /\ journal = 0 /\ ~ SomeBlocked /\ ~ AllCurrent
          /\ lock' = p
          /\ Goto(p, "backup")
          /\ UNCHANGED <<src, at, torn>>
    /\ UNCHANGED <<dbs, backups, journal, ledger, crashes, faults>>

\* create_backup copies every database of the set, the current ones too.
CreateBackup(p) ==
    /\ pc[p] = "backup"
    /\ Len(backups) < MaxBackups
    /\ backups' = Append(backups, dbs)
    /\ Goto(p, "journal")
    /\ UNCHANGED <<dbs, journal, lock, src, at, ledger, torn, crashes, faults>>

\* The backup is busy or fails its integrity check, or the journal cannot be written.
PreparationFails(p) ==
    /\ pc[p] \in {"backup", "journal"}
    /\ Fails(p)
    /\ UNCHANGED <<dbs, backups, journal, ledger, torn, crashes, faults>>

WriteJournal(p) ==
    /\ pc[p] = "journal"
    /\ journal' = Len(backups)
    /\ Goto(p, "migrating")
    /\ UNCHANGED <<dbs, backups, lock, src, at, ledger, torn, crashes, faults>>

\* The databases the loop of migrate() has not finished.
Unfinished == {i \in DOMAIN Specs : dbs[Specs[i]].version < Target}

\* One step of _migrate_one is one transaction that holds the script, the history
\* row and user_version; adopting an unversioned file writes the last two only.
\* The script may leave rows behind that the module's validators refuse.
Stepped(c) ==
    {[c EXCEPT !.present = TRUE, !.version = @ + 1, !.valid = v] :
        v \in IF Status(c) = "adoptable_v1" THEN {c.valid} ELSE {c.valid, FALSE}}

\* Mutant: the step does not advance user_version.
MigrateInPlace(p) ==
    /\ pc[p] = "migrating"
    /\ Unfinished # {}
    /\ LET d == Specs[CHOOSE i \in Unfinished : \A j \in Unfinished : i <= j]
       IN  dbs' = [dbs EXCEPT ![d].present = TRUE]
    /\ UNCHANGED <<backups, journal, lock, pc, src, at, ledger, torn, crashes, faults>>

\* The next step of the first unfinished database, or its failure.
MigrateOne(p) ==
    /\ pc[p] = "migrating"
    /\ Unfinished # {}
    /\ \/ LET d == Specs[CHOOSE i \in Unfinished : \A j \in Unfinished : i <= j]
          IN  \E c \in Stepped(dbs[d]) : dbs' = [dbs EXCEPT ![d] = c]
          /\ UNCHANGED <<pc, src, at>>
       \/ BeginRestore(p, "undoing", journal) /\ UNCHANGED dbs
    /\ UNCHANGED <<backups, journal, lock, ledger, torn, crashes, faults>>

\* The statuses of the whole set after the last step.
VerifyMigration(p) ==
    /\ pc[p] = "migrating"
    /\ Unfinished = {}
    /\ \/ AllCurrent /\ Goto(p, "finishing") /\ UNCHANGED <<src, at>>
       \/ ~ AllCurrent /\ BeginRestore(p, "undoing", journal)
    /\ UNCHANGED <<dbs, backups, journal, lock, ledger, torn, crashes, faults>>

\* Mutant: the journal stays after a successful migration.
FinishKeepsJournal(p) ==
    /\ pc[p] = "finishing"
    /\ lock' = NoProc
    /\ Starts(p, FALSE)
    /\ UNCHANGED <<dbs, backups, journal, src, at, ledger, crashes, faults>>

\* The journal is removed, the lock released and the application starts.
FinishMigration(p) ==
    /\ pc[p] = "finishing"
    /\ journal' = 0
    /\ lock' = NoProc
    /\ Starts(p, FALSE)
    /\ UNCHANGED <<dbs, backups, src, at, ledger, crashes, faults>>
-----------------------------------------------------------------------------
\* database restore --backup-id b: under the lock, whatever the journal says, the
\* set is backed up for safety and then replaced.
RestoreCommand(p, b) ==
    /\ pc[p] = "idle"
    /\ lock = NoProc
    /\ Len(backups) < MaxBackups
    /\ lock' = p
    /\ backups' = Append(backups, dbs)
    /\ BeginRestore(p, "replacing", b)
    /\ torn' = (torn \/ ~ Even(backups[b]) \/ \E q \in Procs : pc[q] = "running")
    /\ UNCHANGED <<dbs, journal, ledger, crashes, faults>>

\* _restore_backup replaces one file; an absent one is removed.
ReplaceDatabase(p) ==
    /\ pc[p] \in Restoring
    /\ at[p] <= Len(Specs)
    /\ dbs' = [dbs EXCEPT ![Specs[at[p]]] = backups[src[p]][Specs[at[p]]]]
    /\ at' = [at EXCEPT ![p] = @ + 1]
    /\ UNCHANGED <<backups, journal, lock, pc, src, ledger, torn, crashes, faults>>

\* The last file is replaced.  A recovery or an undone migration removes the
\* journal and ends with an error; a restore of the operator leaves it, and discards
\* what the chosen set lacks.  A journal that is left has the last word: the next
\* start copies its set over the chosen one, which discards what that set lacks too.
EndRestore(p) ==
    /\ pc[p] \in Restoring
    /\ at[p] > Len(Specs)
    /\ Fails(p)
    /\ journal' = IF pc[p] \in {"undoing", "recovering"} THEN 0 ELSE journal
    /\ ledger' = IF pc[p] = "replacing"
                 THEN {w \in Work : \A d \in Databases :
                          /\ w \in backups[src[p]][d].rows
                          /\ journal # 0 => w \in backups[journal][d].rows}
                 ELSE ledger
    /\ UNCHANGED <<dbs, backups, torn, crashes, faults>>

\* Mutant: a recovery that fails half way removes the journal too.
RecoveryDropsJournal(p) ==
    /\ pc[p] = "recovering"
    /\ faults < MaxFaults
    /\ faults' = faults + 1
    /\ Fails(p)
    /\ journal' = 0
    /\ UNCHANGED <<dbs, backups, ledger, torn, crashes>>

\* A file cannot be replaced.  The operator's restore falls back to its safety
\* backup; an undone migration loses its journal all the same; a recovery keeps it.
ReplaceFails(p) ==
    /\ pc[p] \in Restoring
    /\ faults < MaxFaults
    /\ faults' = faults + 1
    /\ \/ /\ pc[p] = "replacing"
          /\ BeginRestore(p, "reverting", Len(backups))
          /\ UNCHANGED <<lock, journal, torn>>
       \/ /\ pc[p] = "recovering"
          /\ Fails(p)
          /\ UNCHANGED <<journal, torn>>
       \/ /\ pc[p] = "undoing"
          /\ Fails(p)
          /\ journal' = 0
          /\ torn' = TRUE
       \/ /\ pc[p] = "reverting"
          /\ Fails(p)
          /\ torn' = TRUE
          /\ UNCHANGED journal
    /\ UNCHANGED <<dbs, backups, ledger, crashes>>
-----------------------------------------------------------------------------
\* The application records a unit of work in all its databases.
Record(p, w) ==
    /\ pc[p] = "running"
    /\ w \in Work \ ledger
    /\ dbs' = [d \in Databases |-> [dbs[d] EXCEPT !.rows = @ \cup {w}]]
    /\ ledger' = ledger \cup {w}
    /\ UNCHANGED <<backups, journal, lock, pc, src, at, torn, crashes, faults>>

Close(p) ==
    /\ pc[p] = "running"
    /\ Goto(p, "idle")
    /\ UNCHANGED <<dbs, backups, journal, lock, src, at, ledger, torn, crashes, faults>>

\* A program is killed: the operating system frees its lock, the files stay.
Crash(p) ==
    /\ pc[p] \notin {"idle", "running"}
    /\ crashes < MaxCrashes
    /\ crashes' = crashes + 1
    /\ Fails(p)
    /\ torn' = (torn \/ pc[p] \in {"replacing", "reverting"})
    /\ UNCHANGED <<dbs, backups, journal, ledger, faults>>
-----------------------------------------------------------------------------
\* The steps a started program takes by itself.
Advance(p) ==
    \/ CheckJournal(p)
    \/ RecoverInterrupted(p)
    \/ Preflight(p)
    \/ LockForMigration(p)
    \/ CreateBackup(p)
    \/ PreparationFails(p)
    \/ WriteJournal(p)
    \/ MigrateOne(p)
    \/ VerifyMigration(p)
    \/ FinishMigration(p)
    \/ ReplaceDatabase(p)
    \/ EndRestore(p)

Next == \E p \in Procs :
    \/ StartProgram(p)
    \/ Advance(p)
    \/ \E b \in DOMAIN backups : RestoreCommand(p, b)
    \/ ReplaceFails(p)
    \/ \E w \in Work : Record(p, w)
    \/ Close(p)
    \/ Crash(p)

Spec == Init /\ [][Next]_vars /\ \A p \in Procs : WF_vars(Advance(p))
-----------------------------------------------------------------------------
\* The application that runs sees databases at the version of the software that
\* agree with each other and hold all work recorded in them, whatever migrations
\* failed or were killed before: unless a restore was broken off or another
\* program worked on the files meanwhile.
RunsOnWholeSet ==
    (~ torn /\ \E p \in Procs : pc[p] = "running") =>
        /\ AllCurrent
        /\ \A d, e \in Databases : dbs[d].rows = dbs[e].rows
        /\ \A d \in Databases : ledger \subseteq dbs[d].rows

\* A half migrated set is never left without the journal that gets it restored:
\* while nobody holds the lock and there is no journal, all databases are at the
\* same version, in the same state and hold the same work.
HalfMigratedIsJournaled ==
    (~ torn /\ lock = NoProc /\ journal = 0) =>
        Even(dbs)

\* What the journal names can be started from: its restore never ends in databases
\* that every later start refuses.
JournalLeadsBack ==
    journal # 0 => \A d \in Databases : Status(backups[journal][d]) # "blocked"

\* Every attempt comes to an end, also against another one that holds the lock.
AttemptEnds == \A p \in Procs : pc[p] # "idle" ~> pc[p] \in {"idle", "running"}
=============================================================================
