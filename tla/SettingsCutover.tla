-------------------------- MODULE SettingsCutover --------------------------
(***************************************************************************)
(* The one-time move of settings.json into the database, taken up by every *)
(* program start (qm_platform/settings/persistence_bootstrap.py).  The     *)
(* technical settings of the file (bucket B) go into the settings store,   *)
(* the policies (bucket C) into a residual archive whose hash is anchored  *)
(* in the store; a journal file remembers how far the move has come.  An   *)
(* installation without the file is seeded from the modules' defaults.     *)
(*                                                                         *)
(* The file, the journal and the archive belong to the application home,   *)
(* which desktop programs and the backend share.  The store is SQLite for  *)
(* the former and PostgreSQL for the latter, and a program knows only the  *)
(* modules registered when it attaches its settings.  A hash is modelled   *)
(* by the content it was taken of.  Bucket A (paths) is not moved, and the *)
(* buckets are disjoint, so a key is never in both store and archive.  The *)
(* keys of a module change together: a payload must have all its B keys.   *)
(* A value may have a type the module's schema does not allow; that is     *)
(* found out only where the value is used.                                 *)
(*                                                                         *)
(* Starts are modelled one at a time, and the file is left alone during    *)
(* one: the code neither excludes nor withstands anything else (README).   *)
(***************************************************************************)
EXTENDS Naturals, FiniteSets, FiniteSetsExt

CONSTANTS Programs,       \* programs that attach settings
          Backend,        \* those of them with a PostgreSQL DSN
          Registered,     \* the modules a program knows when it attaches, as
                          \* positions in the sorted list of module ids
          UserManagement, \* the module whose settings a start hardens
          LegacyFiles,    \* contents settings.json may have
          None,
          MaxTouches,     \* bound: changes of settings.json by an operator
          MaxCrashes      \* bound: starts that are killed or fail in a write

Modules == UNION {Registered[p] : p \in Programs}

\* Values of a file that do not fit the schema of their module.
IllTyped == "ill_typed"

ASSUME CutoverConstants ==
    /\ Backend \subseteq Programs
    /\ \A p \in Programs : Registered[p] \subseteq Nat /\ UserManagement \in Registered[p]
    /\ \A f \in LegacyFiles :
          /\ f.technical \subseteq Modules /\ f.policies \subseteq Modules
          /\ f.illTechnical \subseteq f.technical /\ f.illPolicies \subseteq f.policies
          /\ f.unknown \in BOOLEAN
          /\ f.id # IllTyped
    /\ {MaxTouches, MaxCrashes} \subseteq Nat

VARIABLES legacy,     \* settings.json, or None
          journal,    \* settings_cutover_journal.json, or None
          archive,    \* the residual archive: policies by module, or None
          store,      \* platform_settings and platform_settings_integrity
          pc,         \* where each program stands
          job,        \* what a starting program holds in memory
          touches, crashes

files == <<legacy, journal, archive>>
vars == <<files, store, pc, job, touches, crashes>>

Stores == {"sqlite", "postgres"}
Store(p) == IF p \in Backend THEN "postgres" ELSE "sqlite"

Steps == {"down", "ensure", "cutover", "journal", "archive", "anchor", "hash", "seed",
          "seed_anchor", "seed_journal", "import", "record", "close", "harden", "up"}
Starting == Steps \ {"down", "up"}

\* The settings of a module in the store: what the file or the defaults said, or
\* what a start wrote over it.
Origins == {f.id : f \in LegacyFiles} \cup {"default", IllTyped}
Technical == (Origins \ {IllTyped}) \cup {"changed", None}

\* What some of the modules have: a B or a C payload, or an archive.
Policies == UNION {[M -> Origins] : M \in SUBSET Modules}

Journal ==
    [status : {"in_progress", "completed"}, source : LegacyFiles \cup {None},
     planned : SUBSET Modules, imported : SUBSET Modules, archive : Policies \cup {None}]

\* None is no value of the program.
ASSUME NoneAssumption ==
    /\ None \notin LegacyFiles
    /\ None \notin Origins \cup {"changed"}
    /\ None \notin Policies
    /\ None \notin Journal

\* What set_integrity and replace_module_technical have written.
StoreState ==
    [technical : [Modules -> Technical], anchor : Policies \cup {None}, completed : BOOLEAN]

EmptyStore == [technical |-> [m \in Modules |-> None], anchor |-> None, completed |-> FALSE]

\* A start's local variables: the B payloads, the C payloads, the modules the
\* journal listed as imported, those handled in this run, and the journal.
Job ==
    [payload : Policies \cup {None}, policies : Policies \cup {None},
     already : SUBSET Modules, done : SUBSET Modules, journal : Journal \cup {None}]

NoJob == [payload |-> None, policies |-> None, already |-> {}, done |-> {}, journal |-> None]

TypeOK ==
    /\ legacy \in LegacyFiles \cup {None}
    /\ journal \in Journal \cup {None}
    /\ archive \in Policies \cup {None}
    /\ store \in [Stores -> StoreState]
    /\ pc \in [Programs -> Steps]
    /\ job \in [Programs -> Job]
    /\ \A p \in Programs : job[p].done \subseteq Registered[p]
    /\ touches \in 0 .. MaxTouches
    /\ crashes \in 0 .. MaxCrashes

Init ==
    /\ legacy \in LegacyFiles \cup {None}
    /\ journal = None
    /\ archive = None
    /\ store = [s \in Stores |-> EmptyStore]
    /\ pc = [p \in Programs |-> "down"]
    /\ job = [p \in Programs |-> NoJob]
    /\ touches = 0
    /\ crashes = 0
-----------------------------------------------------------------------------
InStatus(status) == journal # None /\ journal.status = status

\* _classify_source and _assert_legacy_c_complete.
Usable(p, file) == ~ file.unknown /\ Registered[p] \subseteq file.policies

\* The technical settings of module m when settings.json is the file.
FromFile(file, m) ==
    CASE m \in file.illTechnical                  -> IllTyped
      [] m \in file.technical \ file.illTechnical -> file.id
      [] OTHER                                    -> "default"

\* build_complete_bucket_b_payloads: defaults overridden by the file.
BucketB(p, file) == [m \in Registered[p] |-> FromFile(file, m)]

\* residual_by_module of the whole file, whatever is registered.
BucketC(file) ==
    [m \in file.policies |-> IF m \in file.illPolicies THEN IllTyped ELSE file.id]

DefaultsOf(p) == [m \in Registered[p] |-> "default"]

\* Mutant: the anchored hash is compared, completeness is not checked.
VerifiedOnly(p, completed) == archive # None => store[Store(p)].anchor = archive

\* attach_persistence with the anchored residual: the archive has the anchored
\* hash and every registered policy, of the right type, and a completed store
\* every B setting.
Attaches(p, completed) ==
    /\ archive # None => /\ store[Store(p)].anchor = archive
                         /\ Registered[p] \subseteq DOMAIN archive
                         /\ \A m \in Registered[p] : archive[m] # IllTyped
    /\ completed => \A m \in Registered[p] : store[Store(p)].technical[m] # None

\* Mutant: the source file is not compared with the journal.
AnySource(p) ==
    /\ InStatus("in_progress")
    /\ legacy # None /\ Usable(p, legacy)
    /\ journal.planned = Registered[p]
    /\ journal.archive # None
    /\ archive = journal.archive
    /\ store[Store(p)].anchor = journal.archive
    /\ Attaches(p, FALSE)

\* The checks of a resumed cutover.  A journal without source_path, left by a
\* seed, means the file at the usual place, with no hash to compare it with.
Resumable(p) ==
    /\ InStatus("in_progress")
    /\ legacy # None /\ Usable(p, legacy)
    /\ journal.source \in {None, legacy}
    /\ journal.planned = Registered[p]
    /\ journal.archive # None
    /\ archive = journal.archive
    /\ store[Store(p)].anchor = journal.archive
    /\ Attaches(p, FALSE)

CutoverDone(p) == store[Store(p)].completed /\ InStatus("completed")
-----------------------------------------------------------------------------
\* Program p goes on to step s.
Goto(p, s) == pc' = [pc EXCEPT ![p] = s]

\* The start of p ends with an error; what it has written stays.
Refuses(p) ==
    /\ Goto(p, "down")
    /\ job' = [job EXCEPT ![p] = NoJob]

\* The settings of p are attached as completed; the backend goes on to harden
\* its own.
ServesOrRefuses(p) ==
    IF Attaches(p, TRUE)
    THEN /\ Goto(p, IF p \in Backend THEN "harden" ELSE "up")
         /\ job' = [job EXCEPT ![p] = NoJob]
    ELSE Refuses(p)

\* No start is under way.
Quiet == \A p \in Programs : pc[p] \notin Starting

\* attach_settings_persistence opens the store.
Start(p) ==
    /\ pc[p] = "down"
    /\ Quiet
    /\ Goto(p, "ensure")
    /\ UNCHANGED <<files, store, job, touches, crashes>>

\* ensure_settings_residual_ready: cut over, resume, attach or seed.
EnsureResidualReady(p) ==
    /\ pc[p] = "ensure"
    /\ \/ /\ InStatus("in_progress")
          /\ Goto(p, "cutover") /\ UNCHANGED job
       \/ /\ ~ InStatus("in_progress") /\ store[Store(p)].completed
          /\ IF InStatus("completed") /\ store[Store(p)].anchor # None /\ archive # None
             THEN ServesOrRefuses(p)
             ELSE Refuses(p)
       \/ /\ ~ InStatus("in_progress") /\ ~ store[Store(p)].completed /\ legacy # None
          /\ Goto(p, "cutover") /\ UNCHANGED job
       \/ /\ ~ InStatus("in_progress") /\ ~ store[Store(p)].completed /\ legacy = None
          /\ IF archive # None
             THEN Refuses(p)
             ELSE /\ Goto(p, "seed")
                  /\ job' = [job EXCEPT ![p] =
                         [NoJob EXCEPT !.payload = DefaultsOf(p), !.policies = DefaultsOf(p)]]
    /\ UNCHANGED <<files, store, touches, crashes>>

\* run_settings_json_cutover up to its first write.  It reads the status and the
\* journal again; a snapshot may have completed the store in between.
BeginCutover(p) ==
    /\ pc[p] = "cutover"
    /\ \/ CutoverDone(p) /\ ServesOrRefuses(p)
       \/ InStatus("completed") /\ ~ store[Store(p)].completed /\ Refuses(p)
       \/ InStatus("in_progress") /\ ~ Resumable(p) /\ Refuses(p)
       \/ /\ InStatus("in_progress") /\ Resumable(p)
          /\ Goto(p, "import")
          /\ job' = [job EXCEPT ![p] =
                 [NoJob EXCEPT !.payload = BucketB(p, legacy),
                               !.already = journal.imported, !.journal = journal]]
       \/ journal = None /\ ~ Usable(p, legacy) /\ Refuses(p)
       \/ /\ journal = None /\ Usable(p, legacy)
          /\ Goto(p, "journal")
          /\ job' = [job EXCEPT ![p] =
                 [NoJob EXCEPT !.payload = BucketB(p, legacy), !.policies = BucketC(legacy)]]
    /\ UNCHANGED <<files, store, touches, crashes>>

NewJournal(p, source, digest) ==
    [status |-> "in_progress", source |-> source, planned |-> Registered[p],
     imported |-> {}, archive |-> digest]

\* The databases have been backed up; the file is hashed and the journal begun.
BeginJournal(p) ==
    /\ pc[p] = "journal"
    /\ Goto(p, "archive")
    /\ journal' = NewJournal(p, legacy, None)
    /\ job' = [job EXCEPT ![p].journal = journal']
    /\ UNCHANGED <<legacy, archive, store, touches, crashes>>

\* write_residual_archive_bytes, in a cutover and in a seed.
WriteArchive(p) ==
    /\ \/ pc[p] = "archive" /\ Goto(p, "anchor")
       \/ pc[p] = "seed" /\ Goto(p, "seed_anchor")
    /\ archive' = job[p].policies
    /\ UNCHANGED <<legacy, journal, store, job, touches, crashes>>

\* _anchor_residual_hash.
AnchorHash(p) ==
    /\ store' = [store EXCEPT ![Store(p)].anchor = job[p].policies]
    /\ \/ pc[p] = "anchor" /\ Goto(p, "hash")
       \/ pc[p] = "seed_anchor" /\ Goto(p, "seed_journal")
    /\ UNCHANGED <<files, job, touches, crashes>>

\* The hash is journaled and the archive attached; only now can p be resumed.  An
\* archive with ill-typed policies is refused, and the journal stays.
JournalHash(p) ==
    /\ \/ /\ pc[p] = "hash"
          /\ journal' = [job[p].journal EXCEPT !.archive = job[p].policies]
       \/ /\ pc[p] = "seed_journal"
          /\ journal' = NewJournal(p, None, job[p].policies)
    /\ IF Attaches(p, FALSE)
       THEN /\ Goto(p, "import")
            /\ job' = [job EXCEPT ![p].journal = journal']
       ELSE Refuses(p)
    /\ UNCHANGED <<legacy, archive, store, touches, crashes>>
-----------------------------------------------------------------------------
ToImport(p) == Registered[p] \ job[p].done

\* _import_bucket_b_modules gets to a module whose settings do not fit its schema:
\* set_module_settings raises.
ImportRefused(p) ==
    /\ pc[p] = "import"
    /\ ToImport(p) # {}
    /\ job[p].payload[Min(ToImport(p))] = IllTyped
    /\ Refuses(p)
    /\ UNCHANGED <<files, store, touches, crashes>>

\* _import_bucket_b_modules takes the next module and commits its settings,
\* unless the journal lists it and the store has them.
ImportModule(p) ==
    /\ pc[p] = "import"
    /\ ToImport(p) # {}
    /\ LET m == Min(ToImport(p))
           present == m \in job[p].already
                      /\ store[Store(p)].technical[m] = job[p].payload[m]
       IN /\ job[p].payload[m] # IllTyped
          /\ store' = [store EXCEPT ![Store(p)].technical[m] = job[p].payload[m]]
          /\ Goto(p, IF present THEN "import" ELSE "record")
          /\ job' = [job EXCEPT ![p].done = @ \cup {m}]
    /\ UNCHANGED <<files, touches, crashes>>

\* Mutant: the journal is rewritten without the hash of the archive.
RecordWithoutHash(p) ==
    /\ pc[p] = "record"
    /\ journal' = [job[p].journal EXCEPT !.imported = job[p].done, !.archive = None]
    /\ job' = [job EXCEPT ![p].journal = journal']
    /\ Goto(p, "import")
    /\ UNCHANGED <<legacy, archive, store, touches, crashes>>

\* The modules imported in this run are journaled.
RecordImport(p) ==
    /\ pc[p] = "record"
    /\ journal' = [job[p].journal EXCEPT !.imported = job[p].done]
    /\ job' = [job EXCEPT ![p].journal = journal']
    /\ Goto(p, "import")
    /\ UNCHANGED <<legacy, archive, store, touches, crashes>>

\* Everything is imported, and the store is marked completed.
MarkCompleted(p) ==
    /\ pc[p] = "import"
    /\ ToImport(p) = {}
    /\ store' = [store EXCEPT ![Store(p)].completed = TRUE]
    /\ Goto(p, "close")
    /\ UNCHANGED <<files, job, touches, crashes>>

\* Mutant: the journal stays in progress.
LeaveJournalOpen(p) ==
    /\ pc[p] = "close"
    /\ journal' = [job[p].journal EXCEPT !.imported = job[p].done]
    /\ ServesOrRefuses(p)
    /\ UNCHANGED <<legacy, archive, store, touches, crashes>>

\* The journal is completed and the settings attached for good.
CloseJournal(p) ==
    /\ pc[p] = "close"
    /\ journal' = [job[p].journal EXCEPT !.status = "completed", !.imported = job[p].done]
    /\ ServesOrRefuses(p)
    /\ UNCHANGED <<legacy, archive, store, touches, crashes>>

\* set_module_settings of module m through p: replace_module_technical.
SetModuleSettings(p, m) ==
    /\ store' = [store EXCEPT ![Store(p)].technical[m] = "changed"]
    /\ UNCHANGED <<files, job, touches, crashes>>

\* _force_hardened_usermanagement_settings ends the start of the backend.
ForceHardened(p) ==
    /\ pc[p] = "harden"
    /\ Goto(p, "up")
    /\ SetModuleSettings(p, UserManagement)

\* qmtool init, qmtool settings set and the settings pages of the desktop; the
\* backend has no route that changes settings.
ChangeSettings(p) ==
    /\ pc[p] = "up"
    /\ p \notin Backend
    /\ \E m \in Registered[p] : SetModuleSettings(p, m)
    /\ UNCHANGED pc

Stop(p) ==
    /\ pc[p] = "up"
    /\ Refuses(p)
    /\ UNCHANGED <<files, store, touches, crashes>>

\* A start is killed, or fails: the schema is not ready, the backup or a write
\* raises.
Crash(p) ==
    /\ pc[p] \in Starting
    /\ crashes < MaxCrashes
    /\ crashes' = crashes + 1
    /\ Refuses(p)
    /\ UNCHANGED <<files, store, touches>>

\* An operator puts another settings.json in place, or removes it.
TouchLegacy ==
    /\ Quiet
    /\ touches < MaxTouches
    /\ touches' = touches + 1
    /\ \E f \in (LegacyFiles \cup {None}) \ {legacy} : legacy' = f
    /\ UNCHANGED <<journal, archive, store, pc, job, crashes>>

\* import_legacy_sqlite_settings_readonly: an operator copies the SQLite store
\* into an empty PostgreSQL store, in one transaction.
ImportSnapshot ==
    /\ store["postgres"] = EmptyStore
    /\ store["sqlite"] # EmptyStore
    /\ store' = [store EXCEPT !["postgres"] = store["sqlite"]]
    /\ UNCHANGED <<files, pc, job, touches, crashes>>

\* The steps of a start.
Step(p) ==
    \/ EnsureResidualReady(p) \/ BeginCutover(p) \/ BeginJournal(p) \/ WriteArchive(p)
    \/ AnchorHash(p) \/ JournalHash(p) \/ ImportModule(p) \/ ImportRefused(p)
    \/ RecordImport(p) \/ MarkCompleted(p) \/ CloseJournal(p) \/ ForceHardened(p)

Next ==
    \/ \E p \in Programs : Start(p) \/ Step(p) \/ ChangeSettings(p) \/ Stop(p) \/ Crash(p)
    \/ TouchLegacy
    \/ ImportSnapshot

\* A start that is not killed goes on; every program is started again and again,
\* whatever other programs are started in between.
Fairness == \A p \in Programs : SF_vars(Start(p)) /\ WF_vars(Step(p))

Spec == Init /\ [][Next]_vars /\ Fairness
-----------------------------------------------------------------------------
\* A program that is up has completed its cutover, and as long as it is up its
\* settings are whole, whatever the other programs of the home do: the store is
\* marked completed and has the settings of every module the program knows, and
\* the archive is the anchored one and has every policy, of the right type.
\* (attach_persistence)
ServesWholeSettings ==
    \A p \in Programs : pc[p] = "up" =>
        /\ store[Store(p)].completed
        /\ InStatus("completed")
        /\ archive # None
        /\ archive = store[Store(p)].anchor
        /\ \A m \in Registered[p] :
              /\ m \in DOMAIN archive /\ archive[m] # IllTyped
              /\ store[Store(p)].technical[m] # None

\* What a completed cutover took over comes from one state of settings.json,
\* also when it was interrupted and the file changed before the next start: the
\* settings of every planned module, unless changed since, and the archived
\* policies are those of the file the journal names.
\* (run_settings_json_cutover, source_sha256)
TakenFromOneFile ==
    \A s \in Stores :
        (store[s].completed /\ journal.source # None) =>
            /\ archive = BucketC(journal.source)
            /\ \A m \in journal.planned :
                  \/ store[s].technical[m] = FromFile(journal.source, m)
                  \/ store[s].technical[m] = "changed"

\* The journal of a seed that has not been closed.
SeedOpen == InStatus("in_progress") /\ journal.source = None

\* Once a store is marked completed no start, resumption, seed or snapshot
\* changes what it holds or the archive.  Settings change only when somebody
\* changes them, or a backend hardens its own, and such a change is never undone
\* by an import.  Excepted is a seed killed before its journal was closed: that
\* journal names no source, and a settings.json put in place later is imported.
\* (INTEGRITY_CUTOVER_STATUS)
CompletionIsFinal ==
    [][\A s \in Stores :
           (store[s].completed /\ ~ SeedOpen) =>
               /\ archive' = archive
               /\ store'[s].completed
               /\ store'[s].anchor = store[s].anchor
               /\ \A m \in Modules :
                     \/ store'[s].technical[m] = store[s].technical[m]
                     \/ store'[s].technical[m] = "changed"]_vars

\* The journal names the file, the archive and the modules of a cutover of p.
Interrupted(p) ==
    /\ InStatus("in_progress")
    /\ journal.source # None
    /\ journal.source = legacy
    /\ journal.planned = Registered[p]
    /\ journal.archive # None
    /\ store[Store(p)].anchor = journal.archive

\* The values p takes over from the file fit the schemas of their modules.
WellTyped(p, file) == Registered[p] \cap (file.illTechnical \cup file.illPolicies) = {}

\* A cutover whose hash was journaled is completed in the end, however often it
\* is killed, unless the file is changed.  Excepted is a file with an ill-typed
\* value: its hash is journaled before the value is looked at, then every start
\* refuses the value, and a corrected file as well.
\* (fail_after_hash_anchor, fail_after_module, fail_before_journal_update)
InterruptedCutoverCompletes ==
    \A p \in Programs :
        (Interrupted(p) /\ WellTyped(p, journal.source)) ~>
            \/ CutoverDone(p)
            \/ ~ (journal # None /\ journal.source = legacy)
=============================================================================
