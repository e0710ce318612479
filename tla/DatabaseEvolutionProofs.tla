---------------------- MODULE DatabaseEvolutionProofs ----------------------
(***************************************************************************)
(* What the preflight of DatabaseEvolution guarantees for every number of  *)
(* programs, databases, versions, crashes, faults and backup sets: a half  *)
(* migrated set is never without its journal, the journal names a set      *)
(* that can be started from, and an application runs on a whole set that   *)
(* holds the recorded work.                                                *)
(***************************************************************************)
EXTENDS DatabaseEvolution, TLAPS, WellFoundedInduction

\* The steps under the migration lock.
Locked == {"backup", "journal", "migrating", "finishing"} \cup Restoring

\* The steps of the operator's restore.
Operator == {"replacing", "reverting"}

\* No database of the set is refused by every start.
Unblocked(set) == \A d \in Databases : Status(set[d]) # "blocked"

\* The newest backup set.
Last == backups[Len(backups)]

\* A set an application may run on: its databases agree and hold the ledger.
Saved(set) == Even(set) /\ \A d \in Databases : ledger \subseteq set[d].rows

\* What a program at a step of the attempt may rely on.
StageOK(p) ==
    /\ pc[p] \in Locked <=> lock = p
    /\ pc[p] = "backup" => journal = 0 /\ ~ SomeBlocked
    /\ pc[p] = "journal" => journal = 0 /\ Len(backups) # 0 /\ Unblocked(Last)
    /\ pc[p] \in {"migrating", "finishing"} => journal # 0
    /\ pc[p] = "finishing" => AllCurrent
    /\ pc[p] \in {"undoing", "recovering"} => src[p] = journal
    /\ pc[p] = "reverting" => src[p] = Len(backups)

StageInv == \A p \in Procs : StageOK(p)

\* How the files at a step of program p relate to the backup sets.
FilesOK(p) ==
    /\ pc[p] = "journal" => dbs = Last
    /\ pc[p] \in {"migrating", "finishing"} =>
           \A d \in Databases : dbs[d].rows = backups[journal][d].rows
    /\ pc[p] = "replacing" => Even(backups[src[p]])
    /\ pc[p] \in Operator /\ journal = 0 => Saved(Last)
    /\ pc[p] \in Restoring =>
           \A i \in DOMAIN Specs : i < at[p] => dbs[Specs[i]] = backups[src[p]][Specs[i]]
    /\ pc[p] = "running" => journal = 0 /\ lock = NoProc /\ AllCurrent

\* There is always a whole set: the one the journal names, or else the databases.
WholeInv ==
    /\ journal # 0 => Saved(backups[journal])
    /\ journal = 0 /\ (\A p \in Procs : pc[p] \notin Operator) => Saved(dbs)

SavedInv == ~ torn => WholeInv /\ \A p \in Procs : FilesOK(p)

\* The inductive invariant.
DInv == TypeOK /\ StageInv /\ JournalLeadsBack /\ SavedInv
-----------------------------------------------------------------------------
USE TargetAssumption, ProcAssumption, BoundAssumption, SpecsAssumption

\* The sequence of databases has a length, and its entries are the databases.
LEMMA SpecsFacts ==
    /\ Len(Specs) \in Nat
    /\ DOMAIN Specs = 1..Len(Specs)
    /\ \A i \in 1..Len(Specs) : Specs[i] \in Databases
    /\ \A d \in Databases : \E i \in 1..Len(Specs) : Specs[i] = d
  BY DEF Databases

\* The statuses the guards ask for, in terms of the file.
LEMMA StatusFacts ==
  ASSUME NEW c \in Content
  PROVE  /\ Status(c) = "blocked" <=> c.present /\ ~ c.valid
         /\ Status(c) = "current" <=> c.present /\ c.valid /\ c.version = Target
  BY DEF Status, Content

\* Recording work does not change a status.
LEMMA StatusOfRows ==
  ASSUME NEW c \in Content, NEW w
  PROVE  Status([c EXCEPT !.rows = @ \cup {w}]) = Status(c)
  BY DEF Status, Content

\* Two whole sets of current databases with the same work agree.
LEMMA CurrentEven ==
  ASSUME NEW set \in [Databases -> Content],
         \A d \in Databases : Status(set[d]) = "current",
         \A d, e \in Databases : set[d].rows = set[e].rows
  PROVE  Even(set)
  BY StatusFacts DEF Even

\* An installation starts with a whole set.
LEMMA InitDInv == Init => DInv
<1> SUFFICES ASSUME Init PROVE DInv
  OBVIOUS
<1>1. PICK c \in Content : dbs = [d \in Databases |-> c] /\ c.rows = {}
  <2>1. PICK c \in {Missing} \cup
                    {[Missing EXCEPT !.present = TRUE, !.version = v] : v \in 0..Target} :
           dbs = [d \in Databases |-> c]
    BY DEF Init
  <2>2. c = Missing \/ \E v \in 0..Target : c = [Missing EXCEPT !.present = TRUE, !.version = v]
    OBVIOUS
  <2>3. c \in Content /\ c.rows = {}
    <3>1. CASE c = Missing
      BY <3>1 DEF Content, Missing
    <3>2. ASSUME NEW v \in 0..Target, c = [Missing EXCEPT !.present = TRUE, !.version = v]
          PROVE  c \in Content /\ c.rows = {}
      BY <3>2 DEF Content, Missing
    <3> QED
      BY <2>2, <3>1, <3>2
  <2> QED
    BY <2>1, <2>3
<1>2. TypeOK
  <2>1. dbs \in [Databases -> Content]
    BY <1>1
  <2>2. /\ backups = << >> /\ journal = 0 /\ lock = NoProc
        /\ pc = [p \in Procs |-> "idle"] /\ src = [p \in Procs |-> 0]
        /\ at = [p \in Procs |-> 1] /\ ledger = {} /\ torn = FALSE
        /\ crashes = 0 /\ faults = 0
    BY DEF Init
  <2>3. backups \in Seq([Databases -> Content]) /\ Len(backups) = 0
    BY <2>2
  <2>4. pc \in [Procs -> Steps] /\ src \in [Procs -> 0..Len(backups)]
    BY <2>2, <2>3 DEF Steps
  <2>5. at \in [Procs -> 1..(Len(Specs) + 1)]
    BY <2>2, SpecsFacts
  <2>6. journal \in 0..Len(backups) /\ crashes \in 0..MaxCrashes /\ faults \in 0..MaxFaults
    BY <2>2, <2>3
  <2>7. \A p \in Procs : pc[p] \notin Restoring
    BY <2>2 DEF Restoring
  <2>8. lock \in Procs \cup {NoProc} /\ ledger \subseteq Work /\ torn \in BOOLEAN
    BY <2>2
  <2> QED
    BY <2>1, <2>3, <2>4, <2>5, <2>6, <2>7, <2>8 DEF TypeOK
<1>3. StageInv
  BY DEF Init, StageInv, StageOK, Locked, Restoring
<1>4. JournalLeadsBack
  BY DEF Init, JournalLeadsBack
<1>5. Even(dbs)
  BY <1>1 DEF Even
<1>6. Saved(dbs)
  BY <1>5 DEF Saved, Init
<1>7. SavedInv
  BY <1>6 DEF Init, SavedInv, WholeInv, FilesOK, Operator, Restoring
<1> QED
  BY <1>2, <1>3, <1>4, <1>7 DEF DInv

\* A program outside the lock goes on outside the lock, without opening the databases.
LEMMA OutsideKeeps ==
  ASSUME DInv, NEW p \in Procs, NEW s \in {"check", "statuses", "recover", "pending", "idle"},
         pc[p] \notin Locked, Goto(p, s),
         UNCHANGED <<dbs, backups, journal, lock, src, at, ledger, torn, crashes, faults>>
  PROVE  DInv'
<1>1. TypeOK'
  BY DEF Goto, DInv, TypeOK, Steps, Restoring
<1>2. StageInv'
  BY DEF Goto, DInv, TypeOK, StageInv, StageOK, Locked, Restoring, Last, Unblocked,
         SomeBlocked, AllCurrent
<1>3. JournalLeadsBack'
  BY DEF DInv, JournalLeadsBack
<1>4. SavedInv'
  BY DEF Goto, DInv, TypeOK, SavedInv, WholeInv, FilesOK, Saved, Even, Last, Operator,
         Restoring, AllCurrent, Locked
<1> QED
  BY <1>1, <1>2, <1>3, <1>4 DEF DInv

\* A program ends its attempt and frees the lock if it held it; the operator's
\* restore only with the break noted.
LEMMA LeavingKeeps ==
  ASSUME DInv, NEW p \in Procs, Fails(p), torn' \in BOOLEAN, torn => torn',
         pc[p] \in Operator => torn',
         crashes' \in 0..MaxCrashes, faults' \in 0..MaxFaults,
         UNCHANGED <<dbs, backups, journal, ledger>>
  PROVE  DInv'
<1>1. TypeOK'
  BY SpecsFacts DEF Fails, Goto, DInv, TypeOK, Steps, Restoring, StageInv, StageOK, Locked
<1>2. StageInv'
  BY DEF Fails, Goto, DInv, TypeOK, StageInv, StageOK, Locked, Restoring, Last, Unblocked,
         SomeBlocked, AllCurrent
<1>3. JournalLeadsBack'
  BY DEF DInv, JournalLeadsBack
<1>4. SavedInv'
  BY DEF Fails, Goto, DInv, TypeOK, SavedInv, WholeInv, FilesOK, Saved, Even, Last, Operator,
         Restoring, AllCurrent
<1> QED
  BY <1>1, <1>2, <1>3, <1>4 DEF DInv

\* A program takes the free lock to restore the set the journal names: nobody has
\* the databases open then.
LEMMA RecoveryBegins ==
  ASSUME DInv, NEW p \in Procs, pc[p] \notin Locked, lock = NoProc, journal # 0,
         lock' = p, BeginRestore(p, "recovering", journal),
         UNCHANGED <<dbs, backups, journal, ledger, torn, crashes, faults>>
  PROVE  DInv'
<1>1. TypeOK'
  BY SpecsFacts DEF BeginRestore, Goto, DInv, TypeOK, Steps, Restoring
<1>2. StageInv'
  BY DEF BeginRestore, Goto, DInv, TypeOK, StageInv, StageOK, Locked, Restoring, Last,
         Unblocked, SomeBlocked, AllCurrent
<1>3. JournalLeadsBack'
  BY DEF DInv, JournalLeadsBack
<1>4. SavedInv'
  BY SpecsFacts
     DEF BeginRestore, Goto, DInv, TypeOK, SavedInv, WholeInv, FilesOK, Saved, Even, Last,
         Operator, Restoring, AllCurrent
<1> QED
  BY <1>1, <1>2, <1>3, <1>4 DEF DInv

\* A migration that failed goes back to the set its journal names.
LEMMA UndoBegins ==
  ASSUME DInv, NEW p \in Procs, pc[p] = "migrating", BeginRestore(p, "undoing", journal),
         UNCHANGED <<dbs, backups, journal, lock, ledger, torn, crashes, faults>>
  PROVE  DInv'
<1>1. TypeOK'
  BY SpecsFacts DEF BeginRestore, Goto, DInv, TypeOK, Steps, Restoring, StageInv, StageOK, Locked
<1>2. StageInv'
  BY DEF BeginRestore, Goto, DInv, TypeOK, StageInv, StageOK, Locked, Restoring, Last,
         Unblocked, SomeBlocked, AllCurrent
<1>3. JournalLeadsBack'
  BY DEF DInv, JournalLeadsBack
<1>4. SavedInv'
  BY SpecsFacts
     DEF BeginRestore, Goto, DInv, TypeOK, SavedInv, WholeInv, FilesOK, Saved, Even, Last,
         Operator, Restoring, AllCurrent
<1> QED
  BY <1>1, <1>2, <1>3, <1>4 DEF DInv

\* An application opens current databases, without the lock and without a journal
\* unless the doubt is noted.
LEMMA RunBegins ==
  ASSUME DInv, NEW p \in Procs, pc[p] \notin Locked, AllCurrent,
         NEW undecided \in BOOLEAN, lock # NoProc \/ journal # 0 => undecided,
         Starts(p, undecided),
         UNCHANGED <<dbs, backups, journal, lock, src, at, ledger, crashes, faults>>
  PROVE  DInv'
<1>1. TypeOK'
  BY DEF Starts, Goto, DInv, TypeOK, Steps, Restoring
<1>2. StageInv'
  BY DEF Starts, Goto, DInv, TypeOK, StageInv, StageOK, Locked, Restoring, Last,
         Unblocked, SomeBlocked, AllCurrent
<1>3. JournalLeadsBack'
  BY DEF DInv, JournalLeadsBack
<1>4. SavedInv'
  BY DEF Starts, Goto, DInv, TypeOK, SavedInv, WholeInv, FilesOK, Saved, Even, Last,
         Operator, Restoring, AllCurrent, Locked
<1> QED
  BY <1>1, <1>2, <1>3, <1>4 DEF DInv

\* The lock is taken for a migration: some database is pending, so nobody runs.
LEMMA MigrationBegins ==
  ASSUME DInv, NEW p \in Procs, pc[p] \notin Locked, lock = NoProc, journal = 0,
         ~ SomeBlocked, ~ AllCurrent, lock' = p, Goto(p, "backup"),
         UNCHANGED <<dbs, backups, journal, src, at, ledger, torn, crashes, faults>>
  PROVE  DInv'
<1>1. TypeOK'
  BY DEF Goto, DInv, TypeOK, Steps, Restoring
<1>2. StageInv'
  BY DEF Goto, DInv, TypeOK, StageInv, StageOK, Locked, Restoring, Last,
         Unblocked, SomeBlocked, AllCurrent
<1>3. JournalLeadsBack'
  BY DEF DInv, JournalLeadsBack
<1>4. SavedInv'
  BY DEF Goto, DInv, TypeOK, SavedInv, WholeInv, FilesOK, Saved, Even, Last,
         Operator, Restoring, AllCurrent
<1> QED
  BY <1>1, <1>2, <1>3, <1>4 DEF DInv

\* Appending a set keeps the earlier ones and makes it the last.
LEMMA AppendedSet ==
  ASSUME TypeOK, backups' = Append(backups, dbs)
  PROVE  /\ backups' \in Seq([Databases -> Content])
         /\ Len(backups) \in Nat /\ Len(backups') = Len(backups) + 1
         /\ \A b \in 1..Len(backups) : backups'[b] = backups[b]
         /\ backups'[Len(backups')] = dbs
  BY DEF TypeOK

\* The set backed up under the lock is the one the databases are in.
LEMMA CreateBackupKeeps ==
  ASSUME DInv, NEW p \in Procs, CreateBackup(p)
  PROVE  DInv'
<1> USE AppendedSet DEF CreateBackup, Goto
<1>1. TypeOK'
  BY DEF DInv, TypeOK, Steps, Restoring
<1>2. journal = 0 /\ ~ SomeBlocked /\ lock = p
  BY DEF DInv, StageInv, StageOK, Locked
<1>3. \A q \in Procs : q # p => pc[q] \notin Locked
  BY <1>2 DEF DInv, StageInv, StageOK
<1>4. StageInv'
  BY <1>2, <1>3 DEF DInv, TypeOK, StageInv, StageOK, Locked, Restoring, Last,
         Unblocked, SomeBlocked, AllCurrent
<1>5. JournalLeadsBack'
  BY <1>2 DEF DInv, JournalLeadsBack
<1>6. SavedInv'
  BY <1>2, <1>3 DEF DInv, TypeOK, SavedInv, WholeInv, FilesOK, Saved, Even, Last,
         Operator, Restoring, AllCurrent, Locked
<1> QED
  BY <1>1, <1>4, <1>5, <1>6 DEF DInv

\* The journal names the set just backed up, before the first file changes.
LEMMA WriteJournalKeeps ==
  ASSUME DInv, NEW p \in Procs, WriteJournal(p)
  PROVE  DInv'
<1> USE DEF WriteJournal, Goto
<1>1. TypeOK'
  BY DEF DInv, TypeOK, Steps, Restoring
<1>2. journal = 0 /\ lock = p /\ Len(backups) # 0 /\ Unblocked(Last)
  BY DEF DInv, StageInv, StageOK, Locked
<1>3. \A q \in Procs : q # p => pc[q] \notin Locked
  BY <1>2 DEF DInv, StageInv, StageOK
<1>4. StageInv'
  BY <1>2, <1>3 DEF DInv, TypeOK, StageInv, StageOK, Locked, Restoring, Last,
         Unblocked, SomeBlocked, AllCurrent
<1>5. JournalLeadsBack'
  BY <1>2 DEF DInv, JournalLeadsBack, Unblocked, Last
<1>6. SavedInv'
  BY <1>2, <1>3 DEF DInv, TypeOK, SavedInv, WholeInv, FilesOK, Saved, Even, Last,
         Operator, Restoring, AllCurrent, Locked
<1> QED
  BY <1>1, <1>4, <1>5, <1>6 DEF DInv

\* A non-empty set of numbers has a least one: the first unfinished database exists.
LEMMA LeastNumber ==
  ASSUME NEW A, A \subseteq Nat, A # {}
  PROVE  \E n \in A : \A m \in A : n <= m
<1>1. PICK n \in A : \A m \in A : ~ (<<m, n>> \in OpToRel(<, Nat))
  BY NatLessThanWellFounded, WFMin
<1>2. ASSUME NEW m \in A, m < n PROVE FALSE
  <2>1. <<m, n>> \in {ss \in Nat \X Nat : ss[1] < ss[2]}
    BY <1>2
  <2> QED
    BY <1>1, <2>1 DEF OpToRel
<1> QED
  BY <1>2

\* One migration step of one file keeps its work.
LEMMA SteppedFile ==
  ASSUME NEW c \in Content, c.version < Target, NEW e \in Stepped(c)
  PROVE  e \in Content /\ e.rows = c.rows
<1>1. PICK v \in BOOLEAN : e = [c EXCEPT !.present = TRUE, !.version = @ + 1, !.valid = v]
  <2>1. PICK v \in IF Status(c) = "adoptable_v1" THEN {c.valid} ELSE {c.valid, FALSE} :
           e = [c EXCEPT !.present = TRUE, !.version = @ + 1, !.valid = v]
    BY DEF Stepped
  <2>2. c.valid \in BOOLEAN
    BY DEF Content
  <2>3. v \in BOOLEAN
    BY <2>1, <2>2
  <2> QED
    BY <2>1, <2>3
<1>2. e = [present |-> TRUE, version |-> c.version + 1, valid |-> v, rows |-> c.rows]
  BY <1>1 DEF Content
<1>3. c.version \in Nat /\ c.version + 1 \in 0..Target /\ c.rows \in SUBSET Work
  BY DEF Content
<1> QED
  BY <1>2, <1>3 DEF Content

\* A step of a migration changes one file and never its work.
LEMMA MigrateOneKeeps ==
  ASSUME DInv, NEW p \in Procs, pc[p] = "migrating", NEW d \in Databases,
         dbs[d].version < Target, NEW c \in Stepped(dbs[d]), dbs' = [dbs EXCEPT ![d] = c],
         UNCHANGED <<backups, journal, lock, pc, src, at, ledger, torn, crashes, faults>>
  PROVE  DInv'
<1>1. dbs[d] \in Content
  BY DEF DInv, TypeOK
<1>2. c \in Content /\ c.rows = dbs[d].rows
  BY <1>1, SteppedFile
<1>3. TypeOK'
  BY <1>2 DEF DInv, TypeOK
<1>4. journal # 0 /\ lock = p
  BY DEF DInv, StageInv, StageOK, Locked
<1>5. \A q \in Procs : q # p => pc[q] \notin Locked
  BY <1>4 DEF DInv, StageInv, StageOK
<1>6. StageInv'
  BY <1>4, <1>5 DEF DInv, TypeOK, StageInv, StageOK, Locked, Restoring, Last,
         Unblocked, SomeBlocked, AllCurrent
<1>7. JournalLeadsBack'
  BY DEF DInv, JournalLeadsBack
<1>8. \A e \in Databases : dbs'[e].rows = dbs[e].rows
  BY <1>2 DEF DInv, TypeOK
<1>9. SavedInv'
  BY <1>4, <1>5, <1>8 DEF DInv, TypeOK, SavedInv, WholeInv, FilesOK, Saved, Even, Last,
         Operator, Restoring, AllCurrent, Locked
<1> QED
  BY <1>3, <1>6, <1>7, <1>9 DEF DInv

\* All databases are current after the last step.
LEMMA VerifiedKeeps ==
  ASSUME DInv, NEW p \in Procs, pc[p] = "migrating", AllCurrent, Goto(p, "finishing"),
         UNCHANGED <<dbs, backups, journal, lock, src, at, ledger, torn, crashes, faults>>
  PROVE  DInv'
<1>1. TypeOK'
  BY DEF Goto, DInv, TypeOK, Steps, Restoring
<1>2. StageInv'
  BY DEF Goto, DInv, TypeOK, StageInv, StageOK, Locked, Restoring, Last,
         Unblocked, SomeBlocked, AllCurrent
<1>3. JournalLeadsBack'
  BY DEF DInv, JournalLeadsBack
<1>4. SavedInv'
  BY DEF Goto, DInv, TypeOK, SavedInv, WholeInv, FilesOK, Saved, Even, Last,
         Operator, Restoring, AllCurrent
<1> QED
  BY <1>1, <1>2, <1>3, <1>4 DEF DInv

\* The journal goes only when the migrated set is as whole as the one it named.
LEMMA FinishMigrationKeeps ==
  ASSUME DInv, NEW p \in Procs, FinishMigration(p)
  PROVE  DInv'
<1> USE DEF FinishMigration, Starts, Goto
<1>1. TypeOK'
  BY DEF DInv, TypeOK, Steps, Restoring, StageInv, StageOK, Locked
<1>2. journal # 0 /\ lock = p /\ AllCurrent
  BY DEF DInv, StageInv, StageOK, Locked
<1>3. \A q \in Procs : q # p => pc[q] \notin Locked
  BY <1>2 DEF DInv, StageInv, StageOK
<1>4. StageInv'
  BY <1>2, <1>3 DEF DInv, TypeOK, StageInv, StageOK, Locked, Restoring, Last,
         Unblocked, SomeBlocked, AllCurrent
<1>5. JournalLeadsBack'
  BY DEF JournalLeadsBack
<1>6. ASSUME ~ torn PROVE Saved(dbs)
  <2>1. \A d \in Databases : dbs[d].rows = backups[journal][d].rows
    BY <1>6 DEF DInv, SavedInv, FilesOK
  <2>2. Saved(backups[journal])
    BY <1>6, <1>2 DEF DInv, SavedInv, WholeInv
  <2>3. \A d, e \in Databases : dbs[d].rows = dbs[e].rows
    BY <2>1, <2>2 DEF Saved, Even
  <2>4. dbs \in [Databases -> Content] /\ \A d \in Databases : Status(dbs[d]) = "current"
    BY <1>2 DEF DInv, TypeOK, AllCurrent
  <2>5. Even(dbs)
    BY <2>3, <2>4, CurrentEven
  <2> QED
    BY <2>1, <2>2, <2>5 DEF Saved
<1>7. SavedInv'
  BY <1>2, <1>3, <1>6 DEF DInv, TypeOK, SavedInv, WholeInv, FilesOK, Saved, Even, Last,
         Operator, Restoring, AllCurrent, Locked
<1> QED
  BY <1>1, <1>4, <1>5, <1>7 DEF DInv

\* The operator's restore saves the set it replaces first.
LEMMA RestoreCommandKeeps ==
  ASSUME DInv, NEW p \in Procs, NEW b \in DOMAIN backups, RestoreCommand(p, b)
  PROVE  DInv'
<1> USE AppendedSet DEF RestoreCommand, BeginRestore, Goto
<1>0. b \in 1..Len(backups)
  BY DEF DInv, TypeOK
<1>1. TypeOK'
  <2>1. /\ TypeOK /\ backups' \in Seq([Databases -> Content])
        /\ Len(backups) \in Nat /\ Len(backups') = Len(backups) + 1
    BY DEF DInv
  <2>2. pc' \in [Procs -> Steps] /\ at' \in [Procs -> 1..(Len(Specs) + 1)]
    BY <2>1, SpecsFacts DEF TypeOK, Steps, Restoring
  <2>3. src' \in [Procs -> 0..Len(backups')] /\ journal' \in 0..Len(backups')
    BY <1>0, <2>1 DEF TypeOK
  <2>4. \A q \in Procs : pc'[q] \in Restoring => src'[q] # 0 /\ lock' = q
    BY <1>0, <2>1 DEF TypeOK, Restoring
  <2>5. torn' \in BOOLEAN
    BY <2>1 DEF TypeOK
  <2> QED
    BY <2>1, <2>2, <2>3, <2>4, <2>5 DEF TypeOK
<1>2. \A q \in Procs : pc[q] \notin Locked
  BY DEF DInv, StageInv, StageOK
<1>3. StageInv'
  BY <1>2 DEF DInv, TypeOK, StageInv, StageOK, Locked, Restoring, Last,
         Unblocked, SomeBlocked, AllCurrent
<1>4. JournalLeadsBack'
  BY DEF DInv, TypeOK, JournalLeadsBack
<1>5. ASSUME ~ torn' PROVE WholeInv'
  BY <1>2, <1>5 DEF DInv, TypeOK, SavedInv, WholeInv, Saved, Operator
<1>6. ASSUME ~ torn', NEW q \in Procs PROVE FilesOK(q)'
  <2>1. ~ torn /\ Even(backups[b]) /\ pc[q] # "running"
    BY <1>6
  <2>2. journal = 0 => Saved(dbs)
    BY <1>2, <2>1 DEF DInv, SavedInv, WholeInv, Operator, Locked, Restoring
  <2>3. CASE q = p
    BY <1>0, <2>1, <2>2, <2>3, SpecsFacts DEF DInv, TypeOK, FilesOK, Saved, Last, Operator, Restoring
  <2>4. CASE q # p
    BY <1>2, <2>1, <2>4 DEF DInv, TypeOK, FilesOK, Operator, Restoring, Locked
  <2> QED
    BY <2>3, <2>4
<1>7. SavedInv'
  BY <1>5, <1>6 DEF SavedInv
<1> QED
  BY <1>1, <1>3, <1>4, <1>7 DEF DInv

\* One more file of the set is in its place.
LEMMA ReplaceDatabaseKeeps ==
  ASSUME DInv, NEW p \in Procs, ReplaceDatabase(p)
  PROVE  DInv'
<1> USE DEF ReplaceDatabase
<1>0. /\ at[p] \in 1..Len(Specs) /\ Specs[at[p]] \in Databases
      /\ src[p] \in 1..Len(backups) /\ lock = p
      /\ backups[src[p]] \in [Databases -> Content]
  BY SpecsFacts DEF DInv, TypeOK
<1>1. TypeOK'
  BY <1>0, SpecsFacts DEF DInv, TypeOK
<1>2. \A q \in Procs : q # p => pc[q] \notin Locked
  BY <1>0 DEF DInv, StageInv, StageOK
<1>3. StageInv'
  BY <1>0, <1>2 DEF DInv, TypeOK, StageInv, StageOK, Locked, Restoring, Last,
         Unblocked, SomeBlocked, AllCurrent
<1>4. JournalLeadsBack'
  BY DEF DInv, JournalLeadsBack
<1>5. ASSUME ~ torn' PROVE WholeInv'
  <2>1. journal = 0 => pc[p] \in Operator
    BY DEF DInv, TypeOK, StageInv, StageOK, Restoring, Operator
  <2> QED
    BY <1>5, <2>1 DEF DInv, SavedInv, WholeInv, Saved
<1>6. ASSUME ~ torn', NEW q \in Procs PROVE FilesOK(q)'
  <2>1. FilesOK(q) /\ pc[q] # "running"
    BY <1>0, <1>6 DEF DInv, SavedInv, FilesOK
  <2>2. CASE q = p
    <3>1. \A i \in DOMAIN Specs : i < at'[p] => dbs'[Specs[i]] = backups[src[p]][Specs[i]]
      <4> SUFFICES ASSUME NEW i \in 1..Len(Specs), i < at'[p]
                   PROVE  dbs'[Specs[i]] = backups[src[p]][Specs[i]]
        BY SpecsFacts
      <4>1. i < at[p] \/ i = at[p]
        BY <1>0, SpecsFacts DEF DInv, TypeOK
      <4>2. i < at[p] => dbs[Specs[i]] = backups[src[p]][Specs[i]]
        BY <2>1, <2>2, SpecsFacts DEF FilesOK
      <4> QED
        BY <1>0, <4>1, <4>2, SpecsFacts DEF DInv, TypeOK
    <3> QED
      BY <2>1, <2>2, <3>1 DEF FilesOK, Saved, Last, Operator, Restoring
  <2>3. CASE q # p
    BY <1>2, <2>1, <2>3 DEF FilesOK, Operator, Restoring, Locked
  <2> QED
    BY <2>2, <2>3
<1>7. SavedInv'
  BY <1>5, <1>6 DEF SavedInv
<1> QED
  BY <1>1, <1>3, <1>4, <1>7 DEF DInv

\* A complete restore ends with the set it copied, which is whole.
LEMMA EndRestoreKeeps ==
  ASSUME DInv, NEW p \in Procs, EndRestore(p)
  PROVE  DInv'
<1> USE DEF EndRestore, Fails, Goto
<1>0. /\ src[p] \in 1..Len(backups) /\ lock = p /\ pc[p] \in Locked
      /\ backups[src[p]] \in [Databases -> Content]
  BY DEF DInv, TypeOK, Locked
<1>1. TypeOK'
  BY <1>0, SpecsFacts DEF DInv, TypeOK, Steps, Restoring, StageInv, StageOK, Locked
<1>2. \A q \in Procs : q # p => pc[q] \notin Locked
  BY <1>0 DEF DInv, StageInv, StageOK
<1>3. StageInv'
  BY <1>0, <1>2 DEF DInv, TypeOK, StageInv, StageOK, Locked, Restoring, Last,
         Unblocked, SomeBlocked, AllCurrent
<1>4. JournalLeadsBack'
  BY DEF DInv, JournalLeadsBack
<1>5. ASSUME ~ torn' PROVE WholeInv'
  <2>1. dbs = backups[src[p]]
    <3>0. FilesOK(p) /\ at[p] \in Nat
      BY <1>5 DEF DInv, TypeOK, SavedInv
    <3>1. \A i \in 1..Len(Specs) : dbs[Specs[i]] = backups[src[p]][Specs[i]]
      BY <3>0, SpecsFacts DEF FilesOK
    <3> QED
      BY <1>0, <3>1, SpecsFacts DEF DInv, TypeOK
  <2>2. CASE pc[p] \in {"undoing", "recovering"}
    <3>1. src[p] = journal
      BY <2>2 DEF DInv, StageInv, StageOK
    <3>2. Saved(dbs)
      BY <1>0, <1>5, <2>1, <3>1 DEF DInv, SavedInv, WholeInv
    <3> QED
      BY <2>2, <3>2 DEF WholeInv, Saved
  <2>3. CASE pc[p] = "reverting"
    <3>1. src[p] = Len(backups)
      BY <2>3 DEF DInv, StageInv, StageOK
    <3>2. journal = 0 => Saved(dbs)
      BY <1>5, <2>1, <2>3, <3>1 DEF DInv, SavedInv, FilesOK, Operator, Last
    <3> QED
      BY <1>5, <2>3, <3>2 DEF DInv, SavedInv, WholeInv, Saved
  <2>4. CASE pc[p] = "replacing"
    <3>1. Even(dbs)
      BY <1>5, <2>1, <2>4 DEF DInv, SavedInv, FilesOK
    <3>2. \A d \in Databases : ledger' \subseteq dbs[d].rows
      BY <2>1, <2>4
    <3>3. journal # 0 => Even(backups[journal])
      BY <1>5 DEF DInv, SavedInv, WholeInv, Saved
    <3>4. journal # 0 => \A d \in Databases : ledger' \subseteq backups[journal][d].rows
      BY <2>4
    <3> QED
      BY <2>4, <3>1, <3>2, <3>3, <3>4 DEF WholeInv, Saved
  <2> QED
    BY <2>2, <2>3, <2>4 DEF Restoring
<1>6. ASSUME ~ torn', NEW q \in Procs PROVE FilesOK(q)'
  <2>1. FilesOK(q) /\ pc[q] # "running"
    BY <1>0, <1>6 DEF DInv, SavedInv, FilesOK
  <2> QED
    BY <1>2, <2>1 DEF DInv, TypeOK, FilesOK, Operator, Restoring, Locked
<1>7. SavedInv'
  BY <1>5, <1>6 DEF SavedInv
<1> QED
  BY <1>1, <1>3, <1>4, <1>7 DEF DInv

\* A restore that fails: the operator's goes back to its safety set, a recovery
\* keeps the journal, the others note the break.
LEMMA ReplaceFailsKeeps ==
  ASSUME DInv, NEW p \in Procs, ReplaceFails(p)
  PROVE  DInv'
<1> USE DEF ReplaceFails
<1>0. /\ lock = p /\ pc[p] \in Locked /\ Len(backups) \in Nat /\ Len(backups) # 0
      /\ faults' \in 0..MaxFaults
  BY DEF DInv, TypeOK, Locked
<1>1. \A q \in Procs : q # p => pc[q] \notin Locked
  BY <1>0 DEF DInv, StageInv, StageOK
<1>2. CASE pc[p] \in {"recovering", "reverting"}
  <2>1. /\ Fails(p)
        /\ UNCHANGED <<dbs, backups, journal, ledger, crashes>>
        /\ (pc[p] = "recovering" /\ UNCHANGED torn) \/ torn' = TRUE
    BY <1>2
  <2>2. crashes' \in 0..MaxCrashes /\ torn \in BOOLEAN
    BY <2>1 DEF DInv, TypeOK
  <2>3. torn' \in BOOLEAN /\ (torn => torn') /\ (pc[p] \in Operator => torn')
    BY <2>1, <2>2 DEF Operator
  <2> QED
    BY <1>0, <2>1, <2>2, <2>3, LeavingKeeps
<1>3. CASE pc[p] = "replacing"
  <2> USE DEF BeginRestore, Goto
  <2>0. /\ BeginRestore(p, "reverting", Len(backups))
        /\ UNCHANGED <<lock, journal, torn, dbs, backups, ledger, crashes>>
    BY <1>3
  <2>1. TypeOK'
    BY <1>0, <2>0, SpecsFacts DEF DInv, TypeOK, Steps, Restoring
  <2>2. StageInv'
    BY <1>0, <1>1, <2>0 DEF DInv, TypeOK, StageInv, StageOK, Locked, Restoring, Last,
           Unblocked, SomeBlocked, AllCurrent
  <2>3. JournalLeadsBack'
    BY <2>0 DEF DInv, JournalLeadsBack
  <2>4. SavedInv'
    BY <1>1, <1>3, <2>0, SpecsFacts
       DEF DInv, TypeOK, SavedInv, WholeInv, FilesOK, Saved, Even, Last,
           Operator, Restoring, AllCurrent, Locked
  <2> QED
    BY <2>1, <2>2, <2>3, <2>4 DEF DInv
<1>4. CASE pc[p] = "undoing"
  <2> USE DEF Fails, Goto
  <2>0. /\ Fails(p) /\ journal' = 0 /\ torn' = TRUE
        /\ UNCHANGED <<dbs, backups, ledger, crashes>>
    BY <1>4
  <2>1. TypeOK'
    BY <1>0, <1>1, <2>0, SpecsFacts DEF DInv, TypeOK, Steps, Restoring, Locked
  <2>2. StageInv'
    BY <1>0, <1>1, <2>0 DEF DInv, TypeOK, StageInv, StageOK, Locked, Restoring, Last,
           Unblocked, SomeBlocked, AllCurrent
  <2>3. JournalLeadsBack'
    BY <2>0 DEF JournalLeadsBack
  <2>4. SavedInv'
    BY <2>0 DEF SavedInv
  <2> QED
    BY <2>1, <2>2, <2>3, <2>4 DEF DInv
<1> QED
  BY <1>2, <1>3, <1>4 DEF Restoring

\* Work is recorded in all databases, and only while nobody holds the lock, unless
\* the doubt is noted.
LEMMA RecordKeeps ==
  ASSUME DInv, NEW p \in Procs, NEW w \in Work, Record(p, w)
  PROVE  DInv'
<1> USE DEF Record
<1>1. \A d \in Databases : dbs[d] \in Content /\ dbs'[d] = [dbs[d] EXCEPT !.rows = @ \cup {w}]
  BY DEF DInv, TypeOK
<1>2. \A d \in Databases :
         /\ dbs'[d] \in Content
         /\ Status(dbs'[d]) = Status(dbs[d])
         /\ dbs'[d].version = dbs[d].version
         /\ dbs'[d].rows = dbs[d].rows \cup {w}
  <2> SUFFICES ASSUME NEW d \in Databases
               PROVE  /\ dbs'[d] \in Content
                      /\ Status(dbs'[d]) = Status(dbs[d])
                      /\ dbs'[d].version = dbs[d].version
                      /\ dbs'[d].rows = dbs[d].rows \cup {w}
    OBVIOUS
  <2>1. Status(dbs'[d]) = Status(dbs[d])
    BY <1>1, StatusOfRows
  <2>2. dbs'[d] \in Content /\ dbs'[d].version = dbs[d].version
        /\ dbs'[d].rows = dbs[d].rows \cup {w}
    BY <1>1 DEF Content
  <2> QED
    BY <2>1, <2>2
<1>3. TypeOK'
  <2>1. dbs' \in [Databases -> Content]
    BY <1>2
  <2> QED
    BY <2>1 DEF DInv, TypeOK
<1>4. StageInv'
  BY <1>2 DEF DInv, TypeOK, StageInv, StageOK, Last, Unblocked, SomeBlocked, AllCurrent
<1>5. JournalLeadsBack'
  BY DEF DInv, JournalLeadsBack
<1>6. SavedInv'
  <2> SUFFICES ASSUME ~ torn PROVE WholeInv' /\ \A q \in Procs : FilesOK(q)'
    BY DEF SavedInv
  <2>1. journal = 0 /\ lock = NoProc
    BY DEF DInv, SavedInv, FilesOK
  <2>2. \A q \in Procs : pc[q] \notin Locked
    BY <2>1 DEF DInv, StageInv, StageOK
  <2>3. Saved(dbs)
    BY <2>1, <2>2 DEF DInv, SavedInv, WholeInv, Operator, Locked, Restoring
  <2>4. WholeInv'
    <3>1. \A d, e \in Databases : dbs'[d].rows = dbs'[e].rows
      <4>1. \A d, e \in Databases : dbs[d].rows = dbs[e].rows
        BY <2>3 DEF Saved, Even
      <4> SUFFICES ASSUME NEW d \in Databases, NEW e \in Databases
                   PROVE  dbs'[d].rows = dbs'[e].rows
        OBVIOUS
      <4>2. dbs'[d].rows = dbs[d].rows \cup {w} /\ dbs'[e].rows = dbs[e].rows \cup {w}
        BY <1>2
      <4> QED
        BY <4>1, <4>2, Zenon
    <3>2. Even(dbs)'
      BY <1>2, <2>3, <3>1 DEF Saved, Even
    <3>3. \A d \in Databases : ledger' \subseteq dbs'[d].rows
      BY <1>2, <2>3 DEF Saved
    <3> QED
      BY <2>1, <3>2, <3>3 DEF WholeInv, Saved
  <2>5. \A q \in Procs : FilesOK(q)'
    BY <1>2, <2>1, <2>2 DEF DInv, SavedInv, FilesOK, Operator, Restoring, Locked, AllCurrent
  <2> QED
    BY <2>4, <2>5
<1> QED
  BY <1>3, <1>4, <1>5, <1>6 DEF DInv
-----------------------------------------------------------------------------
\* Every step keeps the inductive invariant.
LEMMA NextDInv == DInv /\ [Next]_vars => DInv'
<1> SUFFICES ASSUME DInv, [Next]_vars PROVE DInv'
  OBVIOUS
<1>1. ASSUME NEW p \in Procs, StartProgram(p) PROVE DInv'
  BY <1>1, OutsideKeeps DEF StartProgram, Locked, Restoring
<1>2. ASSUME NEW p \in Procs, CheckJournal(p) PROVE DInv'
  BY <1>2, OutsideKeeps DEF CheckJournal, Locked, Restoring
<1>3. ASSUME NEW p \in Procs, RecoverInterrupted(p) PROVE DInv'
  <2>0. pc[p] \notin Locked
    BY <1>3 DEF RecoverInterrupted, Locked, Restoring
  <2>1. CASE lock # NoProc
    BY <1>3, <2>1, LeavingKeeps DEF RecoverInterrupted, DInv, TypeOK, Operator
  <2>2. CASE lock = NoProc /\ journal = 0
    BY <1>3, <2>0, <2>2, OutsideKeeps DEF RecoverInterrupted
  <2>3. CASE lock = NoProc /\ journal # 0
    BY <1>3, <2>0, <2>3, RecoveryBegins DEF RecoverInterrupted
  <2> QED
    BY <2>1, <2>2, <2>3
<1>4. ASSUME NEW p \in Procs, Preflight(p) PROVE DInv'
  <2>0. pc[p] \notin Locked
    BY <1>4 DEF Preflight, Locked, Restoring
  <2>1. CASE Goto(p, "idle") /\ UNCHANGED torn
    BY <1>4, <2>0, <2>1, OutsideKeeps DEF Preflight
  <2>2. CASE AllCurrent /\ Starts(p, lock # NoProc \/ journal # 0)
    BY <1>4, <2>0, <2>2, RunBegins DEF Preflight
  <2>3. CASE Goto(p, "pending") /\ UNCHANGED torn
    BY <1>4, <2>0, <2>3, OutsideKeeps DEF Preflight
  <2> QED
    BY <1>4, <2>1, <2>2, <2>3 DEF Preflight
<1>5. ASSUME NEW p \in Procs, LockForMigration(p) PROVE DInv'
  <2>0. pc[p] \notin Locked
    BY <1>5 DEF LockForMigration, Locked, Restoring
  <2>1. CASE Goto(p, "idle") /\ UNCHANGED <<lock, src, at, torn>>
    BY <1>5, <2>0, <2>1, OutsideKeeps DEF LockForMigration
  <2>2. CASE /\ lock = NoProc /\ journal # 0 /\ lock' = p
             /\ BeginRestore(p, "recovering", journal)
             /\ UNCHANGED torn
    BY <1>5, <2>0, <2>2, RecoveryBegins DEF LockForMigration
  <2>3. CASE /\ lock = NoProc /\ journal = 0 /\ AllCurrent /\ Starts(p, FALSE)
             /\ UNCHANGED <<lock, src, at>>
    BY <1>5, <2>0, <2>3, RunBegins DEF LockForMigration
  <2>4. CASE /\ lock = NoProc /\ journal = 0 /\ ~ SomeBlocked /\ ~ AllCurrent
             /\ lock' = p /\ Goto(p, "backup")
             /\ UNCHANGED <<src, at, torn>>
    BY <1>5, <2>0, <2>4, MigrationBegins DEF LockForMigration
  <2> QED
    BY <1>5, <2>1, <2>2, <2>3, <2>4 DEF LockForMigration
<1>6. ASSUME NEW p \in Procs, PreparationFails(p) PROVE DInv'
  BY <1>6, LeavingKeeps DEF PreparationFails, DInv, TypeOK, Operator
<1>7. ASSUME NEW p \in Procs, MigrateOne(p) PROVE DInv'
  <2>1. CASE BeginRestore(p, "undoing", journal) /\ UNCHANGED dbs
    BY <1>7, <2>1, UndoBegins DEF MigrateOne
  <2>2. CASE UNCHANGED <<pc, src, at>>
    <3> DEFINE i == CHOOSE i \in Unfinished : \A j \in Unfinished : i <= j
    <3>1. Unfinished \subseteq Nat /\ Unfinished # {}
      <4>1. Unfinished # {}
        BY <1>7 DEF MigrateOne
      <4> QED
        BY <4>1, SpecsFacts DEF Unfinished
    <3>2. i \in Unfinished
      BY <3>1, LeastNumber
    <3>3. Specs[i] \in Databases /\ dbs[Specs[i]].version < Target
      BY <3>2, SpecsFacts DEF Unfinished
    <3>4. CASE \E c \in Stepped(dbs[Specs[i]]) : dbs' = [dbs EXCEPT ![Specs[i]] = c]
      BY <1>7, <2>2, <3>3, <3>4, MigrateOneKeeps DEF MigrateOne
    <3> QED
      BY <1>7, <2>1, <3>4 DEF MigrateOne
  <2> QED
    BY <1>7, <2>1, <2>2 DEF MigrateOne
<1>8. ASSUME NEW p \in Procs, VerifyMigration(p) PROVE DInv'
  BY <1>8, VerifiedKeeps, UndoBegins DEF VerifyMigration
<1>9. ASSUME NEW p \in Procs, Close(p) PROVE DInv'
  BY <1>9, OutsideKeeps DEF Close, Locked, Restoring
<1>10. ASSUME NEW p \in Procs, Crash(p) PROVE DInv'
  <2>1. crashes' \in 0..MaxCrashes
    BY <1>10 DEF Crash, DInv, TypeOK
  <2>2. torn' \in BOOLEAN /\ (torn => torn') /\ (pc[p] \in Operator => torn')
    BY <1>10 DEF Crash, DInv, TypeOK, Operator
  <2> QED
    BY <1>10, <2>1, <2>2, LeavingKeeps DEF Crash, DInv, TypeOK
<1>11. ASSUME NEW p \in Procs, Advance(p) PROVE DInv'
  BY <1>2, <1>3, <1>4, <1>5, <1>6, <1>7, <1>8, <1>11, CreateBackupKeeps, WriteJournalKeeps,
     FinishMigrationKeeps, ReplaceDatabaseKeeps, EndRestoreKeeps DEF Advance
<1>12. CASE UNCHANGED vars
  BY <1>12 DEF vars, DInv, TypeOK, StageInv, StageOK, JournalLeadsBack, SavedInv, WholeInv,
               FilesOK, Saved, Last, Unblocked, SomeBlocked, AllCurrent
<1> QED
  BY <1>1, <1>9, <1>10, <1>11, <1>12, RestoreCommandKeeps, ReplaceFailsKeeps, RecordKeeps
  DEF Next

\* The inductive invariant holds in every reachable state.
THEOREM EvolutionInvariance == Spec => []DInv
  BY InitDInv, NextDInv, PTL DEF Spec

\* The state has its types, and every program that copies a set holds the lock.
THEOREM EvolutionTypeCorrect == Spec => []TypeOK
<1>1. DInv => TypeOK
  BY DEF DInv
<1> QED
  BY <1>1, EvolutionInvariance, PTL

\* migrate() never loses the journal of a half migrated set, for every number of
\* programs, crashes and restores.
THEOREM HalfMigratedKeepsItsJournal == Spec => []HalfMigratedIsJournaled
<1>1. DInv => HalfMigratedIsJournaled
  <2> SUFFICES ASSUME DInv, ~ torn, lock = NoProc, journal = 0 PROVE Even(dbs)
    BY DEF HalfMigratedIsJournaled
  <2>1. \A p \in Procs : pc[p] \notin Operator
    BY DEF DInv, StageInv, StageOK, Locked, Restoring, Operator
  <2> QED
    BY <2>1 DEF DInv, SavedInv, WholeInv, Saved
<1> QED
  BY <1>1, EvolutionInvariance, PTL

\* The set a journal names was taken when no database was blocked, so its restore
\* ends in databases a later start accepts.
THEOREM JournalIsAWayBack == Spec => []JournalLeadsBack
<1>1. DInv => JournalLeadsBack
  BY DEF DInv
<1> QED
  BY <1>1, EvolutionInvariance, PTL

\* Whatever attempts failed or were killed before, an application runs on current
\* databases that agree and hold the recorded work, unless the break is noted.
THEOREM ApplicationsRunOnWholeSets == Spec => []RunsOnWholeSet
<1>1. DInv => RunsOnWholeSet
  <2> SUFFICES ASSUME DInv, ~ torn, NEW p \in Procs, pc[p] = "running"
               PROVE  /\ AllCurrent
                      /\ \A d, e \in Databases : dbs[d].rows = dbs[e].rows
                      /\ \A d \in Databases : ledger \subseteq dbs[d].rows
    BY DEF RunsOnWholeSet
  <2>1. journal = 0 /\ lock = NoProc /\ AllCurrent
    BY DEF DInv, SavedInv, FilesOK
  <2>2. \A q \in Procs : pc[q] \notin Operator
    BY <2>1 DEF DInv, StageInv, StageOK, Locked, Restoring, Operator
  <2>3. Saved(dbs)
    BY <2>1, <2>2 DEF DInv, SavedInv, WholeInv
  <2> QED
    BY <2>1, <2>3 DEF Saved, Even
<1> QED
  BY <1>1, EvolutionInvariance, PTL

-----------------------------------------------------------------------------
(* How attempts come to an end *)

\* The order of the steps of an attempt, and of the operator's restore.
Height(s) ==
    CASE s = "check" -> 0
      [] s = "recover" -> 1
      [] s = "statuses" -> 2
      [] s = "pending" -> 3
      [] s = "backup" -> 4
      [] s = "journal" -> 5
      [] s \in {"migrating", "replacing"} -> 6
      [] s \in {"finishing", "undoing", "recovering", "reverting"} -> 7
      [] s \in {"idle", "running"} -> 8

\* Program p goes on to a later step; or it stays, nobody undoes what it did at
\* that step, and a step of its own copies one more file or raises the version of
\* a database, of which there are finitely many.
Advances(p) ==
    \/ Height(pc'[p]) > Height(pc[p])
    \/ /\ pc'[p] = pc[p]
       /\ at'[p] >= at[p]
       /\ pc[p] = "migrating" => \A d \in Databases : dbs'[d].version >= dbs[d].version
       /\ Advance(p) => \/ at'[p] > at[p]
                        \/ /\ pc[p] = "migrating"
                           /\ \E d \in Databases : dbs'[d].version > dbs[d].version

AttemptAdvances ==
    [][\A p \in Procs : pc[p] \notin {"idle", "running"} => Advances(p)]_vars

LEMMA HeightFacts ==
    /\ Height("check") = 0 /\ Height("recover") = 1 /\ Height("statuses") = 2
    /\ Height("pending") = 3 /\ Height("backup") = 4 /\ Height("journal") = 5
    /\ Height("migrating") = 6 /\ Height("replacing") = 6
    /\ Height("finishing") = 7 /\ Height("undoing") = 7 /\ Height("recovering") = 7
    /\ Height("reverting") = 7 /\ Height("idle") = 8 /\ Height("running") = 8
  BY DEF Height

LEMMA GotoFacts ==
  ASSUME TypeOK, NEW p \in Procs, NEW s, Goto(p, s)
  PROVE  pc'[p] = s /\ \A q \in Procs : q # p => pc'[q] = pc[q]
  BY DEF TypeOK, Goto

\* One migration step raises the version of one file.
LEMMA SteppedVersion ==
  ASSUME NEW c \in Content, c.version < Target, NEW e \in Stepped(c)
  PROVE  e.version = c.version + 1
<1>1. PICK v : e = [c EXCEPT !.present = TRUE, !.version = @ + 1, !.valid = v]
  BY DEF Stepped
<1> QED
  BY <1>1 DEF Content

\* A step of its own takes a program on.
LEMMA OwnStepAdvances ==
  ASSUME DInv, NEW p \in Procs, Advance(p)
  PROVE  Advances(p)
<1>0. TypeOK /\ at[p] \in Nat
  BY SpecsFacts DEF DInv, TypeOK
<1>1. CASE CheckJournal(p)
  <2>1. pc[p] = "check" /\ (Goto(p, "statuses") \/ Goto(p, "recover"))
    BY <1>1 DEF CheckJournal
  <2> QED
    BY <1>0, <2>1, GotoFacts, HeightFacts DEF Advances
<1>2. CASE RecoverInterrupted(p)
  <2>1. /\ pc[p] = "recover"
        /\ Goto(p, "idle") \/ Goto(p, "statuses") \/ Goto(p, "recovering")
    BY <1>2 DEF RecoverInterrupted, Fails, BeginRestore
  <2> QED
    BY <1>0, <2>1, GotoFacts, HeightFacts DEF Advances
<1>3. CASE Preflight(p)
  <2>1. pc[p] = "statuses" /\ (Goto(p, "idle") \/ Goto(p, "running") \/ Goto(p, "pending"))
    BY <1>3 DEF Preflight, Starts
  <2> QED
    BY <1>0, <2>1, GotoFacts, HeightFacts DEF Advances
<1>4. CASE LockForMigration(p)
  <2>1. /\ pc[p] = "pending"
        /\ Goto(p, "idle") \/ Goto(p, "recovering") \/ Goto(p, "running") \/ Goto(p, "backup")
    BY <1>4 DEF LockForMigration, Starts, BeginRestore
  <2> QED
    BY <1>0, <2>1, GotoFacts, HeightFacts DEF Advances
<1>5. CASE CreateBackup(p) \/ PreparationFails(p) \/ WriteJournal(p)
  <2>1. \/ pc[p] = "backup" /\ (Goto(p, "journal") \/ Goto(p, "idle"))
        \/ pc[p] = "journal" /\ (Goto(p, "migrating") \/ Goto(p, "idle"))
    BY <1>5 DEF CreateBackup, PreparationFails, WriteJournal, Fails
  <2> QED
    BY <1>0, <2>1, GotoFacts, HeightFacts DEF Advances
<1>6. CASE MigrateOne(p)
  <2> DEFINE i == CHOOSE i \in Unfinished : \A j \in Unfinished : i <= j
  <2>1. pc[p] = "migrating" /\ Unfinished # {} /\ Unfinished \subseteq Nat
    <3>1. pc[p] = "migrating" /\ Unfinished # {}
      BY <1>6 DEF MigrateOne
    <3>2. Unfinished \subseteq Nat
      BY SpecsFacts DEF Unfinished
    <3> QED
      BY <3>1, <3>2
  <2>2. i \in Unfinished
    BY <2>1, LeastNumber
  <2>3. Specs[i] \in Databases /\ dbs[Specs[i]].version < Target
    BY <2>2, SpecsFacts DEF Unfinished
  <2>4. CASE Goto(p, "undoing")
    BY <1>0, <2>1, <2>4, GotoFacts, HeightFacts DEF Advances
  <2>5. CASE /\ \E c \in Stepped(dbs[Specs[i]]) : dbs' = [dbs EXCEPT ![Specs[i]] = c]
             /\ UNCHANGED <<pc, src, at>>
    <3> DEFINE d == Specs[i]
    <3>1. PICK c \in Stepped(dbs[d]) : dbs' = [dbs EXCEPT ![d] = c]
      BY <2>5
    <3> HIDE DEF i
    <3>2. dbs \in [Databases -> Content] /\ d \in Databases /\ dbs[d] \in Content
      BY <1>0, <2>3 DEF TypeOK
    <3>3. c.version = dbs[d].version + 1
      BY <2>3, <3>2, SteppedVersion
    <3>4. \A e \in Databases : dbs[e].version \in Nat
      BY <3>2 DEF Content
    <3>5. dbs'[d] = c /\ \A e \in Databases : e # d => dbs'[e] = dbs[e]
      BY <3>1, <3>2
    <3>6. dbs'[d].version > dbs[d].version
      BY <3>2, <3>3, <3>4, <3>5
    <3>7. \A e \in Databases : dbs'[e].version >= dbs[e].version
      BY <3>2, <3>3, <3>4, <3>5
    <3> QED
      BY <1>0, <2>1, <2>5, <3>2, <3>6, <3>7 DEF Advances
  <2> QED
    BY <1>6, <2>4, <2>5 DEF MigrateOne, BeginRestore
<1>7. CASE VerifyMigration(p)
  <2>1. pc[p] = "migrating" /\ (Goto(p, "finishing") \/ Goto(p, "undoing"))
    BY <1>7 DEF VerifyMigration, BeginRestore
  <2> QED
    BY <1>0, <2>1, GotoFacts, HeightFacts DEF Advances
<1>8. CASE FinishMigration(p)
  <2>1. pc[p] = "finishing" /\ Goto(p, "running")
    BY <1>8 DEF FinishMigration, Starts
  <2> QED
    BY <1>0, <2>1, GotoFacts, HeightFacts DEF Advances
<1>9. CASE ReplaceDatabase(p)
  <2>1. pc[p] # "migrating" /\ pc' = pc /\ at' = [at EXCEPT ![p] = @ + 1]
    BY <1>9 DEF ReplaceDatabase, Restoring
  <2>2. at'[p] = at[p] + 1
    BY <1>0, <2>1 DEF TypeOK
  <2> QED
    BY <1>0, <2>1, <2>2 DEF Advances
<1>10. CASE EndRestore(p)
  <2>1. pc[p] \in {"undoing", "recovering", "replacing", "reverting"} /\ Goto(p, "idle")
    BY <1>10 DEF EndRestore, Fails, Restoring
  <2> QED
    BY <1>0, <2>1, GotoFacts, HeightFacts DEF Advances
<1> QED
  BY <1>1, <1>2, <1>3, <1>4, <1>5, <1>6, <1>7, <1>8, <1>9, <1>10 DEF Advance

\* The steps of program q, as far as program p sees them.
LEMMA StepOfAnother ==
  ASSUME DInv, NEW q \in Procs, NEW p \in Procs, q # p,
         \/ StartProgram(q) \/ Advance(q) \/ (\E b \in DOMAIN backups : RestoreCommand(q, b))
         \/ ReplaceFails(q) \/ (\E w \in Work : Record(q, w)) \/ Close(q) \/ Crash(q)
  PROVE  /\ pc'[p] = pc[p] /\ at'[p] = at[p]
         /\ pc[p] = "migrating" => \A d \in Databases : dbs'[d].version = dbs[d].version
<1>0. TypeOK
  BY DEF DInv
<1> DEFINE Moved == pc' = pc \/ \E s \in Steps : Goto(q, s)
           AtMoved == at' = at \/ \E n : at' = [at EXCEPT ![q] = n]
<1>1. Moved /\ AtMoved
  <2> USE DEF Goto, Steps, Starts, Fails, BeginRestore
  <2>1. CASE StartProgram(q) \/ Close(q) \/ Crash(q) \/ \E w \in Work : Record(q, w)
    BY <2>1 DEF StartProgram, Close, Crash, Record
  <2>2. CASE ReplaceFails(q) \/ \E b \in DOMAIN backups : RestoreCommand(q, b)
    BY <2>2 DEF ReplaceFails, RestoreCommand
  <2>3. CASE CheckJournal(q) \/ RecoverInterrupted(q) \/ Preflight(q)
    BY <2>3 DEF CheckJournal, RecoverInterrupted, Preflight
  <2>4. CASE LockForMigration(q)
    BY <2>4 DEF LockForMigration
  <2>5. CASE CreateBackup(q) \/ PreparationFails(q) \/ WriteJournal(q)
    BY <2>5 DEF CreateBackup, PreparationFails, WriteJournal
  <2>6. CASE MigrateOne(q) \/ VerifyMigration(q) \/ FinishMigration(q)
    BY <2>6 DEF MigrateOne, VerifyMigration, FinishMigration
  <2>7. CASE ReplaceDatabase(q) \/ EndRestore(q)
    BY <2>7 DEF ReplaceDatabase, EndRestore
  <2> QED
    BY <2>1, <2>2, <2>3, <2>4, <2>5, <2>6, <2>7 DEF Advance
<1>2. pc'[p] = pc[p] /\ at'[p] = at[p]
  <2>1. pc'[p] = pc[p]
    BY <1>0, <1>1 DEF Goto, TypeOK
  <2>2. at'[p] = at[p]
    BY <1>0, <1>1 DEF TypeOK
  <2> QED
    BY <2>1, <2>2
<1>3. ASSUME pc[p] = "migrating", NEW d \in Databases PROVE dbs'[d].version = dbs[d].version
  <2>1. pc[q] \notin Locked
    BY <1>3 DEF DInv, StageInv, StageOK, Locked
  <2>2. CASE \E w \in Work : Record(q, w)
    BY <1>0, <2>2 DEF Record, TypeOK, Content
  <2>3. CASE dbs' = dbs
    BY <2>3
  <2>4. ~ MigrateOne(q) /\ ~ ReplaceDatabase(q)
    BY <2>1 DEF MigrateOne, ReplaceDatabase, Locked, Restoring
  <2>5. CASE Advance(q)
    BY <2>3, <2>4, <2>5 DEF Advance, CheckJournal, RecoverInterrupted, Preflight,
       LockForMigration, CreateBackup, PreparationFails, WriteJournal, VerifyMigration,
       FinishMigration, EndRestore
  <2> QED
    BY <2>2, <2>3, <2>5 DEF StartProgram, RestoreCommand, ReplaceFails, Close, Crash
<1> QED
  BY <1>2, <1>3

\* A program that migrates or restores goes through its steps in one direction,
\* and no other program sets it back: an attempt has finitely many steps of its
\* own, however programs, crashes and failing copies interleave.  With a program
\* that goes on by itself this is why attempts end.  (migrate, recover, restore)
THEOREM AttemptsAdvance == Spec => AttemptAdvances
<1>1. DInv /\ [Next]_vars =>
          [\A p \in Procs : pc[p] \notin {"idle", "running"} => Advances(p)]_vars
  <2> SUFFICES ASSUME DInv, Next, NEW p \in Procs, pc[p] \notin {"idle", "running"}
               PROVE  Advances(p)
    OBVIOUS
  <2>0. TypeOK /\ at[p] \in Nat /\ \A d \in Databases : dbs[d].version \in Nat
    BY SpecsFacts DEF DInv, TypeOK, Content
  <2>1. CASE Advance(p)
    BY <2>1, OwnStepAdvances
  <2>2. CASE ReplaceFails(p)
    <3>1. \/ pc[p] = "replacing" /\ Goto(p, "reverting")
          \/ pc[p] \in {"recovering", "undoing", "reverting"} /\ Goto(p, "idle")
      BY <2>2 DEF ReplaceFails, Fails, BeginRestore
    <3> QED
      BY <2>0, <3>1, GotoFacts, HeightFacts DEF Advances
  <2>3. CASE Crash(p)
    <3>1. Goto(p, "idle") /\ pc[p] \in Steps \ {"idle", "running"}
      BY <2>0, <2>3 DEF Crash, Fails, TypeOK
    <3> QED
      BY <2>0, <3>1, GotoFacts, HeightFacts DEF Advances, Steps
  <2>4. ASSUME ~ Advance(p), NEW q \in Procs, q # p,
               \/ StartProgram(q) \/ Advance(q)
               \/ (\E b \in DOMAIN backups : RestoreCommand(q, b)) \/ ReplaceFails(q)
               \/ (\E w \in Work : Record(q, w)) \/ Close(q) \/ Crash(q)
        PROVE  Advances(p)
    <3>1. /\ pc'[p] = pc[p] /\ at'[p] = at[p]
          /\ pc[p] = "migrating" => \A d \in Databases : dbs'[d].version = dbs[d].version
      BY <2>4, StepOfAnother
    <3> QED
      BY <2>0, <2>4, <3>1 DEF Advances
  <2>5. /\ ~ StartProgram(p) /\ ~ Close(p)
        /\ \A b \in DOMAIN backups : ~ RestoreCommand(p, b)
        /\ \A w \in Work : ~ Record(p, w)
    BY DEF StartProgram, Close, RestoreCommand, Record
  <2> QED
    BY <2>1, <2>2, <2>3, <2>4, <2>5 DEF Next
<1> QED
  BY <1>1, EvolutionInvariance, PTL DEF Spec, AttemptAdvances
=============================================================================
