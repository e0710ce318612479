----------------------- MODULE SettingsCutoverProofs -----------------------
(***************************************************************************)
(* Theorems about the settings cutover, for every set of programs, modules *)
(* and files, and any number of crashes and changes of settings.json.      *)
(*                                                                         *)
(* The inductive invariant says for every step of a start what journal,    *)
(* archive, anchor and store are (StageOK), what a journal stands for as   *)
(* long as it exists (JournalOK), and what a completed store took over     *)
(* (TakenOK).                                                              *)
(***************************************************************************)
EXTENDS SettingsCutover, WellFoundedInduction, TLAPS

\* Starts are modelled one at a time.
OneStart ==
    \A p, q \in Programs : pc[p] \in Starting /\ pc[q] \in Starting => p = q

\* No store is completed before the journal has the hash of the archive; from
\* then on the archive stays, and it is that of the file the journal names.
JournalOK ==
    /\ (journal = None \/ journal.archive = None)
          => /\ ~ InStatus("completed")
             /\ \A s \in Stores : ~ store[s].completed
    /\ (journal # None /\ journal.source # None)
          => ~ journal.source.unknown /\ journal.planned \subseteq journal.source.policies
    /\ (journal # None /\ journal.archive # None)
          => /\ archive = journal.archive
             /\ journal.source # None => archive = BucketC(journal.source)

\* Settings are changed only when the journal is closed.
TakenOK ==
    \A s \in Stores :
        (store[s].completed /\ journal # None /\ journal.source # None) =>
            \A m \in journal.planned :
                \/ store[s].technical[m] = FromFile(journal.source, m)
                \/ InStatus("completed") /\ store[s].technical[m] = "changed"

Serves(p) ==
    /\ store[Store(p)].completed
    /\ InStatus("completed")
    /\ archive # None
    /\ archive = store[Store(p)].anchor
    /\ \A m \in Registered[p] :
          /\ m \in DOMAIN archive /\ archive[m] # IllTyped
          /\ store[Store(p)].technical[m] # None

\* A cutover up to its journaled hash: it began without a journal.
CutoverStage(p) ==
    pc[p] \in {"journal", "archive", "anchor", "hash"} =>
        /\ legacy # None /\ Usable(p, legacy)
        /\ job[p].payload = BucketB(p, legacy)
        /\ job[p].policies = BucketC(legacy)
        /\ job[p].done = {}
        /\ job[p].journal = journal
        /\ journal = IF pc[p] = "journal" THEN None ELSE NewJournal(p, legacy, None)

SeedStage(p) ==
    pc[p] \in {"seed", "seed_anchor", "seed_journal"} =>
        /\ journal = None
        /\ job[p].payload = DefaultsOf(p)
        /\ job[p].policies = DefaultsOf(p)
        /\ job[p].done = {}

\* The import, in which the archive is settled and what is done is in the store.
ImportStage(p) ==
    pc[p] \in {"import", "record", "close"} =>
        /\ InStatus("in_progress") /\ job[p].journal = journal
        /\ journal.planned = Registered[p]
        /\ journal.archive # None /\ store[Store(p)].anchor = journal.archive
        /\ job[p].payload \in [Registered[p] -> Origins]
        /\ journal.source # None => job[p].payload = BucketB(p, journal.source)
        /\ \A m \in job[p].done : store[Store(p)].technical[m] = job[p].payload[m]

StageOK(p) ==
    /\ pc[p] = "cutover" => journal # None \/ legacy # None
    /\ CutoverStage(p)
    /\ SeedStage(p)
    /\ pc[p] \in {"anchor", "hash", "seed_anchor", "seed_journal"} => archive = job[p].policies
    /\ pc[p] \in {"hash", "seed_journal"} => store[Store(p)].anchor = job[p].policies
    /\ ImportStage(p)
    /\ pc[p] = "close" => job[p].done = Registered[p] /\ store[Store(p)].completed
    /\ pc[p] \in {"harden", "up"} => Serves(p)

SInv ==
    /\ TypeOK
    /\ OneStart
    /\ JournalOK
    /\ TakenOK
    /\ \A p \in Programs : StageOK(p)

-----------------------------------------------------------------------------
(* The values *)

LEMMA PayloadType ==
  ASSUME NEW M, M \subseteq Modules, NEW f \in [M -> Origins]
  PROVE  f \in Policies
  BY DEF Policies

LEMMA KnownModules ==
  ASSUME NEW p \in Programs
  PROVE  /\ Registered[p] \subseteq Modules /\ Registered[p] \subseteq Nat
         /\ UserManagement \in Registered[p]
         /\ Store(p) \in Stores
  BY CutoverConstants DEF Modules, Store, Stores

LEMMA BucketBType ==
  ASSUME NEW p \in Programs, NEW f \in LegacyFiles
  PROVE  /\ BucketB(p, f) \in [Registered[p] -> Origins] /\ BucketB(p, f) \in Policies
         /\ \A m \in Registered[p] : BucketB(p, f)[m] = FromFile(f, m)
  <1>1. \A m \in Registered[p] : FromFile(f, m) \in Origins
    BY DEF FromFile, Origins
  <1>2. BucketB(p, f) \in [Registered[p] -> Origins]
    BY <1>1 DEF BucketB
  <1>3. BucketB(p, f) \in Policies
    BY <1>2, KnownModules, PayloadType
  <1>4. QED
    BY <1>2, <1>3 DEF BucketB

LEMMA BucketCType ==
  ASSUME NEW f \in LegacyFiles
  PROVE  /\ BucketC(f) \in Policies /\ DOMAIN BucketC(f) = f.policies
         /\ \A m \in f.policies \ f.illPolicies : BucketC(f)[m] # IllTyped
  <1>1. f.policies \subseteq Modules
    BY CutoverConstants
  <1>2. BucketC(f) \in [f.policies -> Origins]
    BY DEF BucketC, Origins
  <1>3. \A m \in f.policies \ f.illPolicies : BucketC(f)[m] # IllTyped
    BY CutoverConstants DEF BucketC
  <1>4. QED
    BY <1>1, <1>2, <1>3, PayloadType

LEMMA DefaultsType ==
  ASSUME NEW p \in Programs
  PROVE  DefaultsOf(p) \in [Registered[p] -> Origins] /\ DefaultsOf(p) \in Policies
  <1>1. DefaultsOf(p) \in [Registered[p] -> Origins]
    BY DEF DefaultsOf, Origins
  <1>2. QED
    BY <1>1, KnownModules, PayloadType

LEMMA NewJournalType ==
  ASSUME NEW p \in Programs, NEW f \in LegacyFiles \cup {None}, NEW d \in Policies \cup {None}
  PROVE  /\ NewJournal(p, f, d) \in Journal
         /\ NewJournal(p, f, d).status = "in_progress" /\ NewJournal(p, f, d).source = f
         /\ NewJournal(p, f, d).planned = Registered[p] /\ NewJournal(p, f, d).archive = d
  BY KnownModules DEF NewJournal, Journal

-----------------------------------------------------------------------------
(* Steps *)

LEMMA GotoStep ==
  ASSUME TypeOK, NEW p \in Programs, NEW x \in Steps, Goto(p, x)
  PROVE  /\ pc' \in [Programs -> Steps] /\ pc'[p] = x
         /\ \A q \in Programs : q # p => pc'[q] = pc[q]
  BY DEF TypeOK, Goto

\* What a change of the variables of p leaves to be shown.
OnlyJobOf(p) ==
    /\ job' \in [Programs -> Job]
    /\ \A q \in Programs : q # p => job'[q] = job[q]
    /\ job'[p].done \subseteq Registered[p]

\* A step that writes neither files nor store.
LEMMA MoveKeeps ==
  ASSUME SInv, NEW p \in Programs, NEW x \in Steps, Goto(p, x), OnlyJobOf(p),
         x \in Starting => pc[p] \in Starting \/ Quiet,
         StageOK(p)', UNCHANGED <<files, store>>,
         touches' \in 0 .. MaxTouches, crashes' \in 0 .. MaxCrashes
  PROVE  SInv'
  <1>1. /\ pc' \in [Programs -> Steps] /\ pc'[p] = x
        /\ \A q \in Programs : q # p => pc'[q] = pc[q] /\ job'[q] = job[q]
    BY GotoStep DEF SInv, OnlyJobOf
  <1>2. TypeOK'
    BY <1>1 DEF SInv, TypeOK, OnlyJobOf, files
  <1>3. OneStart'
    BY <1>1 DEF SInv, OneStart, Quiet
  <1>4. JournalOK' /\ TakenOK'
    BY DEF SInv, JournalOK, TakenOK, InStatus, files
  <1>5. ASSUME NEW q \in Programs, q # p PROVE StageOK(q)'
    <2>1. pc'[q] = pc[q] /\ job'[q] = job[q] /\ StageOK(q)
      BY <1>1, <1>5 DEF SInv
    <2>2. UNCHANGED <<legacy, journal, archive, store>>
      BY DEF files
    <2>3. CutoverStage(q)'
      BY <2>1, <2>2 DEF StageOK, CutoverStage
    <2>4. SeedStage(q)'
      BY <2>1, <2>2 DEF StageOK, SeedStage
    <2>5. ImportStage(q)'
      <3>1. ImportStage(q) /\ (InStatus("in_progress") => InStatus("in_progress")')
        BY <2>1, <2>2 DEF StageOK, InStatus
      <3>2. QED
        BY <2>1, <2>2, <3>1 DEF ImportStage
    <2>6. pc[q] \in {"harden", "up"} => Serves(q)'
      BY <2>1, <2>2 DEF StageOK, Serves, InStatus
    <2>7. QED
      BY <2>1, <2>2, <2>3, <2>4, <2>5, <2>6 DEF StageOK
  <1>6. QED
    BY <1>2, <1>3, <1>4, <1>5 DEF SInv

\* The steps of a start that write a file or the store.
Writing == {"journal", "archive", "anchor", "hash", "seed", "seed_anchor", "seed_journal",
            "import", "record", "close"}

\* While a start writes, no program is up.
LEMMA NobodyUp ==
  ASSUME SInv, NEW p \in Programs, pc[p] \in Writing
  PROVE  \A q \in Programs : q # p => pc[q] = "down"
  <1>1. ~ InStatus("completed")
    <2>1. StageOK(p)
      BY DEF SInv
    <2>2. CASE pc[p] \in {"journal", "seed", "seed_anchor", "seed_journal"}
      BY <2>1, <2>2 DEF StageOK, CutoverStage, SeedStage, InStatus
    <2>3. CASE pc[p] \in {"archive", "anchor", "hash"}
      <3>1. journal = NewJournal(p, legacy, None)
        BY <2>1, <2>3 DEF StageOK, CutoverStage
      <3>2. QED
        BY <3>1 DEF NewJournal, InStatus
    <2>4. CASE pc[p] \in {"import", "record", "close"}
      BY <2>1, <2>4 DEF StageOK, ImportStage, InStatus
    <2>5. QED
      BY <2>2, <2>3, <2>4 DEF Writing
  <1>2. ASSUME NEW q \in Programs, q # p PROVE pc[q] = "down"
    <2>1. pc[q] \notin Starting
      BY <1>2 DEF SInv, OneStart, Writing, Starting, Steps
    <2>2. pc[q] # "up"
      BY <1>1 DEF SInv, StageOK, Serves
    <2>3. QED
      BY <2>1, <2>2 DEF SInv, TypeOK, Starting
  <1>3. QED
    BY <1>2

LEMMA WriteKeeps ==
  ASSUME SInv, NEW p \in Programs, pc[p] \in Writing, NEW x \in Steps, Goto(p, x), OnlyJobOf(p),
         journal' \in Journal \cup {None}, archive' \in Policies \cup {None},
         store' \in [Stores -> StoreState], UNCHANGED <<legacy, touches, crashes>>,
         JournalOK', TakenOK', StageOK(p)'
  PROVE  SInv'
  <1>1. /\ pc' \in [Programs -> Steps] /\ pc'[p] = x
        /\ \A q \in Programs : q # p => pc'[q] = "down" /\ job'[q] = job[q]
    BY GotoStep, NobodyUp DEF SInv, OnlyJobOf
  <1>2. TypeOK'
    BY <1>1 DEF SInv, TypeOK, OnlyJobOf
  <1>3. OneStart'
    BY <1>1 DEF OneStart, Starting
  <1>4. \A q \in Programs : q # p => StageOK(q)'
    BY <1>1 DEF StageOK, CutoverStage, SeedStage, ImportStage
  <1>5. QED
    BY <1>2, <1>3, <1>4 DEF SInv

\* What the step of p keeps in memory.
LEMMA JobStep ==
  ASSUME TypeOK, NEW p \in Programs, NEW j \in Job, j.done \subseteq Registered[p],
         job' = [job EXCEPT ![p] = j]
  PROVE  OnlyJobOf(p) /\ job'[p] = j
  BY DEF TypeOK, OnlyJobOf

LEMMA NoJobType == NoJob \in Job /\ NoJob.done = {}
  BY DEF NoJob, Job

LEMMA RefusesKeeps ==
  ASSUME SInv, NEW p \in Programs, Refuses(p), UNCHANGED <<files, store>>,
         touches' \in 0 .. MaxTouches, crashes' \in 0 .. MaxCrashes
  PROVE  SInv'
  <1>1. Goto(p, "down") /\ OnlyJobOf(p)
    BY NoJobType, JobStep DEF Refuses, SInv
  <1>2. "down" \in Steps /\ "down" \notin Starting /\ pc'[p] = "down"
    BY <1>1, GotoStep DEF Steps, Starting, SInv
  <1>3. StageOK(p)'
    BY <1>2 DEF StageOK, CutoverStage, SeedStage, ImportStage
  <1>4. QED
    BY <1>1, <1>2, <1>3, MoveKeeps

LEMMA StartKeeps ==
  ASSUME SInv, NEW p \in Programs, Start(p)
  PROVE  SInv'
  <1>1. /\ Goto(p, "ensure") /\ Quiet /\ UNCHANGED <<files, store, job>>
        /\ touches' \in 0 .. MaxTouches /\ crashes' \in 0 .. MaxCrashes
    BY DEF Start, SInv, TypeOK
  <1>2. OnlyJobOf(p)
    BY <1>1 DEF SInv, TypeOK, OnlyJobOf
  <1>3. "ensure" \in Steps /\ pc'[p] = "ensure"
    BY <1>1, GotoStep DEF Steps, SInv
  <1>4. StageOK(p)'
    BY <1>3 DEF StageOK, CutoverStage, SeedStage, ImportStage
  <1>5. QED
    BY <1>1, <1>2, <1>3, <1>4, MoveKeeps

\* The settings are attached as completed, on files and store that stay as they are.
LEMMA ServesKeeps ==
  ASSUME SInv, NEW p \in Programs, pc[p] \in Starting, ServesOrRefuses(p), CutoverDone(p),
         UNCHANGED <<files, store, touches, crashes>>
  PROVE  SInv'
  <1>1. touches' \in 0 .. MaxTouches /\ crashes' \in 0 .. MaxCrashes
    BY DEF SInv, TypeOK
  <1>2. CASE Attaches(p, TRUE)
    <2> DEFINE x == IF p \in Backend THEN "harden" ELSE "up"
    <2>1. x \in Steps /\ x \in {"harden", "up"}
      BY DEF Steps
    <2>2. Goto(p, x) /\ OnlyJobOf(p)
      BY <1>2, NoJobType, JobStep DEF ServesOrRefuses, SInv
    <2>3. pc'[p] \in {"harden", "up"}
      BY <2>1, <2>2, GotoStep DEF SInv
    <2> HIDE DEF x
    <2>4. archive # None
      BY NoneAssumption DEF SInv, JournalOK, TypeOK, Journal, CutoverDone, InStatus
    <2>5. Serves(p)
      BY <1>2, <2>4 DEF Serves, Attaches, CutoverDone
    <2>6. Serves(p)'
      BY <2>5 DEF Serves, InStatus, files
    <2>7. StageOK(p)'
      BY <2>3, <2>6 DEF StageOK, CutoverStage, SeedStage, ImportStage
    <2>8. QED
      BY <1>1, <2>1, <2>2, <2>7, MoveKeeps
  <1>3. CASE ~ Attaches(p, TRUE)
    BY <1>1, <1>3, RefusesKeeps DEF ServesOrRefuses
  <1>4. QED
    BY <1>2, <1>3

LEMMA EnsureKeeps ==
  ASSUME SInv, NEW p \in Programs, EnsureResidualReady(p)
  PROVE  SInv'
  <1>1. /\ pc[p] = "ensure" /\ pc[p] \in Starting /\ UNCHANGED <<files, store, touches, crashes>>
        /\ touches' \in 0 .. MaxTouches /\ crashes' \in 0 .. MaxCrashes
    BY DEF EnsureResidualReady, Starting, Steps, SInv, TypeOK
  <1>2. CASE Refuses(p)
    BY <1>1, <1>2, RefusesKeeps
  <1>3. CASE CutoverDone(p) /\ ServesOrRefuses(p)
    BY <1>1, <1>3, ServesKeeps
  <1>4. CASE Goto(p, "cutover") /\ UNCHANGED job /\ (InStatus("in_progress") \/ legacy # None)
    <2>1. OnlyJobOf(p)
      BY <1>4 DEF SInv, TypeOK, OnlyJobOf
    <2>2. "cutover" \in Steps /\ pc'[p] = "cutover"
      BY <1>4, GotoStep DEF Steps, SInv
    <2>3. StageOK(p)'
      BY <1>1, <1>4, <2>2 DEF StageOK, CutoverStage, SeedStage, ImportStage, InStatus, files
    <2>4. QED
      BY <1>1, <1>4, <2>1, <2>2, <2>3, MoveKeeps
  <1>5. CASE /\ ~ InStatus("in_progress") /\ archive = None /\ Goto(p, "seed")
             /\ job' = [job EXCEPT ![p] =
                    [NoJob EXCEPT !.payload = DefaultsOf(p), !.policies = DefaultsOf(p)]]
    <2> DEFINE j == [NoJob EXCEPT !.payload = DefaultsOf(p), !.policies = DefaultsOf(p)]
    <2>1. /\ j \in Job /\ j.done = {} /\ j.payload = DefaultsOf(p) /\ j.policies = DefaultsOf(p)
      BY DefaultsType DEF NoJob, Job
    <2>2. job' = [job EXCEPT ![p] = j]
      BY <1>5
    <2> HIDE DEF j
    <2>3. OnlyJobOf(p) /\ job'[p] = j
      BY <2>1, <2>2, JobStep DEF SInv
    <2>4. "seed" \in Steps /\ pc'[p] = "seed"
      BY <1>5, GotoStep DEF Steps, SInv
    <2>5. journal = None
      BY <1>5, NoneAssumption DEF SInv, JournalOK, TypeOK, Journal, InStatus
    <2>6. StageOK(p)'
      BY <1>1, <2>1, <2>3, <2>4, <2>5 DEF StageOK, CutoverStage, SeedStage, ImportStage, files
    <2>7. QED
      BY <1>1, <1>5, <2>3, <2>4, <2>6, MoveKeeps
  <1>6. QED
    BY <1>2, <1>3, <1>4, <1>5 DEF EnsureResidualReady, CutoverDone

LEMMA BeginCutoverKeeps ==
  ASSUME SInv, NEW p \in Programs, BeginCutover(p)
  PROVE  SInv'
  <1>1. /\ pc[p] = "cutover" /\ pc[p] \in Starting /\ UNCHANGED <<files, store, touches, crashes>>
        /\ touches' \in 0 .. MaxTouches /\ crashes' \in 0 .. MaxCrashes
    BY DEF BeginCutover, Starting, Steps, SInv, TypeOK
  <1>2. CASE Refuses(p)
    BY <1>1, <1>2, RefusesKeeps
  <1>3. CASE CutoverDone(p) /\ ServesOrRefuses(p)
    BY <1>1, <1>3, ServesKeeps
  <1>4. CASE /\ Resumable(p) /\ Goto(p, "import")
             /\ job' = [job EXCEPT ![p] =
                    [NoJob EXCEPT !.payload = BucketB(p, legacy),
                                  !.already = journal.imported, !.journal = journal]]
    <2> DEFINE b == BucketB(p, legacy)
               j == [NoJob EXCEPT !.payload = b, !.already = journal.imported,
                                  !.journal = journal]
    <2>1. legacy \in LegacyFiles /\ journal \in Journal
      BY <1>4 DEF Resumable, InStatus, SInv, TypeOK
    <2>2. b \in Policies /\ b \in [Registered[p] -> Origins]
      BY <2>1, BucketBType
    <2>3. j \in Job /\ j.done = {} /\ j.payload = b /\ j.journal = journal
      BY <2>1, <2>2 DEF NoJob, Job, Journal
    <2>4. job' = [job EXCEPT ![p] = j]
      BY <1>4
    <2> HIDE DEF j
    <2>5. OnlyJobOf(p) /\ job'[p] = j
      BY <2>3, <2>4, JobStep DEF SInv
    <2>6. "import" \in Steps /\ pc'[p] = "import"
      BY <1>4, GotoStep DEF Steps, SInv
    <2>7. ImportStage(p)'
      BY <1>1, <1>4, <2>2, <2>3, <2>5 DEF ImportStage, Resumable, InStatus, files
    <2>8. StageOK(p)'
      BY <2>6, <2>7 DEF StageOK, CutoverStage, SeedStage
    <2>9. QED
      BY <1>1, <1>4, <2>5, <2>6, <2>8, MoveKeeps
  <1>5. CASE /\ journal = None /\ Usable(p, legacy) /\ Goto(p, "journal")
             /\ job' = [job EXCEPT ![p] =
                    [NoJob EXCEPT !.payload = BucketB(p, legacy), !.policies = BucketC(legacy)]]
    <2> DEFINE b == BucketB(p, legacy)
               c == BucketC(legacy)
               j == [NoJob EXCEPT !.payload = b, !.policies = c]
    <2>1. legacy \in LegacyFiles /\ legacy # None
      BY <1>1, <1>5 DEF SInv, StageOK, TypeOK
    <2>2. b \in Policies /\ c \in Policies
      BY <2>1, BucketBType, BucketCType
    <2>3. j \in Job /\ j.done = {} /\ j.payload = b /\ j.policies = c /\ j.journal = None
      BY <2>2 DEF NoJob, Job
    <2>4. job' = [job EXCEPT ![p] = j]
      BY <1>5
    <2> HIDE DEF j
    <2>5. OnlyJobOf(p) /\ job'[p] = j
      BY <2>3, <2>4, JobStep DEF SInv
    <2>6. "journal" \in Steps /\ pc'[p] = "journal"
      BY <1>5, GotoStep DEF Steps, SInv
    <2>7. CutoverStage(p)'
      <3>1. legacy' = legacy /\ journal' = None
        BY <1>1, <1>5 DEF files
      <3>2. /\ job'[p].payload = b /\ job'[p].policies = c /\ job'[p].done = {}
            /\ job'[p].journal = None
        BY <2>3, <2>5
      <3>3. QED
        BY <1>5, <2>1, <2>6, <3>1, <3>2 DEF CutoverStage
    <2>8. StageOK(p)'
      BY <2>6, <2>7 DEF StageOK, ImportStage, SeedStage
    <2>9. QED
      BY <1>1, <1>5, <2>5, <2>6, <2>8, MoveKeeps
  <1>6. QED
    BY <1>2, <1>3, <1>4, <1>5 DEF BeginCutover

LEMMA StopKeeps ==
  ASSUME SInv, NEW p \in Programs, Stop(p) \/ Crash(p)
  PROVE  SInv'
  <1>1. Refuses(p) /\ UNCHANGED <<files, store>>
    BY DEF Stop, Crash
  <1>2. touches' \in 0 .. MaxTouches /\ crashes' \in 0 .. MaxCrashes
    BY CutoverConstants DEF Stop, Crash, SInv, TypeOK
  <1>3. QED
    BY <1>1, <1>2, RefusesKeeps

\* A setting of a program that serves is changed, by itself or by its user.
LEMMA SettingKeeps ==
  ASSUME SInv, NEW p \in Programs, pc[p] \in {"harden", "up"}, Goto(p, "up"),
         NEW m \in Registered[p], SetModuleSettings(p, m)
  PROVE  SInv'
  <1> DEFINE t == Store(p)
             n == [store[t] EXCEPT !.technical[m] = "changed"]
  <1>1. t \in Stores /\ m \in Modules /\ store \in [Stores -> StoreState]
    BY KnownModules DEF SInv, TypeOK
  <1>2. /\ store' = [store EXCEPT ![t] = n]
        /\ UNCHANGED <<legacy, journal, archive, job, touches, crashes>>
    BY <1>1 DEF SetModuleSettings, files
  <1>3. /\ n \in StoreState /\ n.anchor = store[t].anchor /\ n.completed = store[t].completed
        /\ n.technical[m] = "changed"
        /\ \A k \in Modules : k # m => n.technical[k] = store[t].technical[k]
    BY <1>1 DEF StoreState, Technical
  <1> HIDE DEF n, t
  <1>4. store' \in [Stores -> StoreState] /\ store'[t] = n
        /\ \A s \in Stores : s # t => store'[s] = store[s]
    BY <1>1, <1>2, <1>3
  <1>5. /\ pc' \in [Programs -> Steps] /\ pc'[p] = "up"
        /\ \A q \in Programs : q # p => pc'[q] = pc[q]
    BY GotoStep DEF SInv, Steps
  <1>6. Serves(p) /\ InStatus("completed") /\ journal \in Journal
    BY DEF SInv, StageOK, Serves, InStatus, TypeOK
  <1>7. TypeOK'
    BY <1>2, <1>4, <1>5 DEF SInv, TypeOK
  <1>8. OneStart'
    BY <1>5 DEF SInv, OneStart, Starting
  <1>9. JournalOK'
    BY <1>2, <1>6 DEF SInv, JournalOK, InStatus
  <1>10. TakenOK'
    <2> SUFFICES ASSUME NEW s \in Stores, store'[s].completed, journal.source # None,
                        NEW k \in journal.planned
                 PROVE  \/ store'[s].technical[k] = FromFile(journal.source, k)
                        \/ store'[s].technical[k] = "changed"
      BY <1>2, <1>6 DEF TakenOK, InStatus
    <2>1. store[s].completed /\ k \in Modules
      BY <1>3, <1>4, <1>6 DEF Journal
    <2>2. \/ store[s].technical[k] = FromFile(journal.source, k)
          \/ store[s].technical[k] = "changed"
      BY <1>6, <2>1 DEF SInv, TakenOK, InStatus
    <2>3. QED
      BY <1>3, <1>4, <2>1, <2>2
  <1>11. ASSUME NEW q \in Programs, Serves(q) PROVE Serves(q)'
    <2>1. Store(q) \in Stores /\ Registered[q] \subseteq Modules
      BY KnownModules
    <2>2. /\ store'[Store(q)].completed = store[Store(q)].completed
          /\ store'[Store(q)].anchor = store[Store(q)].anchor
          /\ \A k \in Registered[q] :
                store[Store(q)].technical[k] # None => store'[Store(q)].technical[k] # None
      BY <1>3, <1>4, <2>1, NoneAssumption
    <2>3. QED
      BY <1>2, <1>11, <2>2 DEF Serves, InStatus
  <1>12. ASSUME NEW q \in Programs PROVE StageOK(q)'
    <2>1. CASE pc'[q] \in {"harden", "up"}
      <3>1. Serves(q)
        BY <1>5, <1>6, <2>1 DEF SInv, StageOK
      <3>2. QED
        BY <1>11, <2>1, <3>1 DEF StageOK, CutoverStage, SeedStage, ImportStage
    <2>2. CASE pc'[q] \notin {"harden", "up"}
      <3>1. q # p /\ pc'[q] = pc[q] /\ StageOK(q)
        BY <1>5, <2>2 DEF SInv
      <3>2. journal # None /\ journal.status = "completed"
        BY <1>6 DEF InStatus
      <3>3. pc[q] \notin Writing
        <4>1. CASE pc[q] \in Writing
          BY <4>1, <3>1, NobodyUp
        <4>2. QED
          BY <4>1
      <3>4. QED
        BY <1>2, <2>2, <3>1, <3>2, <3>3
           DEF StageOK, CutoverStage, SeedStage, ImportStage, Writing
    <2>3. QED
      BY <2>1, <2>2
  <1>13. QED
    BY <1>7, <1>8, <1>9, <1>10, <1>12 DEF SInv

LEMMA ChangeKeeps ==
  ASSUME SInv, NEW p \in Programs, ForceHardened(p) \/ ChangeSettings(p)
  PROVE  SInv'
  <1>1. CASE ForceHardened(p)
    BY <1>1, SettingKeeps, KnownModules DEF ForceHardened
  <1>2. CASE ChangeSettings(p)
    <2>1. Goto(p, "up")
      BY <1>2 DEF ChangeSettings, Goto, SInv, TypeOK
    <2>2. QED
      BY <1>2, <2>1, SettingKeeps DEF ChangeSettings
  <1>3. QED
    BY <1>1, <1>2

LEMMA TouchKeeps ==
  ASSUME SInv, TouchLegacy
  PROVE  SInv'
  <1>1. /\ legacy' \in LegacyFiles \cup {None}
        /\ UNCHANGED <<journal, archive, store, pc, job, crashes>>
        /\ touches' \in 0 .. MaxTouches
    BY CutoverConstants DEF TouchLegacy, SInv, TypeOK
  <1>2. TypeOK' /\ OneStart'
    BY <1>1 DEF SInv, TypeOK, OneStart
  <1>3. JournalOK' /\ TakenOK'
    BY <1>1 DEF SInv, JournalOK, TakenOK, InStatus
  <1>4. ASSUME NEW q \in Programs PROVE StageOK(q)'
    <2>1. pc[q] \in {"down", "up"} /\ pc'[q] = pc[q]
      BY <1>1 DEF TouchLegacy, Quiet, Starting, SInv, TypeOK
    <2>2. pc[q] = "up" => Serves(q)'
      BY <1>1 DEF SInv, StageOK, Serves, InStatus
    <2>3. QED
      BY <2>1, <2>2 DEF StageOK, CutoverStage, SeedStage, ImportStage
  <1>5. QED
    BY <1>2, <1>3, <1>4 DEF SInv

\* A store that a start has anchored, or that is completed, is not empty, so the
\* snapshot does not reach it.
LEMMA SnapshotKeeps ==
  ASSUME SInv, ImportSnapshot
  PROVE  SInv'
  <1>1. /\ store["postgres"].anchor = None /\ ~ store["postgres"].completed
        /\ store' = [store EXCEPT !["postgres"] = store["sqlite"]]
        /\ UNCHANGED <<legacy, journal, archive, pc, job, touches, crashes>>
    BY DEF ImportSnapshot, EmptyStore, files
  <1>2. /\ store \in [Stores -> StoreState] /\ store' \in [Stores -> StoreState]
        /\ store'["postgres"] = store["sqlite"] /\ store'["sqlite"] = store["sqlite"]
    BY <1>1 DEF SInv, TypeOK, Stores
  <1>3. TypeOK' /\ OneStart'
    BY <1>1, <1>2 DEF SInv, TypeOK, OneStart
  <1>4. JournalOK'
    BY <1>1, <1>2 DEF SInv, JournalOK, InStatus, Stores
  <1>5. TakenOK'
    BY <1>1, <1>2 DEF SInv, TakenOK, InStatus, Stores
  <1>6. ASSUME NEW q \in Programs PROVE StageOK(q)'
    <2>1. StageOK(q) /\ pc'[q] = pc[q] /\ job'[q] = job[q] /\ Store(q) \in Stores
      BY <1>1, KnownModules DEF SInv
    <2>2. CutoverStage(q)' /\ SeedStage(q)'
      <3>1. CutoverStage(q)'
        BY <1>1, <2>1 DEF StageOK, CutoverStage
      <3>2. SeedStage(q)'
        BY <1>1, <2>1 DEF StageOK, SeedStage
      <3>3. QED
        BY <3>1, <3>2
    <2>3. job[q].policies # None
          \/ pc[q] \notin {"hash", "seed_journal"}
      <3>1. CASE pc[q] = "hash"
        <4>1. legacy \in LegacyFiles /\ job[q].policies = BucketC(legacy)
          BY <2>1, <3>1 DEF StageOK, CutoverStage, SInv, TypeOK
        <4>2. QED
          BY <4>1, BucketCType, NoneAssumption
      <3>2. CASE pc[q] = "seed_journal"
        <4>1. job[q].policies = DefaultsOf(q)
          BY <2>1, <3>2 DEF StageOK, SeedStage
        <4>2. QED
          BY <4>1, DefaultsType, NoneAssumption
      <3>3. QED
        BY <3>1, <3>2
    <2>4. CASE Store(q) = "postgres"
      <3>1. pc[q] \notin {"hash", "seed_journal", "import", "record", "close", "harden", "up"}
        BY <1>1, <2>1, <2>3, <2>4 DEF StageOK, ImportStage, Serves
      <3>2. QED
        BY <1>1, <2>1, <2>2, <3>1 DEF StageOK, ImportStage
    <2>5. CASE Store(q) = "sqlite"
      <3>1. store'[Store(q)] = store[Store(q)]
        BY <1>2, <2>5
      <3>2. ImportStage(q)'
        BY <1>1, <2>1, <3>1 DEF StageOK, ImportStage, InStatus
      <3>3. pc[q] \in {"harden", "up"} => Serves(q)'
        BY <1>1, <2>1, <3>1 DEF StageOK, Serves, InStatus
      <3>4. QED
        BY <1>1, <2>1, <2>2, <3>1, <3>2, <3>3 DEF StageOK
    <2>6. QED
      BY <2>1, <2>4, <2>5 DEF Stores
  <1>7. QED
    BY <1>3, <1>4, <1>5, <1>6 DEF SInv

-----------------------------------------------------------------------------
(* The writes of a start *)

\* Before the journal has the hash, no store is completed.
LEMMA BeforeHash ==
  ASSUME SInv, NEW p \in Programs,
         pc[p] \in {"journal", "archive", "anchor", "hash", "seed", "seed_anchor", "seed_journal"}
  PROVE  /\ journal = None \/ journal.archive = None
         /\ \A s \in Stores : ~ store[s].completed
         /\ job[p].policies \in Policies /\ job[p].done = {}
  <1>1. StageOK(p) /\ legacy \in LegacyFiles \cup {None}
    BY DEF SInv, TypeOK
  <1>2. CASE pc[p] = "journal"
    <2>1. /\ journal = None /\ legacy \in LegacyFiles
          /\ job[p].policies = BucketC(legacy) /\ job[p].done = {}
      BY <1>1, <1>2 DEF StageOK, CutoverStage
    <2>2. QED
      BY <2>1, BucketCType DEF SInv, JournalOK
  <1>3. CASE pc[p] \in {"archive", "anchor", "hash"}
    <2>1. /\ journal = NewJournal(p, legacy, None) /\ legacy \in LegacyFiles
          /\ job[p].policies = BucketC(legacy) /\ job[p].done = {}
      BY <1>1, <1>3 DEF StageOK, CutoverStage
    <2>2. journal.archive = None
      BY <2>1 DEF NewJournal
    <2>3. QED
      BY <2>1, <2>2, BucketCType DEF SInv, JournalOK
  <1>4. CASE pc[p] \in {"seed", "seed_anchor", "seed_journal"}
    <2>1. journal = None /\ job[p].policies = DefaultsOf(p) /\ job[p].done = {}
      BY <1>1, <1>4 DEF StageOK, SeedStage
    <2>2. QED
      BY <2>1, DefaultsType DEF SInv, JournalOK
  <1>5. QED
    BY <1>2, <1>3, <1>4

\* Only the journal of the job changes.
LEMMA JobJournalStep ==
  ASSUME TypeOK, NEW p \in Programs, NEW n \in Journal, job' = [job EXCEPT ![p].journal = n]
  PROVE  /\ OnlyJobOf(p) /\ job'[p].journal = n
         /\ job'[p].payload = job[p].payload /\ job'[p].policies = job[p].policies
         /\ job'[p].done = job[p].done
  <1> DEFINE j == [job[p] EXCEPT !.journal = n]
  <1>1. job[p] \in Job /\ job[p].done \subseteq Registered[p]
    BY DEF TypeOK
  <1>2. /\ j \in Job /\ j.journal = n /\ j.payload = job[p].payload
        /\ j.policies = job[p].policies /\ j.done = job[p].done
    BY <1>1 DEF Job
  <1>3. job' = [job EXCEPT ![p] = j]
    OBVIOUS
  <1> HIDE DEF j
  <1>4. QED
    BY <1>1, <1>2, <1>3, JobStep

LEMMA BeginJournalKeeps ==
  ASSUME SInv, NEW p \in Programs, BeginJournal(p)
  PROVE  SInv'
  <1> DEFINE n == NewJournal(p, legacy, None)
  <1>1. /\ pc[p] = "journal" /\ Goto(p, "archive") /\ journal' = n
        /\ job' = [job EXCEPT ![p].journal = n]
        /\ UNCHANGED <<legacy, archive, store, touches, crashes>>
    BY DEF BeginJournal
  <1>2. StageOK(p) /\ CutoverStage(p)
    BY DEF SInv, StageOK
  <1>3. /\ legacy \in LegacyFiles /\ Usable(p, legacy) /\ legacy # None
        /\ job[p].payload = BucketB(p, legacy) /\ job[p].policies = BucketC(legacy)
        /\ job[p].done = {}
    BY <1>1, <1>2 DEF CutoverStage, SInv, TypeOK
  <1>4. /\ n \in Journal /\ n.status = "in_progress" /\ n.source = legacy
        /\ n.planned = Registered[p] /\ n.archive = None
    BY <1>3, NewJournalType
  <1>5. n # None
    BY <1>4, NoneAssumption
  <1>6. /\ OnlyJobOf(p) /\ job'[p].journal = n /\ job'[p].done = {}
        /\ job'[p].payload = BucketB(p, legacy) /\ job'[p].policies = BucketC(legacy)
    BY <1>1, <1>3, <1>4, JobJournalStep DEF SInv
  <1>7. "archive" \in Steps /\ pc'[p] = "archive" /\ pc[p] \in Writing
    BY <1>1, GotoStep DEF SInv, Steps, Writing
  <1>8. \A s \in Stores : ~ store'[s].completed
    BY <1>1, BeforeHash
  <1>9. StageOK(p)'
    <2>1. CutoverStage(p)'
      BY <1>1, <1>3, <1>6, <1>7 DEF CutoverStage
    <2>2. QED
      BY <1>7, <2>1 DEF StageOK, SeedStage, ImportStage
  <1> HIDE DEF n
  <1>10. JournalOK' /\ TakenOK'
    BY <1>1, <1>3, <1>4, <1>8 DEF JournalOK, TakenOK, InStatus, Usable
  <1>11. QED
    BY <1>1, <1>4, <1>6, <1>7, <1>9, <1>10, WriteKeeps DEF SInv, TypeOK

LEMMA WriteArchiveKeeps ==
  ASSUME SInv, NEW p \in Programs, WriteArchive(p)
  PROVE  SInv'
  <1>1. /\ pc[p] \in {"archive", "seed"} /\ archive' = job[p].policies
        /\ UNCHANGED <<legacy, journal, store, job, touches, crashes>>
    BY DEF WriteArchive
  <1>2. PICK x \in {"anchor", "seed_anchor"} :
            Goto(p, x) /\ (pc[p] = "archive" <=> x = "anchor")
    BY DEF WriteArchive
  <1>3. x \in Steps /\ pc'[p] = x /\ pc[p] \in Writing
    BY <1>1, <1>2, GotoStep DEF SInv, Steps, Writing
  <1>4. /\ journal = None \/ journal.archive = None
        /\ \A s \in Stores : ~ store[s].completed
        /\ job[p].policies \in Policies
    BY <1>1, BeforeHash
  <1>5. JournalOK' /\ TakenOK'
    BY <1>1, <1>4 DEF SInv, JournalOK, TakenOK, InStatus
  <1>6. OnlyJobOf(p)
    BY <1>1 DEF OnlyJobOf, SInv, TypeOK
  <1>7. StageOK(p)'
    <2>1. StageOK(p)
      BY DEF SInv
    <2>2. CutoverStage(p)'
      BY <1>1, <1>2, <1>3, <2>1 DEF StageOK, CutoverStage
    <2>3. SeedStage(p)'
      BY <1>1, <1>2, <1>3, <2>1 DEF StageOK, SeedStage
    <2>4. QED
      BY <1>1, <1>2, <1>3, <2>2, <2>3 DEF StageOK, ImportStage
  <1>8. QED
    BY <1>1, <1>2, <1>3, <1>4, <1>5, <1>6, <1>7, WriteKeeps DEF SInv, TypeOK

LEMMA AnchorHashKeeps ==
  ASSUME SInv, NEW p \in Programs, AnchorHash(p)
  PROVE  SInv'
  <1> DEFINE t == Store(p)
             n == [store[t] EXCEPT !.anchor = job[p].policies]
  <1>1. /\ pc[p] \in {"anchor", "seed_anchor"}
        /\ UNCHANGED <<legacy, journal, archive, job, touches, crashes>>
    BY DEF AnchorHash, files
  <1>2. PICK x \in {"hash", "seed_journal"} :
            Goto(p, x) /\ (pc[p] = "anchor" <=> x = "hash")
    BY DEF AnchorHash
  <1>3. x \in Steps /\ pc'[p] = x /\ pc[p] \in Writing
    BY <1>1, <1>2, GotoStep DEF SInv, Steps, Writing
  <1>4. /\ journal = None \/ journal.archive = None
        /\ \A s \in Stores : ~ store[s].completed
        /\ job[p].policies \in Policies
    BY <1>1, BeforeHash
  <1>5. t \in Stores /\ store \in [Stores -> StoreState] /\ store' = [store EXCEPT ![t] = n]
    BY KnownModules DEF AnchorHash, SInv, TypeOK
  <1>6. n \in StoreState /\ n.anchor = job[p].policies /\ n.completed = store[t].completed
    BY <1>4, <1>5 DEF StoreState
  <1> HIDE DEF n, t
  <1>7. /\ store' \in [Stores -> StoreState] /\ store'[t] = n
        /\ \A s \in Stores : ~ store'[s].completed
    BY <1>4, <1>5, <1>6
  <1>8. JournalOK' /\ TakenOK'
    BY <1>1, <1>4, <1>7 DEF SInv, JournalOK, TakenOK, InStatus
  <1>9. OnlyJobOf(p)
    BY <1>1 DEF OnlyJobOf, SInv, TypeOK
  <1>10. StageOK(p)'
    <2>1. StageOK(p)
      BY DEF SInv
    <2>2. CutoverStage(p)'
      BY <1>1, <1>2, <1>3, <2>1 DEF StageOK, CutoverStage
    <2>3. SeedStage(p)'
      BY <1>1, <1>2, <1>3, <2>1 DEF StageOK, SeedStage
    <2>4. archive' = job'[p].policies /\ store'[Store(p)].anchor = job'[p].policies
      BY <1>1, <1>6, <1>7, <2>1 DEF StageOK, t
    <2>5. QED
      BY <1>2, <1>3, <2>2, <2>3, <2>4 DEF StageOK, ImportStage
  <1>11. QED
    BY <1>1, <1>2, <1>3, <1>7, <1>8, <1>9, <1>10, WriteKeeps DEF SInv, TypeOK

\* The journal has the hash: from now on the start can be resumed.
LEMMA JournalHashKeeps ==
  ASSUME SInv, NEW p \in Programs, JournalHash(p)
  PROVE  SInv'
  <1> DEFINE d == job[p].policies
  <1>1. /\ pc[p] \in {"hash", "seed_journal"} /\ pc[p] \in Writing
        /\ UNCHANGED <<legacy, archive, store, touches, crashes>>
    BY DEF JournalHash, Writing
  <1>2. StageOK(p)
    BY DEF SInv
  <1>3. /\ \A s \in Stores : ~ store[s].completed
        /\ d \in Policies /\ d # None /\ job[p].done = {}
    BY <1>1, BeforeHash, NoneAssumption
  <1>4. archive = d /\ store[Store(p)].anchor = d
    BY <1>1, <1>2 DEF StageOK
  <1>5. PICK f \in LegacyFiles \cup {None} :
            /\ journal' = NewJournal(p, f, d)
            /\ job[p].payload \in [Registered[p] -> Origins]
            /\ f # None => /\ Usable(p, f) /\ d = BucketC(f)
                           /\ job[p].payload = BucketB(p, f)
    <2>1. CASE pc[p] = "hash"
      <3>1. /\ legacy \in LegacyFiles /\ Usable(p, legacy) /\ d = BucketC(legacy)
            /\ job[p].payload = BucketB(p, legacy)
            /\ job[p].journal = NewJournal(p, legacy, None)
        BY <1>2, <2>1 DEF StageOK, CutoverStage, SInv, TypeOK
      <3>2. journal' = [job[p].journal EXCEPT !.archive = d]
        BY <2>1 DEF JournalHash
      <3>3. journal' = NewJournal(p, legacy, d)
        BY <3>1, <3>2 DEF NewJournal
      <3>4. QED
        BY <3>1, <3>3, BucketBType
    <2>2. CASE pc[p] = "seed_journal"
      <3>1. journal' = NewJournal(p, None, d) /\ job[p].payload = DefaultsOf(p)
        BY <1>2, <2>2 DEF JournalHash, StageOK, SeedStage
      <3>2. QED
        BY <3>1, DefaultsType
    <2>3. QED
      BY <1>1, <2>1, <2>2
  <1> HIDE DEF d
  <1>6. /\ journal' \in Journal /\ journal'.status = "in_progress" /\ journal'.source = f
        /\ journal'.planned = Registered[p] /\ journal'.archive = d /\ journal' # None
    BY <1>3, <1>5, NewJournalType, NoneAssumption
  <1>7. JournalOK' /\ TakenOK'
    BY <1>1, <1>3, <1>4, <1>5, <1>6 DEF JournalOK, TakenOK, InStatus, Usable
  <1>8. CASE Attaches(p, FALSE)
    <2>1. Goto(p, "import") /\ job' = [job EXCEPT ![p].journal = journal']
      BY <1>8 DEF JournalHash
    <2>2. /\ OnlyJobOf(p) /\ job'[p].journal = journal' /\ job'[p].done = {}
          /\ job'[p].payload = job[p].payload
      BY <1>3, <1>6, <2>1, JobJournalStep DEF SInv
    <2>3. "import" \in Steps /\ pc'[p] = "import"
      BY <2>1, GotoStep DEF SInv, Steps
    <2>4. ImportStage(p)'
      BY <1>1, <1>3, <1>4, <1>5, <1>6, <2>2 DEF ImportStage, InStatus
    <2>5. StageOK(p)'
      BY <2>3, <2>4 DEF StageOK, CutoverStage, SeedStage
    <2>6. QED
      BY <1>1, <1>6, <1>7, <2>1, <2>2, <2>3, <2>5, WriteKeeps DEF SInv, TypeOK
  <1>9. CASE ~ Attaches(p, FALSE)
    <2>1. Goto(p, "down") /\ job' = [job EXCEPT ![p] = NoJob]
      BY <1>9 DEF JournalHash, Refuses
    <2>2. OnlyJobOf(p)
      BY <2>1, NoJobType, JobStep DEF SInv
    <2>3. "down" \in Steps /\ pc'[p] = "down"
      BY <2>1, GotoStep DEF SInv, Steps
    <2>4. StageOK(p)'
      BY <2>3 DEF StageOK, CutoverStage, SeedStage, ImportStage
    <2>5. QED
      BY <1>1, <1>6, <1>7, <2>1, <2>2, <2>3, <2>4, WriteKeeps DEF SInv, TypeOK
  <1>10. QED
    BY <1>8, <1>9

\* The next module exists.
LEMMA NextModule ==
  ASSUME NEW S, S \subseteq Nat, S # {}
  PROVE  Min(S) \in S
  <1>1. PICK n \in S : \A m \in S : ~(<<m, n>> \in OpToRel(<, Nat))
    BY NatLessThanWellFounded, WFMin
  <1>2. ASSUME NEW m \in S PROVE n =< m
    <2> SUFFICES ASSUME m < n PROVE FALSE
      OBVIOUS
    <2>1. <<m, n>> \in {ss \in Nat \X Nat : ss[1] < ss[2]}
      OBVIOUS
    <2>2. QED
      BY <1>1, <2>1 DEF OpToRel
  <1>3. QED
    BY <1>2 DEF Min

\* The facts about a start that imports.
LEMMA Importing ==
  ASSUME SInv, NEW p \in Programs, pc[p] \in {"import", "record", "close"}
  PROVE  /\ ImportStage(p) /\ pc[p] \in Writing
         /\ journal \in Journal /\ journal # None /\ journal.archive # None
         /\ journal.status = "in_progress" /\ journal.planned = Registered[p]
         /\ job[p] \in Job /\ job[p].journal = journal /\ job[p].done \subseteq Registered[p]
         /\ job[p].payload \in [Registered[p] -> Origins]
         /\ journal.source # None => \A m \in Registered[p] :
                                        job[p].payload[m] = FromFile(journal.source, m)
  <1>1. ImportStage(p)
    BY DEF SInv, StageOK
  <1>2. journal \in Journal /\ journal # None /\ journal.source \in LegacyFiles \cup {None}
    BY <1>1 DEF ImportStage, InStatus, SInv, TypeOK, Journal
  <1>3. journal.source # None => \A m \in Registered[p] :
                                    job[p].payload[m] = FromFile(journal.source, m)
    BY <1>1, <1>2, BucketBType DEF ImportStage
  <1>4. job[p] \in Job /\ job[p].done \subseteq Registered[p] /\ pc[p] \in Writing
    BY DEF SInv, TypeOK, Writing
  <1>5. QED
    BY <1>1, <1>2, <1>3, <1>4 DEF ImportStage, InStatus

LEMMA ImportModuleKeeps ==
  ASSUME SInv, NEW p \in Programs, ImportModule(p)
  PROVE  SInv'
  <1> DEFINE t == Store(p)
             m == Min(ToImport(p))
             v == job[p].payload[m]
             n == [store[t] EXCEPT !.technical[m] = v]
             j == [job[p] EXCEPT !.done = @ \cup {m}]
             x == IF m \in job[p].already /\ store[t].technical[m] = v THEN "import" ELSE "record"
  <1>1. /\ pc[p] = "import" /\ ToImport(p) # {} /\ Goto(p, x)
        /\ UNCHANGED <<legacy, journal, archive, touches, crashes>>
    BY DEF ImportModule, files
  <1>2. store' = [store EXCEPT ![t].technical[m] = v] /\ job' = [job EXCEPT ![p].done = @ \cup {m}]
    BY DEF ImportModule
  <1>3. /\ ImportStage(p) /\ pc[p] \in Writing
        /\ journal \in Journal /\ journal # None /\ journal.archive # None
        /\ journal.status = "in_progress" /\ journal.planned = Registered[p]
        /\ job[p] \in Job /\ job[p].journal = journal /\ job[p].done \subseteq Registered[p]
        /\ job[p].payload \in [Registered[p] -> Origins]
        /\ journal.source # None => \A k \in Registered[p] :
                                       job[p].payload[k] = FromFile(journal.source, k)
    BY <1>1, Importing
  <1>4. m \in Registered[p] /\ m \in Modules /\ Registered[p] \subseteq Modules /\ t \in Stores
    <2>1. ToImport(p) \subseteq Registered[p] /\ ToImport(p) \subseteq Nat
      BY KnownModules DEF ToImport
    <2>2. QED
      BY <1>1, <2>1, NextModule, KnownModules
  <1> HIDE DEF m
  <1>5. v \in Origins /\ v # IllTyped
    BY <1>3, <1>4 DEF ImportModule, m
  <1>6. store \in [Stores -> StoreState] /\ store' = [store EXCEPT ![t] = n]
    BY <1>2 DEF SInv, TypeOK
  <1>7. /\ n \in StoreState /\ n.anchor = store[t].anchor /\ n.completed = store[t].completed
        /\ n.technical[m] = v
        /\ \A k \in Modules : k # m => n.technical[k] = store[t].technical[k]
    BY <1>4, <1>5, <1>6 DEF StoreState, Technical
  <1>8. /\ j \in Job /\ j.done = job[p].done \cup {m} /\ j.payload = job[p].payload
        /\ j.journal = journal
    BY <1>3, <1>4 DEF Job
  <1>9. OnlyJobOf(p) /\ job'[p] = j
    <2>1. job' = [job EXCEPT ![p] = j]
      BY <1>2
    <2> HIDE DEF j
    <2>2. QED
      BY <1>3, <1>4, <1>8, <2>1, JobStep DEF SInv
  <1>10. x \in Steps /\ pc'[p] = x /\ x \in {"import", "record"}
    <2>1. x \in Steps /\ x \in {"import", "record"}
      BY DEF Steps
    <2> HIDE DEF x
    <2>2. QED
      BY <1>1, <2>1, GotoStep DEF SInv
  <1> HIDE DEF n, t, v, j, x
  <1>11. /\ store' \in [Stores -> StoreState] /\ store'[t] = n
         /\ \A s \in Stores : s # t => store'[s] = store[s]
    BY <1>4, <1>6, <1>7
  <1>12. JournalOK'
    BY <1>1, <1>3 DEF SInv, JournalOK, InStatus
  <1>13. TakenOK'
    <2> SUFFICES ASSUME NEW s \in Stores, store'[s].completed, journal.source # None,
                        NEW k \in Registered[p]
                 PROVE  store'[s].technical[k] = FromFile(journal.source, k)
      BY <1>1, <1>3 DEF TakenOK
    <2>1. store[s].completed
      BY <1>7, <1>11
    <2>2. store[s].technical[k] = FromFile(journal.source, k)
      BY <1>3, <2>1 DEF SInv, TakenOK, InStatus
    <2>3. QED
      BY <1>3, <1>4, <1>7, <1>11, <2>2 DEF v
  <1>14. ImportStage(p)'
    <2>1. ASSUME NEW k \in job'[p].done PROVE store'[t].technical[k] = job'[p].payload[k]
      <3>1. CASE k = m
        BY <1>7, <1>8, <1>9, <1>11, <3>1 DEF v
      <3>2. CASE k \in job[p].done /\ k # m
        <4>1. store[t].technical[k] = job[p].payload[k] /\ k \in Modules
          BY <1>1, <1>3, <1>4, <3>2 DEF ImportStage, t
        <4>2. QED
          BY <1>7, <1>8, <1>9, <1>11, <3>2, <4>1
      <3>3. QED
        BY <1>8, <1>9, <3>1, <3>2
    <2>2. store'[t].anchor = journal.archive
      BY <1>1, <1>3, <1>7, <1>11 DEF ImportStage, t
    <2>3. job'[p].journal = journal /\ job'[p].payload = job[p].payload
      BY <1>8, <1>9
    <2>4. QED
      BY <1>1, <1>3, <2>1, <2>2, <2>3 DEF ImportStage, InStatus, t
  <1>15. StageOK(p)'
    BY <1>10, <1>14 DEF StageOK, CutoverStage, SeedStage
  <1>16. QED
    BY <1>1, <1>3, <1>9, <1>10, <1>11, <1>12, <1>13, <1>15, WriteKeeps DEF SInv, TypeOK

LEMMA ImportRefusedKeeps ==
  ASSUME SInv, NEW p \in Programs, ImportRefused(p)
  PROVE  SInv'
  BY RefusesKeeps DEF ImportRefused, SInv, TypeOK

LEMMA RecordImportKeeps ==
  ASSUME SInv, NEW p \in Programs, RecordImport(p)
  PROVE  SInv'
  <1> DEFINE n == [job[p].journal EXCEPT !.imported = job[p].done]
  <1>1. /\ pc[p] = "record" /\ Goto(p, "import") /\ journal' = n
        /\ job' = [job EXCEPT ![p].journal = n]
        /\ UNCHANGED <<legacy, archive, store, touches, crashes>>
    BY DEF RecordImport
  <1>2. /\ ImportStage(p) /\ pc[p] \in Writing
        /\ journal \in Journal /\ journal # None /\ journal.archive # None
        /\ journal.status = "in_progress" /\ journal.planned = Registered[p]
        /\ job[p].journal = journal /\ job[p].done \subseteq Registered[p]
    BY <1>1, Importing
  <1>3. /\ n \in Journal /\ n.status = journal.status /\ n.source = journal.source
        /\ n.planned = journal.planned /\ n.archive = journal.archive
    BY <1>2, KnownModules DEF Journal
  <1>4. n # None
    BY <1>3, NoneAssumption
  <1> HIDE DEF n
  <1>5. /\ OnlyJobOf(p) /\ job'[p].journal = n
        /\ job'[p].payload = job[p].payload /\ job'[p].done = job[p].done
    BY <1>1, <1>3, JobJournalStep DEF SInv
  <1>6. "import" \in Steps /\ pc'[p] = "import"
    BY <1>1, GotoStep DEF SInv, Steps
  <1>7. JournalOK'
    BY <1>1, <1>2, <1>3, <1>4 DEF SInv, JournalOK, InStatus
  <1>8. TakenOK'
    BY <1>1, <1>2, <1>3, <1>4 DEF SInv, TakenOK, InStatus
  <1>9. ImportStage(p)'
    BY <1>1, <1>2, <1>3, <1>4, <1>5 DEF ImportStage, InStatus
  <1>10. StageOK(p)'
    BY <1>6, <1>9 DEF StageOK, CutoverStage, SeedStage
  <1>11. QED
    BY <1>1, <1>2, <1>3, <1>5, <1>6, <1>7, <1>8, <1>10, WriteKeeps DEF SInv, TypeOK

\* Every module is handled, so the store has what the file or the defaults said.
LEMMA MarkCompletedKeeps ==
  ASSUME SInv, NEW p \in Programs, MarkCompleted(p)
  PROVE  SInv'
  <1> DEFINE t == Store(p)
             n == [store[t] EXCEPT !.completed = TRUE]
  <1>1. /\ pc[p] = "import" /\ ToImport(p) = {} /\ Goto(p, "close")
        /\ UNCHANGED <<legacy, journal, archive, job, touches, crashes>>
    BY DEF MarkCompleted, files
  <1>2. /\ ImportStage(p) /\ pc[p] \in Writing
        /\ journal \in Journal /\ journal # None /\ journal.archive # None
        /\ journal.status = "in_progress" /\ journal.planned = Registered[p]
        /\ job[p].done \subseteq Registered[p]
        /\ journal.source # None => \A k \in Registered[p] :
                                       job[p].payload[k] = FromFile(journal.source, k)
    BY <1>1, Importing
  <1>3. job[p].done = Registered[p]
    BY <1>1, <1>2 DEF ToImport
  <1>4. t \in Stores /\ store \in [Stores -> StoreState] /\ store' = [store EXCEPT ![t] = n]
    BY KnownModules DEF MarkCompleted, SInv, TypeOK
  <1>5. /\ n \in StoreState /\ n.completed /\ n.technical = store[t].technical
        /\ n.anchor = store[t].anchor
    BY <1>4 DEF StoreState
  <1> HIDE DEF n, t
  <1>6. /\ store' \in [Stores -> StoreState] /\ store'[t] = n
        /\ \A s \in Stores : s # t => store'[s] = store[s]
    BY <1>4, <1>5
  <1>7. "close" \in Steps /\ pc'[p] = "close"
    BY <1>1, GotoStep DEF SInv, Steps
  <1>8. JournalOK'
    BY <1>1, <1>2 DEF SInv, JournalOK, InStatus
  <1>9. TakenOK'
    <2> SUFFICES ASSUME NEW s \in Stores, store'[s].completed, journal.source # None,
                        NEW k \in Registered[p]
                 PROVE  store'[s].technical[k] = FromFile(journal.source, k)
      BY <1>1, <1>2 DEF TakenOK
    <2>1. CASE s = t
      BY <1>1, <1>2, <1>3, <1>5, <1>6, <2>1 DEF ImportStage, t
    <2>2. CASE s # t
      BY <1>2, <1>6, <2>2 DEF SInv, TakenOK, InStatus
    <2>3. QED
      BY <2>1, <2>2
  <1>10. ImportStage(p)'
    BY <1>1, <1>2, <1>5, <1>6 DEF ImportStage, InStatus, t
  <1>11. StageOK(p)'
    BY <1>1, <1>3, <1>5, <1>6, <1>7, <1>10 DEF StageOK, CutoverStage, SeedStage, t
  <1>12. OnlyJobOf(p)
    BY <1>1 DEF OnlyJobOf, SInv, TypeOK
  <1>13. QED
    BY <1>1, <1>2, <1>6, <1>7, <1>8, <1>9, <1>11, <1>12, WriteKeeps DEF SInv, TypeOK

LEMMA CloseJournalKeeps ==
  ASSUME SInv, NEW p \in Programs, CloseJournal(p)
  PROVE  SInv'
  <1> DEFINE n == [job[p].journal EXCEPT !.status = "completed", !.imported = job[p].done]
  <1>1. /\ pc[p] = "close" /\ journal' = n /\ ServesOrRefuses(p)
        /\ UNCHANGED <<legacy, archive, store, touches, crashes>>
    BY DEF CloseJournal
  <1>2. /\ ImportStage(p) /\ pc[p] \in Writing
        /\ journal \in Journal /\ journal # None /\ journal.archive # None
        /\ job[p].journal = journal /\ job[p].done \subseteq Registered[p]
    BY <1>1, Importing
  <1>3. /\ n \in Journal /\ n.status = "completed" /\ n.source = journal.source
        /\ n.planned = journal.planned /\ n.archive = journal.archive
    BY <1>2, KnownModules DEF Journal
  <1>4. n # None
    BY <1>3, NoneAssumption
  <1> HIDE DEF n
  <1>5. JournalOK'
    BY <1>1, <1>2, <1>3, <1>4 DEF SInv, JournalOK, InStatus
  <1>6. TakenOK'
    BY <1>1, <1>2, <1>3, <1>4 DEF SInv, TakenOK, InStatus
  <1>7. archive # None /\ store[Store(p)].completed
    BY <1>1, <1>2 DEF SInv, JournalOK, StageOK
  <1>8. job' = [job EXCEPT ![p] = NoJob]
    BY <1>1 DEF ServesOrRefuses, Refuses
  <1>9. OnlyJobOf(p)
    BY <1>8, NoJobType, JobStep DEF SInv
  <1>10. PICK x \in {"harden", "up", "down"} :
             Goto(p, x) /\ (x # "down" => Attaches(p, TRUE))
    BY <1>1 DEF ServesOrRefuses, Refuses
  <1>11. x \in Steps /\ pc'[p] = x
    BY <1>10, GotoStep DEF SInv, Steps
  <1>12. x # "down" => Serves(p)'
    BY <1>1, <1>3, <1>4, <1>7, <1>10 DEF Serves, Attaches, InStatus
  <1>13. StageOK(p)'
    BY <1>10, <1>11, <1>12 DEF StageOK, CutoverStage, SeedStage, ImportStage
  <1>14. QED
    BY <1>1, <1>2, <1>3, <1>5, <1>6, <1>9, <1>10, <1>11, <1>13, WriteKeeps DEF SInv, TypeOK

-----------------------------------------------------------------------------
(* The invariant *)

LEMMA SettingsStart ==
  ASSUME Init
  PROVE  SInv
  <1>1. EmptyStore \in StoreState /\ ~ EmptyStore.completed
    BY DEF EmptyStore, StoreState, Technical
  <1>2. NoJob \in Job /\ NoJob.done = {}
    BY NoJobType
  <1>3. \A s \in Stores : store[s] = EmptyStore
    BY DEF Init
  <1>4. \A p \in Programs : pc[p] = "down" /\ job[p] = NoJob
    BY DEF Init
  <1>5. TypeOK
    <2>1. store \in [Stores -> StoreState]
      BY <1>1 DEF Init
    <2>2. pc \in [Programs -> Steps]
      BY DEF Init, Steps
    <2>3. job \in [Programs -> Job] /\ \A p \in Programs : job[p].done \subseteq Registered[p]
      BY <1>2, <1>4 DEF Init
    <2>4. touches \in 0 .. MaxTouches /\ crashes \in 0 .. MaxCrashes
      BY CutoverConstants DEF Init
    <2>5. QED
      BY <2>1, <2>2, <2>3, <2>4 DEF Init, TypeOK
  <1>6. OneStart
    BY <1>4 DEF OneStart, Starting
  <1>7. JournalOK /\ TakenOK
    BY <1>1, <1>3 DEF Init, JournalOK, TakenOK, InStatus
  <1>8. \A p \in Programs : StageOK(p)
    BY <1>4 DEF StageOK, CutoverStage, SeedStage, ImportStage
  <1>9. QED
    BY <1>5, <1>6, <1>7, <1>8 DEF SInv

LEMMA StepKeeps ==
  ASSUME SInv, NEW p \in Programs, Step(p)
  PROVE  SInv'
  BY EnsureKeeps, BeginCutoverKeeps, BeginJournalKeeps, WriteArchiveKeeps, AnchorHashKeeps,
     JournalHashKeeps, ImportModuleKeeps, ImportRefusedKeeps, RecordImportKeeps, MarkCompletedKeeps,
     CloseJournalKeeps, ChangeKeeps DEF Step

LEMMA NextKeeps ==
  ASSUME SInv, [Next]_vars
  PROVE  SInv'
  <1>1. CASE Next
    BY <1>1, StartKeeps, StepKeeps, ChangeKeeps, StopKeeps, TouchKeeps, SnapshotKeeps DEF Next
  <1>2. CASE UNCHANGED vars
    <2>1. UNCHANGED <<legacy, journal, archive, store, pc, job, touches, crashes>>
      BY <1>2 DEF vars, files
    <2>2. TypeOK' /\ OneStart' /\ JournalOK' /\ TakenOK'
      BY <2>1 DEF SInv, TypeOK, OneStart, JournalOK, TakenOK, InStatus
    <2>3. ASSUME NEW p \in Programs PROVE StageOK(p)'
      <3>1. StageOK(p)
        BY DEF SInv
      <3>2. CutoverStage(p)' /\ SeedStage(p)'
        BY <2>1, <3>1 DEF StageOK, CutoverStage, SeedStage
      <3>3. ImportStage(p)'
        BY <2>1, <3>1 DEF StageOK, ImportStage, InStatus
      <3>4. pc[p] \in {"harden", "up"} => Serves(p)'
        BY <2>1, <3>1 DEF StageOK, Serves, InStatus
      <3>5. QED
        BY <2>1, <3>1, <3>2, <3>3, <3>4 DEF StageOK
    <2>4. QED
      BY <2>2, <2>3 DEF SInv
  <1>3. QED
    BY <1>1, <1>2

\* Whatever files there are and however often starts are killed, journal,
\* archive, anchor and store agree at every step of a start, and so does what the
\* start holds in memory.  (ensure_settings_residual_ready, run_settings_json_cutover)
THEOREM SettingsInvariance == Spec => []SInv
  <1>1. Init => SInv
    BY SettingsStart
  <1>2. SInv /\ [Next]_vars => SInv'
    BY NextKeeps
  <1>3. QED
    BY <1>1, <1>2, PTL DEF Spec

\* Every file, the store and a start's memory hold values of their kind.
THEOREM SettingsTypeCorrect == Spec => []TypeOK
  <1>1. SInv => TypeOK
    BY DEF SInv
  <1>2. QED
    BY <1>1, SettingsInvariance, PTL

\* As long as a program is up, whatever the other programs of the home do, its
\* store is completed and whole, and the archive is the anchored one and has
\* every policy it needs.  (attach_persistence)
THEOREM ServedSettingsAreWhole == Spec => []ServesWholeSettings
  <1>1. SInv => ServesWholeSettings
    BY DEF SInv, StageOK, Serves, ServesWholeSettings
  <1>2. QED
    BY <1>1, SettingsInvariance, PTL

\* A completed store and the archive come from one state of settings.json, the
\* one the journal names, wherever the cutover was interrupted and however often
\* the file changed.  (run_settings_json_cutover, source_sha256)
THEOREM TakenOverFromOneFile == Spec => []TakenFromOneFile
  <1>1. SInv => TakenFromOneFile
    <2> SUFFICES ASSUME SInv, NEW s \in Stores, store[s].completed, journal.source # None
                 PROVE  /\ archive = BucketC(journal.source)
                        /\ \A m \in journal.planned :
                              \/ store[s].technical[m] = FromFile(journal.source, m)
                              \/ store[s].technical[m] = "changed"
      BY DEF TakenFromOneFile, FromFile
    <2>1. journal # None /\ journal.archive # None
      BY DEF SInv, JournalOK
    <2>2. QED
      BY <2>1 DEF SInv, JournalOK, TakenOK
  <1>2. QED
    BY <1>1, SettingsInvariance, PTL

-----------------------------------------------------------------------------
(* What a completed store keeps *)

\* Store s and the archive keep what a cutover settled.
Keeps(s) ==
    /\ archive' = archive
    /\ store'[s].completed
    /\ store'[s].anchor = store[s].anchor
    /\ \A m \in Modules :
          store'[s].technical[m] = store[s].technical[m] \/ store'[s].technical[m] = "changed"

\* A resumed import finds in a completed store what it is about to write.
LEMMA ImportRepeats ==
  ASSUME SInv, NEW p \in Programs, ImportModule(p), NEW s \in Stores, store[s].completed, ~ SeedOpen
  PROVE  Keeps(s)
  <1> DEFINE t == Store(p)
             m == Min(ToImport(p))
             v == job[p].payload[m]
             n == [store[t] EXCEPT !.technical[m] = v]
  <1>1. /\ pc[p] = "import" /\ ToImport(p) # {} /\ archive' = archive
        /\ store' = [store EXCEPT ![t].technical[m] = v]
    BY DEF ImportModule, files
  <1>2. /\ journal # None /\ journal.status = "in_progress" /\ journal.planned = Registered[p]
        /\ journal.source # None => \A k \in Registered[p] :
                                       job[p].payload[k] = FromFile(journal.source, k)
    BY <1>1, Importing
  <1>3. journal.source # None
    BY <1>2 DEF SeedOpen, InStatus
  <1>4. m \in Registered[p] /\ m \in Modules /\ t \in Stores
    <2>1. ToImport(p) \subseteq Registered[p] /\ ToImport(p) \subseteq Nat
      BY KnownModules DEF ToImport
    <2>2. QED
      BY <1>1, <2>1, NextModule, KnownModules
  <1> HIDE DEF m
  <1>5. store[s].technical[m] = FromFile(journal.source, m)
    BY <1>2, <1>3, <1>4 DEF SInv, TakenOK, InStatus
  <1>6. v = FromFile(journal.source, m)
    BY <1>2, <1>3, <1>4
  <1>7. store \in [Stores -> StoreState] /\ store' = [store EXCEPT ![t] = n]
    BY <1>1 DEF SInv, TypeOK
  <1>8. /\ n.anchor = store[t].anchor /\ n.completed = store[t].completed
        /\ n.technical[m] = v
        /\ \A k \in Modules : k # m => n.technical[k] = store[t].technical[k]
    BY <1>4, <1>7 DEF StoreState
  <1> HIDE DEF n, t, v
  <1>9. store'[t] = n /\ (s # t => store'[s] = store[s])
    BY <1>4, <1>7
  <1>10. QED
    BY <1>1, <1>5, <1>6, <1>8, <1>9 DEF Keeps

LEMMA ChangeIsVisible ==
  ASSUME SInv, NEW p \in Programs, NEW m \in Registered[p], SetModuleSettings(p, m),
         NEW s \in Stores, store[s].completed
  PROVE  Keeps(s)
  <1> DEFINE t == Store(p)
             n == [store[t] EXCEPT !.technical[m] = "changed"]
  <1>1. t \in Stores /\ m \in Modules /\ store \in [Stores -> StoreState]
    BY KnownModules DEF SInv, TypeOK
  <1>2. store' = [store EXCEPT ![t] = n] /\ archive' = archive
    BY <1>1 DEF SetModuleSettings, files
  <1>3. /\ n.anchor = store[t].anchor /\ n.completed = store[t].completed
        /\ n.technical[m] = "changed"
        /\ \A k \in Modules : k # m => n.technical[k] = store[t].technical[k]
    BY <1>1 DEF StoreState
  <1> HIDE DEF n, t
  <1>4. store'[t] = n /\ (s # t => store'[s] = store[s])
    BY <1>1, <1>2
  <1>5. QED
    BY <1>2, <1>3, <1>4 DEF Keeps

LEMMA FinalStep ==
  ASSUME SInv, Next, NEW s \in Stores, store[s].completed, ~ SeedOpen
  PROVE  Keeps(s)
  <1>1. CASE UNCHANGED <<archive, store>>
    BY <1>1 DEF Keeps
  <1>2. ASSUME NEW p \in Programs, WriteArchive(p) \/ AnchorHash(p) PROVE FALSE
    BY <1>2, BeforeHash DEF WriteArchive, AnchorHash
  <1>3. ASSUME NEW p \in Programs, ImportModule(p) PROVE Keeps(s)
    BY <1>3, ImportRepeats
  <1>4. ASSUME NEW p \in Programs, MarkCompleted(p) PROVE Keeps(s)
    <2> DEFINE t == Store(p)
               n == [store[t] EXCEPT !.completed = TRUE]
    <2>1. /\ t \in Stores /\ store \in [Stores -> StoreState]
          /\ store' = [store EXCEPT ![t] = n] /\ archive' = archive
      BY <1>4, KnownModules DEF MarkCompleted, SInv, TypeOK, files
    <2>2. n.completed /\ n.technical = store[t].technical /\ n.anchor = store[t].anchor
      BY <2>1 DEF StoreState
    <2> HIDE DEF n, t
    <2>3. store'[t] = n /\ (s # t => store'[s] = store[s])
      BY <2>1
    <2>4. QED
      BY <2>1, <2>2, <2>3 DEF Keeps
  <1>5. ASSUME NEW p \in Programs, ForceHardened(p) \/ ChangeSettings(p) PROVE Keeps(s)
    <2>1. PICK m \in Registered[p] : SetModuleSettings(p, m)
      BY <1>5, KnownModules DEF ForceHardened, ChangeSettings
    <2>2. QED
      BY <2>1, ChangeIsVisible
  <1>6. ASSUME NEW p \in Programs,
               \/ Start(p) \/ EnsureResidualReady(p) \/ BeginCutover(p) \/ BeginJournal(p)
               \/ JournalHash(p) \/ ImportRefused(p) \/ RecordImport(p) \/ CloseJournal(p)
               \/ Stop(p) \/ Crash(p)
        PROVE  UNCHANGED <<archive, store>>
    BY <1>6 DEF Start, EnsureResidualReady, BeginCutover, BeginJournal, JournalHash,
                ImportRefused, RecordImport, CloseJournal, Stop, Crash, files
  <1>7. CASE TouchLegacy
    BY <1>1, <1>7 DEF TouchLegacy
  <1>8. CASE ImportSnapshot
    <2>1. /\ s = "sqlite" /\ store \in [Stores -> StoreState] /\ archive' = archive
          /\ store' = [store EXCEPT !["postgres"] = store["sqlite"]]
      BY <1>8 DEF ImportSnapshot, EmptyStore, Stores, SInv, TypeOK, files
    <2>2. store'[s] = store[s]
      BY <2>1
    <2>3. QED
      BY <2>1, <2>2 DEF Keeps
  <1>9. QED
    BY <1>1, <1>2, <1>3, <1>4, <1>5, <1>6, <1>7, <1>8 DEF Next, Step

\* A completed store and the archive are never overwritten: not by a start that
\* resumes, seeds or imports, nor by a snapshot of the SQLite store.  Only the
\* seed left open by a kill is excepted.  (INTEGRITY_CUTOVER_STATUS)
THEOREM CompletedStaysFinal == Spec => CompletionIsFinal
  <1> DEFINE Final == \A s \in Stores :
           (store[s].completed /\ ~ SeedOpen) =>
               /\ archive' = archive
               /\ store'[s].completed
               /\ store'[s].anchor = store[s].anchor
               /\ \A m \in Modules :
                     \/ store'[s].technical[m] = store[s].technical[m]
                     \/ store'[s].technical[m] = "changed"
  <1>1. SInv /\ [Next]_vars => [Final]_vars
    BY FinalStep DEF Keeps
  <1>2. QED
    BY <1>1, SettingsInvariance, PTL DEF Spec, CompletionIsFinal

-----------------------------------------------------------------------------
(* Interrupted cutovers *)

\* The next start of p can resume an interrupted cutover of p, and its import will
\* refuse no module, when the values of the file fit their schemas.
InterruptedIsResumable ==
    \A p \in Programs :
        (Interrupted(p) /\ WellTyped(p, journal.source)) =>
            /\ Resumable(p)
            /\ \A m \in Registered[p] : BucketB(p, legacy)[m] # IllTyped

\* It never becomes unresumable: the cutover stays interrupted until the journal
\* is closed or settings.json changes.
StaysInterrupted ==
    [][\A p \in Programs :
           Interrupted(p) => Interrupted(p)' \/ InStatus("completed")' \/ legacy' # legacy]_vars

\* Wherever a cutover was killed once its hash was journaled, a resumption passes
\* all its checks of file, plan, archive, anchor and policy types, and finds no
\* settings to refuse, as long as settings.json is the journaled one and its
\* values fit their schemas.  (the resume branch of run_settings_json_cutover)
THEOREM InterruptedCutoversResume == Spec => []InterruptedIsResumable
  <1>1. SInv => InterruptedIsResumable
    <2> SUFFICES ASSUME SInv, NEW p \in Programs, Interrupted(p), WellTyped(p, journal.source)
                 PROVE  /\ Resumable(p)
                        /\ \A m \in Registered[p] : BucketB(p, legacy)[m] # IllTyped
      BY DEF InterruptedIsResumable
    <2>1. /\ InStatus("in_progress") /\ journal # None /\ journal.archive # None
          /\ journal.source # None /\ journal.source = legacy
          /\ journal.planned = Registered[p] /\ store[Store(p)].anchor = journal.archive
      BY DEF Interrupted, InStatus
    <2>2. legacy \in LegacyFiles
      BY <2>1 DEF SInv, TypeOK
    <2>3. Usable(p, legacy)
      BY <2>1 DEF SInv, JournalOK, Usable
    <2>4. /\ archive = journal.archive /\ DOMAIN archive = legacy.policies
          /\ \A m \in legacy.policies \ legacy.illPolicies : archive[m] # IllTyped
      BY <2>1, <2>2, BucketCType DEF SInv, JournalOK
    <2>5. Attaches(p, FALSE)
      BY <2>1, <2>3, <2>4 DEF Attaches, Usable, WellTyped
    <2>6. \A m \in Registered[p] : BucketB(p, legacy)[m] # IllTyped
      BY <2>1, <2>2, CutoverConstants DEF BucketB, FromFile, WellTyped, IllTyped
    <2>7. QED
      BY <2>1, <2>3, <2>4, <2>5, <2>6 DEF Resumable
  <1>2. QED
    BY <1>1, SettingsInvariance, PTL

LEMMA StaysStep ==
  ASSUME SInv, [Next]_vars, NEW p \in Programs, Interrupted(p)
  PROVE  Interrupted(p)' \/ InStatus("completed")' \/ legacy' # legacy
  <1>1. /\ journal # None /\ journal.status = "in_progress" /\ journal.archive # None
        /\ Store(p) \in Stores /\ store \in [Stores -> StoreState]
    BY KnownModules DEF Interrupted, InStatus, SInv, TypeOK
  <1>2. CASE UNCHANGED <<legacy, journal>> /\ store'[Store(p)].anchor = store[Store(p)].anchor
    BY <1>2 DEF Interrupted, InStatus
  <1>3. ASSUME NEW q \in Programs, BeginJournal(q) \/ AnchorHash(q) \/ JournalHash(q)
        PROVE  FALSE
    BY <1>1, <1>3, BeforeHash DEF BeginJournal, AnchorHash, JournalHash
  <1>4. ASSUME NEW q \in Programs, ImportModule(q) \/ MarkCompleted(q) PROVE Interrupted(p)'
    <2>1. UNCHANGED <<legacy, journal>>
      BY <1>4 DEF ImportModule, MarkCompleted, files
    <2>2. store'[Store(p)].anchor = store[Store(p)].anchor
      BY <1>1, <1>4 DEF ImportModule, MarkCompleted, StoreState
    <2>3. QED
      BY <1>2, <2>1, <2>2 DEF Interrupted, InStatus
  <1>5. ASSUME NEW q \in Programs, ForceHardened(q) \/ ChangeSettings(q) PROVE Interrupted(p)'
    <2>1. PICK m \in Registered[q] : SetModuleSettings(q, m)
      BY <1>5, KnownModules DEF ForceHardened, ChangeSettings
    <2>2. UNCHANGED <<legacy, journal>>
      BY <2>1 DEF SetModuleSettings, files
    <2>3. store'[Store(p)].anchor = store[Store(p)].anchor
      BY <1>1, <2>1 DEF SetModuleSettings, StoreState
    <2>4. QED
      BY <2>2, <2>3 DEF Interrupted, InStatus
  <1>6. ASSUME NEW q \in Programs, RecordImport(q) PROVE Interrupted(p)'
    <2>1. journal \in Journal /\ job[q].journal = journal /\ job[q].done \subseteq Modules
      BY <1>6, Importing, KnownModules DEF RecordImport
    <2> DEFINE n == [journal EXCEPT !.imported = job[q].done]
    <2>2. journal' = n /\ UNCHANGED <<legacy, store>>
      BY <1>6, <2>1 DEF RecordImport
    <2>3. /\ n \in Journal /\ n.status = journal.status /\ n.source = journal.source
          /\ n.planned = journal.planned /\ n.archive = journal.archive
      BY <2>1 DEF Journal
    <2> HIDE DEF n
    <2>4. n # None
      BY <2>3, NoneAssumption
    <2>5. QED
      BY <2>2, <2>3, <2>4 DEF Interrupted, InStatus
  <1>7. ASSUME NEW q \in Programs, CloseJournal(q) PROVE InStatus("completed")'
    <2>1. journal \in Journal /\ job[q].journal = journal /\ job[q].done \subseteq Modules
      BY <1>7, Importing, KnownModules DEF CloseJournal
    <2> DEFINE n == [journal EXCEPT !.status = "completed", !.imported = job[q].done]
    <2>2. journal' = n
      BY <1>7, <2>1 DEF CloseJournal
    <2>3. n \in Journal /\ n.status = "completed"
      BY <2>1 DEF Journal
    <2> HIDE DEF n
    <2>4. QED
      BY <2>2, <2>3, NoneAssumption DEF InStatus
  <1>8. ASSUME NEW q \in Programs,
               \/ Start(q) \/ EnsureResidualReady(q) \/ BeginCutover(q) \/ WriteArchive(q)
               \/ ImportRefused(q) \/ Stop(q) \/ Crash(q)
        PROVE  UNCHANGED <<legacy, journal, store>>
    BY <1>8 DEF Start, EnsureResidualReady, BeginCutover, WriteArchive, ImportRefused, Stop,
                Crash, files
  <1>9. CASE TouchLegacy
    BY <1>9 DEF TouchLegacy
  <1>10. CASE ImportSnapshot
    <2>1. UNCHANGED <<legacy, journal>> /\ Store(p) # "postgres"
      BY <1>1, <1>10 DEF ImportSnapshot, EmptyStore, Interrupted, files
    <2>2. store'[Store(p)] = store[Store(p)]
      BY <1>1, <1>10, <2>1 DEF ImportSnapshot
    <2>3. QED
      BY <1>2, <2>1, <2>2
  <1>11. CASE UNCHANGED vars
    BY <1>2, <1>11 DEF vars, files
  <1>12. QED
    BY <1>2, <1>3, <1>4, <1>5, <1>6, <1>7, <1>8, <1>9, <1>10, <1>11 DEF Next, Step

\* A cutover that can be resumed stays resumable through kills, other programs'
\* starts and snapshots, until its journal is closed or settings.json changes.
\* (fail_after_hash_anchor, fail_after_module, fail_before_journal_update)
THEOREM InterruptedCutoversPersist == Spec => StaysInterrupted
  <1> DEFINE Persists == \A p \in Programs :
           Interrupted(p) => Interrupted(p)' \/ InStatus("completed")' \/ legacy' # legacy
  <1>1. SInv /\ [Next]_vars => [Persists]_vars
    BY StaysStep
  <1>2. QED
    BY <1>1, SettingsInvariance, PTL DEF Spec, StaysInterrupted

-----------------------------------------------------------------------------
(* How starts come to an end *)

\* The order of the steps of a start.
Height(s) ==
    CASE s = "ensure" -> 0
      [] s = "cutover" -> 1
      [] s \in {"journal", "seed"} -> 2
      [] s \in {"archive", "seed_anchor"} -> 3
      [] s \in {"anchor", "seed_journal"} -> 4
      [] s = "hash" -> 5
      [] s \in {"import", "record"} -> 6
      [] s = "close" -> 7
      [] s = "harden" -> 8
      [] s \in {"up", "down"} -> 9

\* The start of p goes on to a later step, handles one more module, journals it,
\* or does nothing and is left alone.
Advances(p) ==
    \/ Height(pc'[p]) > Height(pc[p])
    \/ /\ pc[p] = "import" /\ pc'[p] \in {"import", "record"}
       /\ \E m \in ToImport(p) : job'[p].done = job[p].done \cup {m}
    \/ pc[p] = "record" /\ pc'[p] = "import" /\ job'[p].done = job[p].done
    \/ pc'[p] = pc[p] /\ job'[p] = job[p] /\ ~ Step(p)

StartAdvances == [][\A p \in Programs : pc[p] \in Starting => Advances(p)]_vars

LEMMA HeightFacts ==
    /\ Height("ensure") = 0 /\ Height("cutover") = 1
    /\ Height("journal") = 2 /\ Height("seed") = 2
    /\ Height("archive") = 3 /\ Height("seed_anchor") = 3
    /\ Height("anchor") = 4 /\ Height("seed_journal") = 4 /\ Height("hash") = 5
    /\ Height("import") = 6 /\ Height("record") = 6 /\ Height("close") = 7
    /\ Height("harden") = 8 /\ Height("up") = 9 /\ Height("down") = 9
  BY DEF Height

LEMMA GoesTo ==
  ASSUME TypeOK, NEW p \in Programs, NEW x, Goto(p, x)
  PROVE  pc'[p] = x
  BY DEF TypeOK, Goto

LEMMA OwnStepAdvances ==
  ASSUME SInv, NEW p \in Programs, pc[p] \in Starting, Step(p)
  PROVE  Advances(p)
  <1> USE HeightFacts
  <1>1. TypeOK /\ {"down", "cutover", "seed", "import", "journal", "archive", "anchor", "hash",
                   "seed_anchor", "seed_journal", "close", "harden", "up"} \subseteq Steps
    BY DEF SInv, Steps
  <1>2. CASE Goto(p, "down") /\ pc[p] \in {"ensure", "cutover", "close"}
    BY <1>1, <1>2, GoesTo DEF Advances
  <1>3. CASE (Goto(p, "harden") \/ Goto(p, "up")) /\ pc[p] \in {"ensure", "cutover", "close"}
    BY <1>1, <1>3, GoesTo DEF Advances
  <1>4. CASE EnsureResidualReady(p)
    <2>1. CASE Goto(p, "cutover") \/ Goto(p, "seed")
      BY <1>1, <1>4, <2>1, GoesTo DEF EnsureResidualReady, Advances
    <2>2. QED
      BY <1>2, <1>3, <1>4, <2>1 DEF EnsureResidualReady, ServesOrRefuses, Refuses
  <1>5. CASE BeginCutover(p)
    <2>1. CASE Goto(p, "import") \/ Goto(p, "journal")
      BY <1>1, <1>5, <2>1, GoesTo DEF BeginCutover, Advances
    <2>2. QED
      BY <1>2, <1>3, <1>5, <2>1 DEF BeginCutover, ServesOrRefuses, Refuses
  <1>6. CASE BeginJournal(p) \/ WriteArchive(p) \/ AnchorHash(p) \/ JournalHash(p)
    <2>1. \/ pc[p] = "journal" /\ Goto(p, "archive")
          \/ pc[p] = "archive" /\ Goto(p, "anchor")
          \/ pc[p] = "seed" /\ Goto(p, "seed_anchor")
          \/ pc[p] = "anchor" /\ Goto(p, "hash")
          \/ pc[p] = "seed_anchor" /\ Goto(p, "seed_journal")
          \/ pc[p] \in {"hash", "seed_journal"} /\ (Goto(p, "import") \/ Goto(p, "down"))
      BY <1>6 DEF BeginJournal, WriteArchive, AnchorHash, JournalHash, Refuses
    <2>2. QED
      BY <1>1, <2>1, GoesTo DEF Advances
  <1>7. CASE ImportModule(p)
    <2> DEFINE m == Min(ToImport(p))
    <2>1. pc[p] = "import" /\ ToImport(p) # {} /\ job' = [job EXCEPT ![p].done = @ \cup {m}]
      BY <1>7 DEF ImportModule
    <2>2. PICK x \in {"import", "record"} : Goto(p, x)
      BY <1>7 DEF ImportModule
    <2>3. m \in ToImport(p)
      BY <2>1, NextModule, KnownModules DEF ToImport
    <2> HIDE DEF m
    <2>4. job'[p].done = job[p].done \cup {m}
      BY <1>1, <2>1 DEF TypeOK, Job
    <2>5. pc'[p] = x
      BY <1>1, <2>2, GoesTo DEF Steps
    <2>6. QED
      BY <2>1, <2>2, <2>3, <2>4, <2>5 DEF Advances
  <1>8. CASE ImportRefused(p)
    <2>1. pc[p] = "import" /\ Goto(p, "down")
      BY <1>8 DEF ImportRefused, Refuses
    <2>2. QED
      BY <1>1, <2>1, GoesTo DEF Advances
  <1>9. CASE RecordImport(p)
    <2>1. pc[p] = "record" /\ Goto(p, "import") /\ job' = [job EXCEPT ![p].journal = journal']
      BY <1>9 DEF RecordImport
    <2>2. job'[p].done = job[p].done
      BY <1>1, <2>1 DEF TypeOK, Job
    <2>3. QED
      BY <1>1, <2>1, <2>2, GoesTo DEF Advances
  <1>10. CASE MarkCompleted(p)
    <2>1. pc[p] = "import" /\ Goto(p, "close")
      BY <1>10 DEF MarkCompleted
    <2>2. QED
      BY <1>1, <2>1, GoesTo DEF Advances
  <1>11. CASE CloseJournal(p)
    BY <1>2, <1>3, <1>11 DEF CloseJournal, ServesOrRefuses, Refuses
  <1>12. CASE ForceHardened(p)
    <2>1. pc[p] = "harden" /\ Goto(p, "up")
      BY <1>12 DEF ForceHardened
    <2>2. QED
      BY <1>1, <2>1, GoesTo DEF Advances
  <1>13. QED
    BY <1>4, <1>5, <1>6, <1>7, <1>8, <1>9, <1>10, <1>11, <1>12 DEF Step

\* While p starts, another program that steps touches neither its place nor its memory.
LEMMA LeftAlone ==
  ASSUME SInv, NEW p \in Programs, pc[p] \in Starting, NEW q \in Programs, q # p,
         Start(q) \/ Step(q) \/ ChangeSettings(q) \/ Stop(q) \/ Crash(q)
  PROVE  pc'[p] = pc[p] /\ job'[p] = job[p]
  <1>1. pc[q] \notin Starting
    BY DEF SInv, OneStart
  <1>2. CASE Start(q)
    BY <1>2 DEF Start, Quiet
  <1>3. CASE Step(q)
    BY <1>1, <1>3 DEF Step, EnsureResidualReady, BeginCutover, BeginJournal, WriteArchive,
       AnchorHash, JournalHash, ImportModule, ImportRefused, RecordImport, MarkCompleted,
       CloseJournal, ForceHardened, Starting, Steps
  <1>4. CASE ChangeSettings(q)
    BY <1>4 DEF ChangeSettings, SetModuleSettings
  <1>5. CASE Stop(q) \/ Crash(q)
    <2>1. Goto(q, "down") /\ job' = [job EXCEPT ![q] = NoJob]
      BY <1>5 DEF Stop, Crash, Refuses
    <2>2. QED
      BY <2>1 DEF Goto, SInv, TypeOK
  <1>6. QED
    BY <1>2, <1>3, <1>4, <1>5

\* A start goes through its steps in one direction and handles a module once, and
\* no other program sets it back: it has finitely many steps, whether it cuts
\* over, resumes or seeds.  With starts that go on and are repeated this is why
\* an interrupted cutover is completed.
\* (ensure_settings_residual_ready, _import_bucket_b_modules)
THEOREM StartsAdvance == Spec => StartAdvances
  <1>1. SInv /\ [Next]_vars => [\A p \in Programs : pc[p] \in Starting => Advances(p)]_vars
    <2> SUFFICES ASSUME SInv, Next, NEW p \in Programs, pc[p] \in Starting
                 PROVE  Advances(p)
      OBVIOUS
    <2>1. CASE Step(p)
      BY <2>1, OwnStepAdvances
    <2>2. CASE Crash(p)
      <3>1. Goto(p, "down") /\ TypeOK /\ "down" \in Steps
        BY <2>2 DEF Crash, Refuses, SInv, Steps
      <3>2. QED
        BY <3>1, GoesTo, HeightFacts DEF Advances, Starting, Steps
    <2>3. CASE pc'[p] = pc[p] /\ job'[p] = job[p] /\ ~ Step(p)
      BY <2>3 DEF Advances
    <2>4. ~ Start(p) /\ ~ ChangeSettings(p) /\ ~ Stop(p)
      BY DEF Start, ChangeSettings, Stop, Starting
    <2>5. CASE TouchLegacy \/ ImportSnapshot
      BY <2>1, <2>3, <2>5 DEF TouchLegacy, ImportSnapshot
    <2>6. QED
      BY <2>1, <2>2, <2>3, <2>4, <2>5, LeftAlone DEF Next
  <1>2. QED
    BY <1>1, SettingsInvariance, PTL DEF Spec, StartAdvances

=============================================================================
