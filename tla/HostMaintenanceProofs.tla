----------------------- MODULE HostMaintenanceProofs -----------------------
(***************************************************************************)
(* Theorems about hosts and maintenance operations, for any number of host *)
(* processes, operators and releases.                                      *)
(*                                                                         *)
(* The inductive invariant HInv says who holds the operation lock at which *)
(* step, who owns the marker, and which tree is installed and kept at each *)
(* step of a rehearsal.  Lock and marker together exclude the hosts from   *)
(* all that the operations change.                                         *)
(***************************************************************************)
EXTENDS HostMaintenance, TLAPS

\* A start holds the lock until it succeeds or begins to stop the host again,
\* an operation holds it to its end.
LockHeld ==
    /\ \A h \in Hosts : hosts[h].pc \in {"locked", "waiting"} => lock = h
    /\ \A o \in Operators : ops[o].pc # "idle" => lock = o

MarkerOwned == \A h \in Hosts : hosts[h].ownsMarker => marker = h

\* Past its checks, a backup or rehearsal runs without any marker.
NoMarker ==
    \A o \in Operators : ops[o].pc \in {"dumping", "copying", "replacing", "saving"} => marker = None

\* A host that has come up, or is about to, was let in by the fingerprint check.
ReleaseChecked ==
    \A h \in Hosts : (hosts[h].ownsMarker \/ hosts[h].pc = "waiting")
                        => release # Partial /\ ReleaseExpected

\* A partial tree is installed only under a staged rehearsal or a stale lock.
PartialIsBlocked == release = Partial => rehearsal = Staged \/ lock = OpsRemnant

\* The rehearsal has kept the release it will put back.
Rehearsing(o) ==
    \/ ops[o].pc \in {"dumping", "copying"} /\ ops[o].job = "rehearsal"
    \/ ops[o].pc \in {"replacing", "saving"}

SnapshotKept ==
    /\ rehearsal = Staged => snapshot \in Releases
    /\ \A o \in Operators :
          Rehearsing(o) => /\ snapshot \in Releases
                           /\ rehearsal \notin {Staged, Invalid}
                           /\ rehearsal.phase = "aborted" => snapshot = rehearsal.expected

RestoringInv ==
    \A o \in Operators :
        /\ ops[o].pc = "restoring" => rehearsal = Staged /\ release \in Releases
        /\ ops[o].pc \in {"dumping", "copying"} => ops[o].job \in {"backup", "rehearsal"}

\* After an abort the tree put back is installed, but for the moment between
\* staging the next candidate and recording that.
AbortInv ==
    rehearsal.phase = "aborted"
       => \/ release = rehearsal.expected
          \/ lock = OpsRemnant
          \/ \E o \in Operators : ops[o].pc = "saving"

HInv ==
    /\ HostTypeOK
    /\ LockHeld
    /\ MarkerOwned
    /\ NoMarker
    /\ ReleaseChecked
    /\ PartialIsBlocked
    /\ SnapshotKept
    /\ RestoringInv
    /\ AbortInv

-----------------------------------------------------------------------------
(* Who is excluded by whom *)

(* While an operation is under way no other one is, and no host starts.       *)
LEMMA OperationAlone ==
    ASSUME HInv, NEW o \in Operators, ops[o].pc # "idle"
    PROVE  /\ lock = o
           /\ \A p \in Operators \ {o} : ops[p].pc = "idle"
           /\ \A h \in Hosts : hosts[h].pc \notin {"locked", "waiting"}
BY ProcessAssumption DEF HInv, LockHeld

(* Without a marker, or with a candidate staged, no host has come up.         *)
LEMMA NobodyUp ==
    ASSUME HInv, marker = None \/ rehearsal \in {Staged, Invalid}
    PROVE  \A h \in Hosts : ~hosts[h].ownsMarker
<1> SUFFICES ASSUME NEW h \in Hosts, hosts[h].ownsMarker PROVE FALSE
  BY DEF HInv, HostTypeOK, HostRecord
<1>1. marker = h
  BY DEF HInv, MarkerOwned
<1>2. rehearsal \notin {Staged, Invalid}
  BY DEF HInv, ReleaseChecked, ReleaseExpected
<1> QED BY <1>1, <1>2, ProcessAssumption

-----------------------------------------------------------------------------
(* Steps of a host *)

(* A host step writes the host's own record r and may take or give back the   *)
(* lock and the marker, as far as they are free or its own.                   *)
LEMMA HostStep ==
    ASSUME HInv, NEW h \in Hosts, NEW r \in HostRecord,
           hosts' = [hosts EXCEPT ![h] = r],
           UNCHANGED <<ops, release, snapshot, rehearsal>>,
           lock' = lock \/ (lock \in {h, None} /\ lock' \in {h, None, HostRemnant}),
           marker' = marker \/ (marker = h /\ marker' \in {None, HostRemnant})
                            \/ (marker = None /\ marker' = h /\ lock = h),
           r.pc \in {"locked", "waiting"} => lock' = h,
           r.ownsMarker => marker' = h,
           (r.ownsMarker \/ r.pc = "waiting") => release # Partial /\ ReleaseExpected
    PROVE  HInv'
<1>1. hosts'[h] = r /\ \A k \in Hosts \ {h} : hosts'[k] = hosts[k]
  BY DEF HInv, HostTypeOK
<1>2. HostTypeOK'
  BY DEF HInv, HostTypeOK
<1>3. LockHeld'
  BY <1>1, ProcessAssumption DEF HInv, LockHeld
<1>4. MarkerOwned'
  BY <1>1, ProcessAssumption DEF HInv, MarkerOwned
<1>5. NoMarker'
  <2> SUFFICES ASSUME NEW o \in Operators,
                      ops[o].pc \in {"dumping", "copying", "replacing", "saving"}
               PROVE  marker' = None
    BY DEF NoMarker
  <2>1. marker = None /\ lock = o
    BY DEF HInv, NoMarker, LockHeld
  <2> QED BY <2>1, ProcessAssumption
<1>6. ReleaseChecked'
  BY <1>1 DEF HInv, ReleaseChecked, ReleaseExpected, Staged, Invalid
<1>7. PartialIsBlocked' /\ AbortInv'
  BY ProcessAssumption DEF HInv, PartialIsBlocked, AbortInv, Staged
<1>8. SnapshotKept' /\ RestoringInv'
  BY DEF HInv, SnapshotKept, RestoringInv, Rehearsing, Staged, Invalid
<1> QED BY <1>2, <1>3, <1>4, <1>5, <1>6, <1>7, <1>8 DEF HInv

(* Requests, the server thread, and waiting for either: the host's own record  *)
(* changes, lock and marker stay.                                             *)
LEMMA ServingKeeps ==
    ASSUME HInv, NEW h \in Hosts,
           Enter(h) \/ Leave(h) \/ ServerStarted(h) \/ ServerEnds(h) \/ DrainDone(h)
    PROVE  HInv'
<1> DEFINE r == hosts'[h]
<1>1. hosts[h] \in HostRecord
  BY DEF HInv, HostTypeOK
<1>2. /\ hosts' = [hosts EXCEPT ![h] = r]
      /\ r \in HostRecord
      /\ r.ownsMarker = hosts[h].ownsMarker
      /\ r.pc = hosts[h].pc \/ r.pc = "joining"
      /\ UNCHANGED <<lock, marker, ops, release, snapshot, rehearsal>>
  <2>1. CASE Enter(h)
    BY <1>1, <2>1, BoundAssumption DEF HInv, HostTypeOK, Enter, HostRecord, files
  <2>2. CASE Leave(h)
    BY <1>1, <2>2, BoundAssumption DEF HInv, HostTypeOK, Leave, HostRecord, files
  <2>3. CASE ServerStarted(h)
    BY <1>1, <2>3 DEF HInv, HostTypeOK, ServerStarted, HostRecord, files
  <2>4. CASE ServerEnds(h)
    BY <1>1, <2>4 DEF HInv, HostTypeOK, ServerEnds, HostRecord, files
  <2>5. CASE DrainDone(h)
    BY <1>1, <2>5 DEF HInv, HostTypeOK, DrainDone, HostRecord, files
  <2> QED BY <2>1, <2>2, <2>3, <2>4, <2>5
<1>3. /\ r.pc \in {"locked", "waiting"} => lock = h
      /\ r.ownsMarker => marker = h
      /\ (r.ownsMarker \/ r.pc = "waiting") => release # Partial /\ ReleaseExpected
  BY <1>2 DEF HInv, LockHeld, MarkerOwned, ReleaseChecked
<1> HIDE DEF r
<1> QED BY <1>2, <1>3, HostStep

(* A start takes the lock and keeps it until it has succeeded or failed.      *)
LEMMA StartKeeps ==
    ASSUME HInv, NEW h \in Hosts,
           StartLock(h) \/ StartRefused(h) \/ StartServing(h) \/ StartSucceeds(h)
    PROVE  HInv'
<1> DEFINE r == hosts'[h]
<1>1. hosts[h] \in HostRecord
  BY DEF HInv, HostTypeOK
<1>2. /\ hosts[h].pc \in {"locked", "waiting"} => lock = h
      /\ hosts[h].ownsMarker => marker = h
      /\ (hosts[h].ownsMarker \/ hosts[h].pc = "waiting") => release # Partial /\ ReleaseExpected
  BY DEF HInv, LockHeld, MarkerOwned, ReleaseChecked
<1>3. CASE StartLock(h)
  <2>1. /\ hosts' = [hosts EXCEPT ![h] = r] /\ r \in HostRecord
        /\ r.ownsMarker = hosts[h].ownsMarker /\ r.pc = "locked"
        /\ lock = None /\ lock' = h
        /\ UNCHANGED <<marker, ops, release, snapshot, rehearsal>>
    BY <1>1, <1>3 DEF HInv, HostTypeOK, StartLock, HostRecord, files
  <2> HIDE DEF r
  <2> QED BY <1>2, <2>1, HostStep
<1>4. CASE StartRefused(h)
  <2>1. /\ hosts' = [hosts EXCEPT ![h] = r] /\ r \in HostRecord
        /\ r.ownsMarker = hosts[h].ownsMarker /\ r.pc = "idle"
        /\ lock = h /\ lock' = None
        /\ UNCHANGED <<marker, ops, release, snapshot, rehearsal>>
    BY <1>1, <1>2, <1>4 DEF HInv, HostTypeOK, StartRefused, Unlocked, HostRecord, files
  <2> HIDE DEF r
  <2> QED BY <1>2, <2>1, HostStep
<1>5. CASE StartServing(h)
  <2>1. /\ hosts' = [hosts EXCEPT ![h] = r] /\ r \in HostRecord
        /\ r.ownsMarker = hosts[h].ownsMarker /\ r.pc = "waiting"
        /\ lock = h /\ ReleaseExpected
        /\ UNCHANGED <<lock, marker, ops, release, snapshot, rehearsal>>
    BY <1>1, <1>2, <1>5 DEF HInv, HostTypeOK, StartServing, HostRecord, files
  <2>2. release # Partial
    BY <2>1, ProcessAssumption DEF HInv, PartialIsBlocked, ReleaseExpected
  <2> HIDE DEF r
  <2> QED BY <1>2, <2>1, <2>2, HostStep
<1>6. CASE StartSucceeds(h)
  <2>1. /\ hosts' = [hosts EXCEPT ![h] = r] /\ r \in HostRecord
        /\ r.pc = "idle" /\ hosts[h].pc = "waiting"
        /\ marker = None /\ marker' = h /\ lock = h /\ lock' = None
        /\ UNCHANGED <<ops, release, snapshot, rehearsal>>
    BY <1>1, <1>2, <1>6 DEF HInv, HostTypeOK, StartSucceeds, Unlocked, HostRecord, files
  <2> HIDE DEF r
  <2> QED BY <1>2, <2>1, HostStep
<1> QED BY <1>3, <1>4, <1>5, <1>6

(* A stop keeps the marker until it completes, and gives back only what is    *)
(* the host's own; so does a crash, but for what it leaves behind.            *)
LEMMA StopKeeps ==
    ASSUME HInv, NEW h \in Hosts,
           StartFails(h) \/ Stop(h) \/ StopTimesOut(h) \/ StopCompletes(h) \/ HostCrash(h)
    PROVE  HInv'
<1> DEFINE r == hosts'[h]
<1>1. hosts[h] \in HostRecord
  BY DEF HInv, HostTypeOK
<1>2. /\ hosts[h].ownsMarker => marker = h
      /\ hosts[h].ownsMarker => release # Partial /\ ReleaseExpected
  BY DEF HInv, MarkerOwned, ReleaseChecked
<1>3. CASE StartFails(h) \/ Stop(h)
  <2>1. /\ hosts' = [hosts EXCEPT ![h] = r] /\ r \in HostRecord
        /\ r.ownsMarker = hosts[h].ownsMarker /\ r.pc = "draining"
        /\ UNCHANGED <<lock, marker, ops, release, snapshot, rehearsal>>
    BY <1>1, <1>3 DEF HInv, HostTypeOK, StartFails, Stop, BeginStop, HostRecord, files
  <2> HIDE DEF r
  <2> QED BY <1>2, <2>1, HostStep
<1>4. CASE StopTimesOut(h)
  <2>1. /\ hosts' = [hosts EXCEPT ![h] = r] /\ r \in HostRecord
        /\ r.ownsMarker = hosts[h].ownsMarker /\ r.pc = "idle"
        /\ lock' = lock \/ (lock = h /\ lock' = None)
        /\ UNCHANGED <<marker, ops, release, snapshot, rehearsal>>
    BY <1>1, <1>4 DEF HInv, HostTypeOK, StopTimesOut, Unlocked, HostRecord, files
  <2> HIDE DEF r
  <2> QED BY <1>2, <2>1, HostStep
<1>5. StoppedHost \in HostRecord /\ StoppedHost.pc = "idle" /\ ~StoppedHost.ownsMarker
  BY BoundAssumption DEF StoppedHost, HostRecord
<1>6. CASE StopCompletes(h)
  <2>1. /\ hosts' = [hosts EXCEPT ![h] = StoppedHost]
        /\ lock' = lock \/ (lock = h /\ lock' = None)
        /\ marker' = marker \/ (marker = h /\ marker' = None)
        /\ UNCHANGED <<ops, release, snapshot, rehearsal>>
    BY <1>6 DEF StopCompletes, Unlocked, files
  <2> QED BY <1>5, <2>1, HostStep
<1>7. CASE HostCrash(h)
  <2>1. /\ hosts' = [hosts EXCEPT ![h] = StoppedHost]
        /\ lock' = lock \/ (lock = h /\ lock' = HostRemnant)
        /\ marker' = marker \/ (marker = h /\ marker' = HostRemnant)
        /\ UNCHANGED <<ops, release, snapshot, rehearsal>>
    BY <1>7 DEF HostCrash, files
  <2> QED BY <1>5, <2>1, HostStep
<1> QED BY <1>3, <1>4, <1>6, <1>7

(* What a dead host left is nobody's lock and nobody's marker.                *)
LEMMA RemnantsKeep ==
    ASSUME HInv, RemoveHostRemnants
    PROVE  HInv'
<1>1. UNCHANGED <<hosts, ops, release, snapshot, rehearsal>>
  BY DEF RemoveHostRemnants, files
<1>2. /\ lock' = lock \/ (lock = HostRemnant /\ lock' = None)
      /\ marker' = marker \/ (marker = HostRemnant /\ marker' = None)
  BY DEF RemoveHostRemnants
<1>3. HostTypeOK'
  BY <1>1, <1>2 DEF HInv, HostTypeOK
<1>4. LockHeld' /\ MarkerOwned' /\ NoMarker'
  BY <1>1, <1>2, ProcessAssumption DEF HInv, LockHeld, MarkerOwned, NoMarker
<1>5. ReleaseChecked' /\ SnapshotKept' /\ RestoringInv'
  BY <1>1 DEF HInv, ReleaseChecked, ReleaseExpected, SnapshotKept, RestoringInv, Rehearsing,
              Staged, Invalid
<1>6. PartialIsBlocked' /\ AbortInv'
  <2>1. OpsRemnant # HostRemnant
    BY DEF OpsRemnant, HostRemnant
  <2> QED BY <1>1, <1>2, <2>1 DEF HInv, PartialIsBlocked, AbortInv, Staged
<1> QED BY <1>3, <1>4, <1>5, <1>6 DEF HInv

-----------------------------------------------------------------------------
(* Steps of an operation *)

(* An operation under way writes its own record r and the files.  Nobody else *)
(* holds the lock, so only what the files and r say has to be shown.          *)
LEMMA OperationStep ==
    ASSUME HInv, NEW o \in Operators, ops[o].pc # "idle", NEW r \in OperatorRecord,
           ops' = [ops EXCEPT ![o] = r], UNCHANGED <<marker, hosts>>,
           lock' \in {None, OpsRemnant, o}, r.pc # "idle" => lock' = o,
           r.pc \in {"dumping", "copying", "replacing", "saving"} => marker = None,
           r.pc \in {"dumping", "copying"} => r.job \in {"backup", "rehearsal"},
           release' \in Releases \cup {Partial}, snapshot' \in Releases \cup {None, Partial},
           rehearsal' \in {NoRehearsal, Staged, Invalid} \cup {Aborted(a) : a \in Releases},
           UNCHANGED <<release, rehearsal>> \/ marker = None \/ rehearsal \in {Staged, Invalid},
           release' = Partial => rehearsal' = Staged \/ lock' = OpsRemnant,
           rehearsal' = Staged => snapshot' \in Releases,
           (r.pc \in {"dumping", "copying"} /\ r.job = "rehearsal") \/ r.pc \in {"replacing", "saving"}
              => /\ snapshot' \in Releases /\ rehearsal' \notin {Staged, Invalid}
                 /\ rehearsal'.phase = "aborted" => snapshot' = rehearsal'.expected,
           r.pc = "restoring" => rehearsal' = Staged /\ release' \in Releases,
           rehearsal'.phase = "aborted"
              => release' = rehearsal'.expected \/ lock' = OpsRemnant \/ r.pc = "saving"
    PROVE  HInv'
<1>1. /\ lock = o
      /\ \A p \in Operators \ {o} : ops[p].pc = "idle"
      /\ \A h \in Hosts : hosts[h].pc \notin {"locked", "waiting"}
  BY OperationAlone
<1>2. ops'[o] = r /\ \A p \in Operators \ {o} : ops'[p] = ops[p]
  BY DEF HInv, HostTypeOK
<1>3. HostTypeOK'
  BY DEF HInv, HostTypeOK
<1>4. LockHeld'
  BY <1>1, <1>2 DEF HInv, LockHeld
<1>5. MarkerOwned' /\ NoMarker'
  BY <1>1, <1>2 DEF HInv, MarkerOwned, NoMarker
<1>6. ReleaseChecked'
  <2>1. CASE UNCHANGED <<release, rehearsal>>
    BY <2>1 DEF HInv, ReleaseChecked, ReleaseExpected, Staged, Invalid
  <2>2. CASE marker = None \/ rehearsal \in {Staged, Invalid}
    <3>1. \A h \in Hosts : ~hosts[h].ownsMarker
      BY <2>2, NobodyUp
    <3> QED BY <1>1, <3>1 DEF ReleaseChecked
  <2> QED BY <2>1, <2>2
<1>7. PartialIsBlocked'
  BY DEF PartialIsBlocked, Staged
<1>8. SnapshotKept'
  BY <1>1, <1>2 DEF SnapshotKept, Rehearsing, Staged, Invalid
<1>9. RestoringInv'
  BY <1>1, <1>2 DEF RestoringInv, Staged
<1>10. AbortInv'
  BY <1>2 DEF AbortInv
<1> QED BY <1>3, <1>4, <1>5, <1>6, <1>7, <1>8, <1>9, <1>10 DEF HInv

(* What an operation under way finds.                                         *)
LEMMA OperationFinds ==
    ASSUME HInv, NEW o \in Operators, ops[o].pc # "idle"
    PROVE  /\ lock = o
           /\ ops[o] \in OperatorRecord
           /\ release \in Releases \cup {Partial} /\ snapshot \in Releases \cup {None, Partial}
           /\ rehearsal \in {NoRehearsal, Staged, Invalid} \cup {Aborted(a) : a \in Releases}
           /\ release = Partial => rehearsal = Staged
           /\ rehearsal = Staged => snapshot \in Releases
           /\ (rehearsal.phase = "aborted" /\ ops[o].pc # "saving") => release = rehearsal.expected
           /\ Rehearsing(o) => /\ snapshot \in Releases /\ rehearsal \notin {Staged, Invalid}
                               /\ rehearsal.phase = "aborted" => snapshot = rehearsal.expected
           /\ ops[o].pc = "restoring" => rehearsal = Staged /\ release \in Releases
           /\ ops[o].pc \in {"dumping", "copying", "replacing", "saving"} => marker = None
           /\ ops[o].pc \in {"dumping", "copying"} => ops[o].job \in {"backup", "rehearsal"}
<1>1. lock = o /\ \A p \in Operators \ {o} : ops[p].pc = "idle"
  BY OperationAlone
<1>2. o # OpsRemnant
  BY ProcessAssumption
<1>3. (rehearsal.phase = "aborted" /\ ops[o].pc # "saving") => release = rehearsal.expected
  BY <1>1, <1>2 DEF HInv, AbortInv
<1>4. release = Partial => rehearsal = Staged
  BY <1>1, <1>2 DEF HInv, PartialIsBlocked
<1> QED BY <1>1, <1>3, <1>4 DEF HInv, HostTypeOK, NoMarker, SnapshotKept, RestoringInv

(* The records of the rehearsal file are told apart by their phase.           *)
LEMMA Phases ==
    /\ Staged.phase # "aborted" /\ Invalid.phase # "aborted" /\ NoRehearsal.phase # "aborted"
    /\ Staged # Invalid
    /\ \A a : Aborted(a).expected = a /\ Aborted(a) \notin {Staged, Invalid}
BY DEF Staged, Invalid, NoRehearsal, Aborted

(* An operation takes a free lock.                                            *)
LEMMA BeginKeeps ==
    ASSUME HInv, NEW o \in Operators, NEW job \in Jobs, BeginOperation(o, job)
    PROVE  HInv'
<1>1. /\ lock = None /\ lock' = o /\ ops' = [ops EXCEPT ![o] = [pc |-> "locked", job |-> job]]
      /\ UNCHANGED <<marker, hosts, release, snapshot, rehearsal>>
  BY DEF BeginOperation, files
<1>2. /\ \A p \in Operators : ops[p].pc = "idle"
      /\ \A h \in Hosts : hosts[h].pc \notin {"locked", "waiting"}
  BY <1>1, ProcessAssumption DEF HInv, LockHeld
<1>3. /\ ops'[o].pc = "locked" /\ \A p \in Operators \ {o} : ops'[p] = ops[p]
      /\ ops' \in [Operators -> OperatorRecord]
  BY <1>1 DEF HInv, HostTypeOK, OperatorRecord
<1>4. HostTypeOK'
  BY <1>1, <1>3 DEF HInv, HostTypeOK
<1>5. LockHeld' /\ MarkerOwned' /\ NoMarker'
  BY <1>1, <1>2, <1>3 DEF HInv, LockHeld, MarkerOwned, NoMarker
<1>6. ReleaseChecked'
  BY <1>1 DEF HInv, ReleaseChecked, ReleaseExpected, Staged, Invalid
<1>7. SnapshotKept' /\ RestoringInv'
  BY <1>1, <1>2, <1>3 DEF HInv, SnapshotKept, RestoringInv, Rehearsing, Staged, Invalid
<1>8. PartialIsBlocked' /\ AbortInv'
  BY <1>1, <1>2, ProcessAssumption DEF HInv, PartialIsBlocked, AbortInv, Staged
<1> QED BY <1>4, <1>5, <1>6, <1>7, <1>8 DEF HInv

(* A backup changes no file of the installation.                              *)
LEMMA BackupKeeps ==
    ASSUME HInv, NEW o \in Operators,
           CreateBackup(o) \/ DumpDatabase(o) \/ CopyBlobs(o) \/ RestoreBackupSet(o)
    PROVE  HInv'
<1> DEFINE r == ops'[o]
<1>1. ops[o].pc \notin {"idle", "saving"}
  BY DEF CreateBackup, DumpDatabase, CopyBlobs, RestoreBackupSet
<1>2. ops[o] \in OperatorRecord /\ ops \in [Operators -> OperatorRecord]
  BY DEF HInv, HostTypeOK
<1>3. lock = o
  BY <1>1, OperationFinds
<1>4. IdleOperator \in OperatorRecord /\ IdleOperator.pc = "idle"
  BY DEF IdleOperator, OperatorRecord, Jobs
<1>5. /\ ops' = [ops EXCEPT ![o] = r] /\ r \in OperatorRecord
      /\ UNCHANGED <<marker, hosts, release, snapshot, rehearsal>>
      /\ \/ r.pc = "idle" /\ lock' = None
         \/ /\ lock' = o /\ r.job = ops[o].job
            /\ \/ r.pc = "dumping" /\ r.job = "backup" /\ marker = None
               \/ r.pc = "copying" /\ ops[o].pc = "dumping"
               \/ r.pc = "replacing" /\ ops[o].pc = "copying" /\ r.job # "backup"
  <2>1. CASE CreateBackup(o)
    BY <1>2, <1>3, <2>1 DEF CreateBackup, Goto, OperatorRecord, files
  <2>2. CASE DumpDatabase(o)
    BY <1>2, <1>3, <2>2 DEF DumpDatabase, Goto, OperatorRecord, files
  <2>3. CASE CopyBlobs(o) /\ ops[o].job = "backup"
    BY <1>2, <1>3, <1>4, <2>3 DEF CopyBlobs, Finish, Unlocked, files
  <2>4. CASE CopyBlobs(o) /\ ops[o].job # "backup"
    BY <1>2, <1>3, <2>4 DEF CopyBlobs, Goto, OperatorRecord, files
  <2>5. CASE RestoreBackupSet(o)
    BY <1>2, <1>3, <1>4, <2>5 DEF RestoreBackupSet, Finish, Unlocked, files
  <2> QED BY <2>1, <2>2, <2>3, <2>4, <2>5
<1> HIDE DEF r
<1>6. /\ r.pc \in {"dumping", "copying", "replacing", "saving"} => marker = None
      /\ r.pc \in {"dumping", "copying"} => r.job \in {"backup", "rehearsal"}
      /\ (r.pc \in {"dumping", "copying"} /\ r.job = "rehearsal") \/ r.pc \in {"replacing", "saving"}
            => Rehearsing(o)
      /\ r.pc # "restoring" /\ r.pc # "saving"
  BY <1>1, <1>5, OperationFinds DEF Rehearsing
<1> QED BY <1>1, <1>5, <1>6, OperationFinds, OperationStep

(* A rehearsal keeps the installed release before it installs a candidate.    *)
LEMMA RehearsalKeeps ==
    ASSUME HInv, NEW o \in Operators,
           \/ StartUpdateRehearsal(o) \/ SaveStagedState(o)
           \/ \E candidate \in Releases : ReplaceReleaseWithCandidate(o, candidate)
    PROVE  HInv'
<1> DEFINE r == ops'[o]
<1>1. ops \in [Operators -> OperatorRecord]
  BY DEF HInv, HostTypeOK
<1>2. CASE StartUpdateRehearsal(o)
  <2>1. /\ ops[o].pc = "locked" /\ ops[o].job = "rehearsal"
        /\ rehearsal \notin {Staged, Invalid} /\ marker = None
        /\ snapshot' = release
        /\ UNCHANGED <<lock, marker, hosts, release, rehearsal>>
    BY <1>2 DEF StartUpdateRehearsal, Snapshotting
  <2>2. /\ ops' = [ops EXCEPT ![o] = r] /\ r \in OperatorRecord
        /\ r.pc = "dumping" /\ r.job = "rehearsal"
    BY <1>1, <1>2, <2>1 DEF StartUpdateRehearsal, Goto, OperatorRecord
  <2>3. release \in Releases
    BY <2>1, OperationFinds
  <2> HIDE DEF r
  <2> QED BY <2>1, <2>2, <2>3, OperationFinds, OperationStep
<1>3. CASE \E candidate \in Releases : ReplaceReleaseWithCandidate(o, candidate)
  <2>1. PICK candidate \in Releases : ReplaceReleaseWithCandidate(o, candidate)
    BY <1>3
  <2>2. /\ ops[o].pc = "replacing" /\ release' = candidate
        /\ UNCHANGED <<lock, marker, hosts, snapshot, rehearsal>>
    BY <2>1 DEF ReplaceReleaseWithCandidate
  <2>3. /\ ops' = [ops EXCEPT ![o] = r] /\ r \in OperatorRecord /\ r.pc = "saving"
    BY <1>1, <2>1 DEF ReplaceReleaseWithCandidate, Goto, OperatorRecord
  <2>4. Rehearsing(o)
    BY <2>2 DEF Rehearsing
  <2>5. release' # Partial
    BY <2>2, ProcessAssumption
  <2> HIDE DEF r
  <2> QED BY <2>2, <2>3, <2>4, <2>5, OperationFinds, OperationStep
<1>4. CASE SaveStagedState(o)
  <2>1. /\ ops[o].pc = "saving" /\ rehearsal' = Staged
        /\ ops' = [ops EXCEPT ![o] = IdleOperator] /\ lock' = Unlocked(o)
        /\ UNCHANGED <<marker, hosts, release, snapshot>>
    BY <1>4 DEF SaveStagedState, Finish
  <2>2. IdleOperator \in OperatorRecord /\ IdleOperator.pc = "idle"
    BY DEF IdleOperator, OperatorRecord, Jobs
  <2>3. Rehearsing(o) /\ lock' = None
    BY <2>1, OperationFinds DEF Rehearsing, Unlocked
  <2> QED BY <2>1, <2>2, <2>3, Phases, OperationFinds, OperationStep
<1> QED BY <1>2, <1>3, <1>4

(* An abort puts the kept release back before it records it as expected.      *)
LEMMA AbortKeeps ==
    ASSUME HInv, NEW o \in Operators, AbortUpdateRehearsal(o) \/ SaveAbortedState(o)
    PROVE  HInv'
<1> DEFINE r == ops'[o]
<1>1. CASE AbortUpdateRehearsal(o)
  <2>1. /\ ops[o].pc = "locked" /\ rehearsal = Staged /\ release' = snapshot
        /\ UNCHANGED <<lock, marker, hosts, snapshot, rehearsal>>
    BY <1>1 DEF AbortUpdateRehearsal, Aborting
  <2>2. /\ ops' = [ops EXCEPT ![o] = r] /\ r \in OperatorRecord /\ r.pc = "restoring"
    BY <1>1 DEF HInv, HostTypeOK, AbortUpdateRehearsal, Goto, OperatorRecord
  <2> HIDE DEF r
  <2> QED BY <2>1, <2>2, Phases, OperationFinds, OperationStep
<1>2. CASE SaveAbortedState(o)
  <2>1. /\ ops[o].pc = "restoring" /\ rehearsal' = Aborted(release)
        /\ ops' = [ops EXCEPT ![o] = IdleOperator] /\ lock' = Unlocked(o)
        /\ UNCHANGED <<marker, hosts, release, snapshot>>
    BY <1>2 DEF SaveAbortedState, Finish
  <2>2. IdleOperator \in OperatorRecord /\ IdleOperator.pc = "idle"
    BY DEF IdleOperator, OperatorRecord, Jobs
  <2>3. rehearsal = Staged /\ release \in Releases /\ lock' = None
    BY <2>1, OperationFinds DEF Unlocked
  <2>4. release # Partial
    BY <2>3, ProcessAssumption
  <2> QED BY <2>1, <2>2, <2>3, <2>4, Phases, OperationFinds, OperationStep
<1> QED BY <1>1, <1>2

(* A failure gives the lock back only with a complete release installed or a  *)
(* candidate marked as staged; a crash leaves the lock.                       *)
LEMMA FailureKeeps ==
    ASSUME HInv, NEW o \in Operators, OperationFails(o) \/ OperationCrash(o)
    PROVE  HInv'
<1>1. /\ ops[o].pc # "idle" /\ ops' = [ops EXCEPT ![o] = IdleOperator]
      /\ snapshot' \in Snapshotted(o) /\ rehearsal' \in Saved(o)
      /\ UNCHANGED <<marker, hosts>>
  BY DEF OperationFails, OperationCrash, Finish
<1>2. IdleOperator \in OperatorRecord /\ IdleOperator.pc = "idle"
  BY DEF IdleOperator, OperatorRecord, Jobs
<1>3. /\ lock = o /\ o # OpsRemnant
      /\ lock' = OpsRemnant \/ (OperationFails(o) /\ lock' = None)
  BY <1>1, OperationFinds, ProcessAssumption
     DEF OperationFails, OperationCrash, Finish, Unlocked
<1>4. /\ snapshot' \in Releases \cup {None, Partial}
      /\ rehearsal = Staged => snapshot' = snapshot
  BY <1>1, OperationFinds DEF Snapshotted, Snapshotting
<1>5. /\ rehearsal' = rehearsal \/ (rehearsal' = Invalid /\ ops[o].pc \in {"saving", "restoring"})
  BY <1>1 DEF Saved
<1>6. /\ release' \in Releases \cup {Partial}
      /\ \/ release' = release /\ (OperationFails(o) => ops[o].pc \notin {"replacing", "saving"})
         \/ ops[o].pc \in {"replacing", "saving"}
         \/ rehearsal = Staged /\ ops[o].pc = "locked"
  <2>1. CASE Staging(o)
    <3>1. Rehearsing(o) /\ ops[o].pc \in {"replacing", "saving"}
      BY <2>1 DEF Staging, Rehearsing
    <3> QED BY <1>1, <2>1, <3>1, OperationFinds DEF OperationFails, OperationCrash
  <2>2. CASE ~Staging(o)
    BY <1>1, <2>2, OperationFinds DEF OperationFails, OperationCrash, Staging, Aborting
  <2> QED BY <2>1, <2>2
<1>7. /\ OperationFails(o) /\ ops[o].pc \in {"replacing", "saving"}
      => /\ release' = snapshot /\ snapshot \in Releases
         /\ rehearsal.phase = "aborted" => release' = rehearsal.expected
  BY <1>1, OperationFinds DEF OperationFails, Staging, Rehearsing
<1>8. UNCHANGED <<release, rehearsal>> \/ marker = None \/ rehearsal \in {Staged, Invalid}
  BY <1>1, <1>5, <1>6, OperationFinds
<1>9. release' = Partial => rehearsal' = Staged \/ lock' = OpsRemnant
  <2> SUFFICES ASSUME release' = Partial, OperationFails(o) PROVE rehearsal' = Staged
    BY <1>3
  <2>1. ops[o].pc \notin {"replacing", "saving"}
    BY <1>7, ProcessAssumption
  <2>2. rehearsal = Staged
    BY <1>1, <1>6, <2>1, OperationFinds
  <2>3. ops[o].pc # "restoring"
    BY <1>1, <1>6, <2>1, OperationFinds, ProcessAssumption
  <2> QED BY <1>5, <2>1, <2>2, <2>3
<1>10. rehearsal'.phase = "aborted" => release' = rehearsal'.expected \/ lock' = OpsRemnant
  <2> SUFFICES ASSUME rehearsal'.phase = "aborted", OperationFails(o)
               PROVE  release' = rehearsal'.expected
    BY <1>3
  <2>1. rehearsal' = rehearsal
    BY <1>5, Phases
  <2>2. CASE ops[o].pc \in {"replacing", "saving"}
    BY <1>7, <2>1, <2>2
  <2>3. CASE ops[o].pc \notin {"replacing", "saving"}
    BY <1>1, <1>6, <2>1, <2>3, OperationFinds, Phases
  <2> QED BY <2>2, <2>3
<1>11. rehearsal' \in {NoRehearsal, Staged, Invalid} \cup {Aborted(a) : a \in Releases}
  BY <1>1, <1>5, OperationFinds
<1>12. rehearsal' = Staged => snapshot' \in Releases
  BY <1>1, <1>4, <1>5, OperationFinds, Phases
<1>13. lock' \in {None, OpsRemnant, o}
  BY <1>3
<1> QED BY <1>1, <1>2, <1>4, <1>6, <1>8, <1>9, <1>10, <1>11, <1>12, <1>13, OperationStep

-----------------------------------------------------------------------------
(* The theorems *)

LEMMA InitHInv == Init => HInv
<1> SUFFICES ASSUME Init PROVE HInv
  OBVIOUS
<1>1. StoppedHost \in HostRecord /\ StoppedHost.pc = "idle" /\ ~StoppedHost.ownsMarker
  BY BoundAssumption DEF StoppedHost, HostRecord
<1>2. IdleOperator \in OperatorRecord /\ IdleOperator.pc = "idle"
  BY DEF IdleOperator, OperatorRecord, Jobs
<1>3. /\ \A h \in Hosts : hosts[h].pc = "idle" /\ ~hosts[h].ownsMarker
      /\ \A o \in Operators : ops[o].pc = "idle"
  BY <1>1, <1>2 DEF Init
<1>4. HostTypeOK
  BY <1>1, <1>2 DEF Init, HostTypeOK
<1>5. LockHeld /\ MarkerOwned /\ NoMarker /\ ReleaseChecked
  BY <1>3 DEF LockHeld, MarkerOwned, NoMarker, ReleaseChecked
<1>6. PartialIsBlocked /\ SnapshotKept /\ RestoringInv /\ AbortInv
  BY <1>3, ProcessAssumption
     DEF Init, PartialIsBlocked, SnapshotKept, RestoringInv, Rehearsing, AbortInv, NoRehearsal, Staged
<1> QED BY <1>4, <1>5, <1>6 DEF HInv

LEMMA NextHInv == HInv /\ [Next]_hmVars => HInv'
<1> SUFFICES ASSUME HInv, [Next]_hmVars PROVE HInv'
  OBVIOUS
<1>1. CASE UNCHANGED hmVars
  BY <1>1 DEF hmVars, HInv, HostTypeOK, LockHeld, MarkerOwned, NoMarker, ReleaseChecked,
              ReleaseExpected, PartialIsBlocked, SnapshotKept, RestoringInv, Rehearsing, AbortInv,
              Staged, Invalid, NoRehearsal, Aborted
<1>2. ASSUME NEW h \in Hosts,
             \/ Enter(h) \/ Leave(h) \/ StartLock(h) \/ Stop(h) \/ HostProgress(h)
             \/ ServerStarted(h) \/ ServerEnds(h) \/ HostCrash(h)
      PROVE  HInv'
  BY <1>2, ServingKeeps, StartKeeps, StopKeeps DEF HostProgress
<1>3. CASE RemoveHostRemnants
  BY <1>3, RemnantsKeep
<1>4. ASSUME NEW o \in Operators,
             \/ \E job \in Jobs : BeginOperation(o, job)
             \/ OperationProgress(o) \/ OperationCrash(o)
      PROVE  HInv'
  BY <1>4, BeginKeeps, BackupKeeps, RehearsalKeeps, AbortKeeps, FailureKeeps DEF OperationProgress
<1> QED BY <1>1, <1>2, <1>3, <1>4 DEF Next

(* The lock, the marker and the release trees are as HInv says in every       *)
(* reachable state, whatever times out, fails or crashes.                     *)
THEOREM HostInvariance == Spec => []HInv
<1>1. Init => HInv
  BY InitHInv
<1>2. HInv /\ [Next]_hmVars => HInv'
  BY NextHInv
<1> QED BY <1>1, <1>2, PTL DEF Spec

(* The state of every process is well-formed, and the request count of        *)
(* request_drain stays between zero and the bound.                            *)
THEOREM HostTypeCorrect == Spec => []HostTypeOK
<1>1. HInv => HostTypeOK
  BY DEF HInv
<1> QED BY <1>1, HostInvariance, PTL

(* No two hosts have come up: the exclusive marker directory is removed only  *)
(* by its owner's completed stop, or by hand after its death.                 *)
THEOREM OneHostHolds == Spec => []OneHost
<1>1. HInv => OneHost
  BY DEF HInv, MarkerOwned, OneHost
<1> QED BY <1>1, HostInvariance, PTL

(* While create_backup dumps and copies, no host that has come up executes a  *)
(* state-changing request.                                                    *)
THEOREM QuiescentBackupHolds == Spec => []QuiescentBackup
<1>1. HInv => QuiescentBackup
  <2> SUFFICES ASSUME HInv, NEW o \in Operators, ops[o].pc \in {"dumping", "copying"},
                      NEW h \in Hosts, hosts[h].ownsMarker
               PROVE  FALSE
    BY DEF QuiescentBackup, Reading
  <2>1. marker = None
    BY DEF HInv, NoMarker
  <2> QED BY <2>1, NobodyUp
<1> QED BY <1>1, HostInvariance, PTL

(* A host that has come up runs a complete release that the fingerprint check *)
(* of the start allows, at all later times as well.                           *)
THEOREM ExpectedReleaseHolds == Spec => []HostRunsExpectedRelease
<1>1. HInv => HostRunsExpectedRelease
  BY DEF HInv, ReleaseChecked, HostRunsExpectedRelease
<1> QED BY <1>1, HostInvariance, PTL

(* What abort_update_rehearsal put back stays installed until the next        *)
(* candidate is staged.                                                       *)
THEOREM AbortIsKeptHolds == Spec => []AbortIsKept
<1>1. HInv => AbortIsKept
  <2> SUFFICES ASSUME HInv, rehearsal.phase = "aborted", lock = None
               PROVE  release = rehearsal.expected
    BY DEF AbortIsKept
  <2>1. \A o \in Operators : ops[o].pc = "idle"
    BY ProcessAssumption DEF HInv, LockHeld
  <2>2. lock # OpsRemnant
    BY ProcessAssumption
  <2> QED BY <2>1, <2>2 DEF HInv, AbortInv
<1> QED BY <1>1, HostInvariance, PTL

-----------------------------------------------------------------------------
(* Calls in progress: what lock and drain wait for *)

\* Whoever holds the lock is in a call.
HolderAtWork ==
    /\ \A h \in Hosts : lock = h => hosts[h].pc # "idle"
    /\ \A o \in Operators : lock = o => ops[o].pc # "idle"

\* A host that waits for its server admits requests; one that drains is being
\* stopped, or its stop timed out.
DrainPhases ==
    \A h \in Hosts :
        /\ hosts[h].pc = "waiting" => hosts[h].tracker = "accepting"
        /\ hosts[h].tracker = "draining" => hosts[h].state = "stopping"

CallInv == HolderAtWork /\ DrainPhases

\* A drain is left only by a process that ends, and its count does not grow.
DrainShrinks(h) ==
    hosts[h].tracker = "draining"
       => \/ hosts'[h] = StoppedHost
          \/ hosts'[h].tracker = "draining" /\ hosts'[h].active <= hosts[h].active

DrainsOnlyShrink == [][\A h \in Hosts : DrainShrinks(h)]_hmVars

(* A step of a host gives the lock back when its call ends, and keeps a drain *)
(* going.                                                                     *)
LEMMA HostCallStep ==
    ASSUME HInv, CallInv, NEW h \in Hosts, NEW r \in HostRecord,
           hosts' = [hosts EXCEPT ![h] = r],
           UNCHANGED ops,
           lock' \in {lock, h, None, HostRemnant},
           lock' = h => r.pc # "idle",
           r.pc = "waiting" => r.tracker = "accepting",
           r.tracker = "draining" => r.state = "stopping",
           hosts[h].tracker = "draining"
              => r = StoppedHost \/ (r.tracker = "draining" /\ r.active <= hosts[h].active)
    PROVE  CallInv' /\ \A k \in Hosts : DrainShrinks(k)
<1>1. hosts'[h] = r /\ \A k \in Hosts \ {h} : hosts'[k] = hosts[k]
  BY DEF HInv, HostTypeOK
<1>2. HolderAtWork'
  BY <1>1, ProcessAssumption DEF CallInv, HolderAtWork
<1>3. DrainPhases'
  BY <1>1 DEF CallInv, DrainPhases
<1>4. ASSUME NEW k \in Hosts PROVE DrainShrinks(k)
  <2>1. CASE k = h
    BY <1>1, <2>1 DEF DrainShrinks
  <2>2. CASE k # h
    <3>1. hosts[k].active \in Nat
      BY BoundAssumption DEF HInv, HostTypeOK, HostRecord
    <3> QED BY <1>1, <2>2, <3>1 DEF DrainShrinks
  <2> QED BY <2>1, <2>2
<1> QED BY <1>2, <1>3, <1>4 DEF CallInv

(* Every action of a host is such a step.                                     *)
LEMMA HostCalls ==
    ASSUME HInv, CallInv, NEW h \in Hosts,
           \/ Enter(h) \/ Leave(h) \/ StartLock(h) \/ Stop(h) \/ HostProgress(h)
           \/ ServerStarted(h) \/ ServerEnds(h) \/ HostCrash(h)
    PROVE  CallInv' /\ \A k \in Hosts : DrainShrinks(k)
<1> DEFINE r == hosts'[h]
           Good == /\ hosts' = [hosts EXCEPT ![h] = r]
                   /\ r \in HostRecord
                   /\ UNCHANGED ops
                   /\ lock' \in {lock, h, None, HostRemnant}
                   /\ lock' = h => r.pc # "idle"
                   /\ r.pc = "waiting" => r.tracker = "accepting"
                   /\ r.tracker = "draining" => r.state = "stopping"
                   /\ hosts[h].tracker = "draining"
                         => \/ r = StoppedHost
                            \/ r.tracker = "draining" /\ r.active <= hosts[h].active
<1>1. /\ hosts[h] \in HostRecord
      /\ hosts[h].active \in Nat
  BY BoundAssumption DEF HInv, HostTypeOK, HostRecord
<1>2. /\ lock = h => hosts[h].pc # "idle"
      /\ hosts[h].pc = "waiting" => hosts[h].tracker = "accepting"
      /\ hosts[h].tracker = "draining" => hosts[h].state = "stopping"
  BY DEF CallInv, HolderAtWork, DrainPhases
<1>3. hosts \in [Hosts -> HostRecord] /\ h # None /\ h # HostRemnant
  BY ProcessAssumption DEF HInv, HostTypeOK
<1>4. StoppedHost \in HostRecord
  BY BoundAssumption DEF StoppedHost, HostRecord
<1>5. Good
  <2>1. CASE Enter(h)
    BY <1>1, <1>2, <1>3, <2>1, BoundAssumption DEF Enter, HostRecord
  <2>2. CASE Leave(h)
    BY <1>1, <1>2, <1>3, <2>2, BoundAssumption DEF Leave, HostRecord
  <2>3. CASE StartLock(h)
    BY <1>1, <1>2, <1>3, <2>3 DEF StartLock, HostRecord
  <2>4. CASE Stop(h)
    <3>1. /\ hosts' = [hosts EXCEPT ![h] = r] /\ r \in HostRecord
          /\ r.pc = "draining" /\ r.state = "stopping" /\ r.tracker = "draining"
          /\ r.active = hosts[h].active
          /\ UNCHANGED <<lock, ops>>
      BY <1>1, <1>3, <2>4 DEF Stop, BeginStop, HostRecord
    <3> HIDE DEF r
    <3> QED BY <1>1, <3>1
  <2>5. CASE StartRefused(h)
    BY <1>1, <1>2, <1>3, <2>5 DEF StartRefused, Unlocked, HostRecord
  <2>6. CASE StartServing(h)
    BY <1>1, <1>2, <1>3, <2>6 DEF StartServing, HostRecord
  <2>7. CASE StartSucceeds(h)
    BY <1>1, <1>2, <1>3, <2>7 DEF StartSucceeds, Unlocked, HostRecord
  <2>8. CASE StartFails(h)
    <3>1. /\ hosts' = [hosts EXCEPT ![h] = r] /\ r \in HostRecord
          /\ r.pc = "draining" /\ r.state = "stopping" /\ r.tracker = "draining"
          /\ r.active = hosts[h].active
          /\ UNCHANGED <<lock, ops>>
      BY <1>1, <1>3, <2>8 DEF StartFails, BeginStop, HostRecord
    <3> HIDE DEF r
    <3> QED BY <1>1, <3>1
  <2>9. CASE DrainDone(h)
    BY <1>1, <1>2, <1>3, <2>9 DEF DrainDone, HostRecord
  <2>10. CASE StopTimesOut(h)
    BY <1>1, <1>2, <1>3, <2>10 DEF StopTimesOut, Unlocked, HostRecord
  <2>11. CASE StopCompletes(h)
    BY <1>2, <1>3, <1>4, <2>11 DEF StopCompletes, Unlocked, StoppedHost
  <2>12. CASE ServerStarted(h)
    BY <1>1, <1>2, <1>3, <2>12 DEF ServerStarted, HostRecord
  <2>13. CASE ServerEnds(h)
    BY <1>1, <1>2, <1>3, <2>13 DEF ServerEnds, HostRecord
  <2>14. CASE HostCrash(h)
    BY <1>2, <1>3, <1>4, <2>14 DEF HostCrash, StoppedHost
  <2> QED
    BY <2>1, <2>2, <2>3, <2>4, <2>5, <2>6, <2>7, <2>8, <2>9, <2>10, <2>11, <2>12, <2>13, <2>14
       DEF HostProgress
<1> HIDE DEF r
<1> QED BY <1>5, HostCallStep

(* Every step of an operation leaves the hosts alone, and the one that ends   *)
(* it gives the lock back; a crash turns it into a remnant.                   *)
LEMMA OperationCalls ==
    ASSUME HInv, CallInv, NEW o \in Operators,
           \/ \E job \in Jobs : BeginOperation(o, job)
           \/ OperationProgress(o) \/ OperationCrash(o)
    PROVE  CallInv' /\ UNCHANGED hosts
<1>1. ops \in [Operators -> OperatorRecord] /\ o # None /\ o # OpsRemnant
  BY ProcessAssumption DEF HInv, HostTypeOK
<1>2. /\ UNCHANGED hosts
      /\ lock' \in {lock, o, None, OpsRemnant}
      /\ lock' = o => ops'[o].pc # "idle"
      /\ \A p \in Operators \ {o} : ops'[p] = ops[p]
  <2>1. CASE \E job \in Jobs : BeginOperation(o, job)
    BY <1>1, <2>1 DEF BeginOperation
  <2>2. CASE OperationCrash(o)
    BY <1>1, <2>2 DEF OperationCrash
  <2>3. ASSUME Finish(o), UNCHANGED hosts
        PROVE  /\ lock' \in {lock, o, None, OpsRemnant}
               /\ lock' # o
               /\ \A p \in Operators \ {o} : ops'[p] = ops[p]
    BY <1>1, <2>3 DEF Finish, Unlocked
  <2>4. ASSUME NEW pc \in {"dumping", "copying", "replacing", "saving", "restoring"},
               Goto(o, pc), UNCHANGED lock
        PROVE  ops'[o].pc # "idle" /\ \A p \in Operators \ {o} : ops'[p] = ops[p]
    BY <1>1, <2>4 DEF Goto, OperatorRecord
  <2>5. CASE OperationProgress(o)
    <3>1. /\ UNCHANGED hosts
          /\ \/ Finish(o)
             \/ UNCHANGED lock
                /\ \E pc \in {"dumping", "copying", "replacing", "saving", "restoring"} : Goto(o, pc)
      BY <2>5 DEF OperationProgress, CreateBackup, DumpDatabase, CopyBlobs, RestoreBackupSet,
                  StartUpdateRehearsal, ReplaceReleaseWithCandidate, SaveStagedState,
                  AbortUpdateRehearsal, SaveAbortedState, OperationFails
    <3> QED BY <2>3, <2>4, <3>1
  <2> QED BY <2>1, <2>2, <2>5
<1>3. HolderAtWork'
  BY <1>2, ProcessAssumption DEF CallInv, HolderAtWork
<1>4. DrainPhases'
  BY <1>2 DEF CallInv, DrainPhases
<1> QED BY <1>2, <1>3, <1>4 DEF CallInv

(* A host that is left alone does not change its drain.                       *)
LEMMA IdleDrain ==
    ASSUME HInv, UNCHANGED hosts
    PROVE  \A h \in Hosts : DrainShrinks(h)
BY BoundAssumption DEF HInv, HostTypeOK, HostRecord, DrainShrinks

LEMMA NextCallInv ==
    ASSUME HInv, CallInv, [Next]_hmVars
    PROVE  CallInv' /\ \A h \in Hosts : DrainShrinks(h)
<1>1. CASE UNCHANGED hmVars
  <2>1. CallInv'
    BY <1>1 DEF hmVars, CallInv, HolderAtWork, DrainPhases
  <2> QED BY <1>1, <2>1, IdleDrain DEF hmVars
<1>2. ASSUME NEW h \in Hosts,
             \/ Enter(h) \/ Leave(h) \/ StartLock(h) \/ Stop(h) \/ HostProgress(h)
             \/ ServerStarted(h) \/ ServerEnds(h) \/ HostCrash(h)
      PROVE  CallInv' /\ \A k \in Hosts : DrainShrinks(k)
  BY <1>2, HostCalls
<1>3. CASE RemoveHostRemnants
  <2>1. CallInv'
    BY <1>3, ProcessAssumption DEF RemoveHostRemnants, CallInv, HolderAtWork, DrainPhases
  <2> QED BY <1>3, <2>1, IdleDrain DEF RemoveHostRemnants
<1>4. ASSUME NEW o \in Operators,
             \/ \E job \in Jobs : BeginOperation(o, job)
             \/ OperationProgress(o) \/ OperationCrash(o)
      PROVE  CallInv' /\ \A h \in Hosts : DrainShrinks(h)
  BY <1>4, OperationCalls, IdleDrain
<1> QED BY <1>1, <1>2, <1>3, <1>4 DEF Next

LEMMA CallInvariance == Spec => []CallInv
<1>1. Init => CallInv
  BY ProcessAssumption DEF Init, CallInv, HolderAtWork, DrainPhases, StoppedHost
<1>2. HInv /\ CallInv /\ [Next]_hmVars => CallInv'
  BY NextCallInv
<1> QED BY <1>1, <1>2, HostInvariance, PTL DEF Spec

(* The operation lock never stays with a process that has returned from the   *)
(* call it was taken for, whichever way the call ended: what LockIsReleased   *)
(* needs besides the fairness of the calls.                                   *)
THEOREM LockHolderIsAtWork == Spec => []HolderAtWork
<1>1. CallInv => HolderAtWork
  BY DEF CallInv
<1> QED BY <1>1, CallInvariance, PTL

(* Once a stop has begun to drain, request_drain admits nothing more: the     *)
(* count of state-changing requests only falls until the process ends or the  *)
(* stop completes, also when the stop times out and is called again.          *)
THEOREM DrainNeverGrows == Spec => DrainsOnlyShrink
<1>1. HInv /\ CallInv /\ [Next]_hmVars => [\A h \in Hosts : DrainShrinks(h)]_hmVars
  BY NextCallInv
<1> QED BY <1>1, HostInvariance, CallInvariance, PTL DEF Spec, DrainsOnlyShrink

=============================================================================
