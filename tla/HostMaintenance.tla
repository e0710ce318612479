-------------------------- MODULE HostMaintenance --------------------------
(***************************************************************************)
(* Backend hosts and maintenance operations on one installation.  A host   *)
(* process serves requests; backup and update rehearsal are command line   *)
(* processes.  They meet in the file system: the operation lock is taken   *)
(* for a start and for a whole maintenance operation, the host-running     *)
(* marker stands from the end of a start to the end of a stop.  Both are   *)
(* directories and survive the process that made them.                     *)
(*                                                                         *)
(* start and stop of one host exclude each other (a reentrant lock of the  *)
(* process); their time-outs may strike at any moment.  Requests are       *)
(* counted per host; only state-changing ones are.                         *)
(***************************************************************************)
EXTENDS Naturals

CONSTANTS
    Hosts,        \* host processes
    Operators,    \* processes that run maintenance operations
    Releases,     \* release trees
    MaxRequests,  \* bound on the concurrent state-changing requests of a host
    None

VARIABLES
    lock,         \* who holds the operation lock
    marker,       \* whose host-running marker is present
    hosts,        \* host -> its process-local state
    ops,          \* operator -> the operation it runs and how far it is
    release,      \* the installed release tree
    snapshot,     \* the release tree kept for an abort
    rehearsal     \* the persisted state of the update rehearsal

hmVars == <<lock, marker, hosts, ops, release, snapshot, rehearsal>>

\* What a crashed process leaves behind, and a tree that was only copied in part
\* (its identity file, the only one that is fingerprinted, may well be there).
HostRemnant == "left by a host"
OpsRemnant  == "left by an operation"
Partial     == "partial"

\* The rehearsal file: absent, one of its two phases, or cut off while written.
NoRehearsal == [phase |-> "none", expected |-> None]
Staged      == [phase |-> "candidate_staged", expected |-> None]
Aborted(r)  == [phase |-> "aborted", expected |-> r]
Invalid     == [phase |-> "invalid", expected |-> None]

ASSUME ProcessAssumption ==
    /\ None \notin Hosts \cup Operators \cup Releases
    /\ Hosts \cap Operators = {}
    /\ {HostRemnant, OpsRemnant} \cap (Hosts \cup Operators \cup {None}) = {}
    /\ Partial \notin Releases \cup {None}

ASSUME BoundAssumption == MaxRequests \in Nat \ {0}

\* A process that has just been created; also what is left of it after a stop.
StoppedHost ==
    [pc |-> "idle", state |-> "stopped", thread |-> "none", tracker |-> "none",
     active |-> 0, ownsMarker |-> FALSE]

IdleOperator == [pc |-> "idle", job |-> "backup"]

HostRecord ==
    [pc         : {"idle", "locked", "waiting", "draining", "joining"},
     state      : {"stopped", "starting", "running", "stopping"},
     thread     : {"none", "starting", "serving"},
     tracker    : {"none", "accepting", "draining"},
     active     : 0..MaxRequests,
     ownsMarker : BOOLEAN]

Jobs == {"backup", "restore", "rehearsal", "abort"}

OperatorRecord ==
    [pc : {"idle", "locked", "dumping", "copying", "replacing", "saving", "restoring"},
     job : Jobs]

(* Every process is in one of its states, and the request count stays between *)
(* zero (no underflow in leave) and the bound.                                *)
HostTypeOK ==
    /\ lock \in Hosts \cup Operators \cup {None, HostRemnant, OpsRemnant}
    /\ marker \in Hosts \cup {None, HostRemnant}
    /\ hosts \in [Hosts -> HostRecord]
    /\ ops \in [Operators -> OperatorRecord]
    /\ release \in Releases \cup {Partial}
    /\ snapshot \in Releases \cup {None, Partial}
    /\ rehearsal \in {NoRehearsal, Staged, Invalid} \cup {Aborted(r) : r \in Releases}

Init ==
    /\ lock = None
    /\ marker = None
    /\ hosts = [h \in Hosts |-> StoppedHost]
    /\ ops = [o \in Operators |-> IdleOperator]
    /\ release \in Releases
    /\ snapshot = None
    /\ rehearsal = NoRehearsal

files == <<release, snapshot, rehearsal>>

\* A call that has ended gives the lock back if it was taken for it.
Unlocked(p) == IF lock = p THEN None ELSE lock

-----------------------------------------------------------------------------
(* Request drain *)

\* Mutant: requests are admitted as long as the server answers.
EnterWhileDraining(h) ==
    /\ hosts[h].thread = "serving"
    /\ hosts[h].active < MaxRequests
    /\ hosts' = [hosts EXCEPT ![h].active = @ + 1]
    /\ UNCHANGED <<lock, marker, ops, files>>

Enter(h) ==
    /\ hosts[h].thread = "serving"
    /\ hosts[h].tracker = "accepting"
    /\ hosts[h].active < MaxRequests
    /\ hosts' = [hosts EXCEPT ![h].active = @ + 1]
    /\ UNCHANGED <<lock, marker, ops, files>>

\* A handler in a worker thread also ends after its server has gone.
Leave(h) ==
    /\ hosts[h].active > 0
    /\ hosts' = [hosts EXCEPT ![h].active = @ - 1]
    /\ UNCHANGED <<lock, marker, ops, files>>

-----------------------------------------------------------------------------
(* Host start *)

StartLock(h) ==
    /\ hosts[h].pc = "idle"
    /\ lock = None
    /\ lock' = h
    /\ hosts' = [hosts EXCEPT ![h].pc = "locked"]
    /\ UNCHANGED <<marker, ops, files>>

\* Mutant: the error path returns without the finally clause.
RefusedKeepsLock(h) ==
    /\ hosts[h].pc = "locked"
    /\ hosts' = [hosts EXCEPT ![h].pc = "idle"]
    /\ UNCHANGED <<lock, marker, ops, files>>

\* Already started, a marker is present, the release is not the expected one,
\* or the configuration, the database or the bootstrap fails.
StartRefused(h) ==
    /\ hosts[h].pc = "locked"
    /\ hosts' = [hosts EXCEPT ![h].pc = "idle"]
    /\ lock' = Unlocked(h)
    /\ UNCHANGED <<marker, ops, files>>

ReleaseExpected ==
    /\ rehearsal \notin {Staged, Invalid}
    /\ rehearsal.phase = "aborted" => release = rehearsal.expected

StartServing(h) ==
    /\ hosts[h].pc = "locked"
    /\ hosts[h].state = "stopped"
    /\ marker = None
    /\ ReleaseExpected
    /\ hosts' = [hosts EXCEPT ![h].pc = "waiting", ![h].state = "starting",
                              ![h].thread = "starting", ![h].tracker = "accepting"]
    /\ UNCHANGED <<lock, marker, ops, files>>

StartSucceeds(h) ==
    /\ hosts[h].pc = "waiting"
    /\ hosts[h].thread = "serving"
    /\ marker = None
    /\ marker' = h
    /\ lock' = Unlocked(h)
    /\ hosts' = [hosts EXCEPT ![h].pc = "idle", ![h].state = "running", ![h].ownsMarker = TRUE]
    /\ UNCHANGED <<ops, files>>

-----------------------------------------------------------------------------
(* Host stop *)

BeginStop(h) ==
    hosts' = [hosts EXCEPT ![h].pc = "draining", ![h].state = "stopping",
                           ![h].tracker = "draining"]

\* The deadline passes, the server thread dies, or the marker cannot be made:
\* start stops the host itself, still holding the lock.
StartFails(h) ==
    /\ hosts[h].pc = "waiting"
    /\ BeginStop(h)
    /\ UNCHANGED <<lock, marker, ops, files>>

Stop(h) ==
    /\ hosts[h].pc = "idle"
    /\ hosts[h].state # "stopped"
    /\ BeginStop(h)
    /\ UNCHANGED <<lock, marker, ops, files>>

DrainDone(h) ==
    /\ hosts[h].pc = "draining"
    /\ hosts[h].active = 0
    /\ hosts' = [hosts EXCEPT ![h].pc = "joining"]
    /\ UNCHANGED <<lock, marker, ops, files>>

\* The host stays in "stopping"; stop may be called again.
StopTimesOut(h) ==
    /\ \/ hosts[h].pc = "draining" /\ hosts[h].active > 0
       \/ hosts[h].pc = "joining" /\ hosts[h].thread # "none"
    /\ hosts' = [hosts EXCEPT ![h].pc = "idle"]
    /\ lock' = Unlocked(h)
    /\ UNCHANGED <<marker, ops, files>>

\* Mutant: the marker is removed whoever made it.
StopRemovesAnyMarker(h) ==
    /\ hosts[h].pc = "joining"
    /\ hosts[h].thread = "none"
    /\ hosts[h].active = 0
    /\ marker' = None
    /\ hosts' = [hosts EXCEPT ![h] = StoppedHost]
    /\ lock' = Unlocked(h)
    /\ UNCHANGED <<ops, files>>

StopCompletes(h) ==
    /\ hosts[h].pc = "joining"
    /\ hosts[h].thread = "none"
    /\ hosts[h].active = 0
    /\ marker' = IF hosts[h].ownsMarker /\ marker = h THEN None ELSE marker
    /\ hosts' = [hosts EXCEPT ![h] = StoppedHost]
    /\ lock' = Unlocked(h)
    /\ UNCHANGED <<ops, files>>

-----------------------------------------------------------------------------
(* The server thread, and crashes of a host process *)

ServerStarted(h) ==
    /\ hosts[h].thread = "starting"
    /\ hosts' = [hosts EXCEPT ![h].thread = "serving"]
    /\ UNCHANGED <<lock, marker, ops, files>>

\* It ends when it was asked to, requests or not, or when it cannot start.
ServerEnds(h) ==
    /\ hosts[h].thread # "none"
    /\ hosts[h].thread = "starting" \/ hosts[h].state = "stopping"
    /\ hosts' = [hosts EXCEPT ![h].thread = "none"]
    /\ UNCHANGED <<lock, marker, ops, files>>

HostCrash(h) ==
    /\ hosts[h] # StoppedHost
    /\ hosts' = [hosts EXCEPT ![h] = StoppedHost]
    /\ lock' = IF lock = h THEN HostRemnant ELSE lock
    /\ marker' = IF marker = h THEN HostRemnant ELSE marker
    /\ UNCHANGED <<ops, files>>

\* Done by hand: no host process is left, so its directories are removed.
RemoveHostRemnants ==
    /\ HostRemnant \in {lock, marker}
    /\ lock' = IF lock = HostRemnant THEN None ELSE lock
    /\ marker' = IF marker = HostRemnant THEN None ELSE marker
    /\ UNCHANGED <<hosts, ops, files>>

-----------------------------------------------------------------------------
(* Backup and update rehearsal *)

Goto(o, pc) == ops' = [ops EXCEPT ![o].pc = pc]

\* Releases the lock whether the operation succeeded or failed.
Finish(o) == ops' = [ops EXCEPT ![o] = IdleOperator] /\ lock' = Unlocked(o)

BeginOperation(o, job) ==
    /\ ops[o].pc = "idle"
    /\ lock = None
    /\ lock' = o
    /\ ops' = [ops EXCEPT ![o] = [pc |-> "locked", job |-> job]]
    /\ UNCHANGED <<marker, hosts, files>>

\* Mutant: the marker is not looked at.
BackupDespiteHost(o) ==
    /\ ops[o].pc = "locked"
    /\ ops[o].job = "backup"
    /\ Goto(o, "dumping")
    /\ UNCHANGED <<lock, marker, hosts, files>>

CreateBackup(o) ==
    /\ ops[o].pc = "locked"
    /\ ops[o].job = "backup"
    /\ marker = None
    /\ Goto(o, "dumping")
    /\ UNCHANGED <<lock, marker, hosts, files>>

\* The database is dumped first, then the files are copied.
DumpDatabase(o) ==
    /\ ops[o].pc = "dumping"
    /\ Goto(o, "copying")
    /\ UNCHANGED <<lock, marker, hosts, files>>

CopyBlobs(o) ==
    /\ ops[o].pc = "copying"
    /\ IF ops[o].job = "backup"
       THEN Finish(o)
       ELSE Goto(o, "replacing") /\ UNCHANGED lock
    /\ UNCHANGED <<marker, hosts, files>>

\* A restore drill writes only to a database and a directory of its own.
RestoreBackupSet(o) ==
    /\ ops[o].pc = "locked"
    /\ ops[o].job = "restore"
    /\ Finish(o)
    /\ UNCHANGED <<marker, hosts, files>>

\* The operation is past its checks and copies or replaces a release tree.
Snapshotting(o) ==
    /\ ops[o].pc = "locked"
    /\ ops[o].job = "rehearsal"
    /\ rehearsal \notin {Staged, Invalid}
    /\ marker = None

Staging(o) == ops[o].pc \in {"replacing", "saving"}

Aborting(o) ==
    /\ ops[o].pc = "locked"
    /\ ops[o].job = "abort"
    /\ rehearsal = Staged

\* Checks, then keeps the installed release and takes a backup under the lock.
StartUpdateRehearsal(o) ==
    /\ Snapshotting(o)
    /\ snapshot' = release
    /\ Goto(o, "dumping")
    /\ UNCHANGED <<lock, marker, hosts, release, rehearsal>>

ReplaceReleaseWithCandidate(o, candidate) ==
    /\ ops[o].pc = "replacing"
    /\ release' = candidate
    /\ Goto(o, "saving")
    /\ UNCHANGED <<lock, marker, hosts, snapshot, rehearsal>>

SaveStagedState(o) ==
    /\ ops[o].pc = "saving"
    /\ rehearsal' = Staged
    /\ Finish(o)
    /\ UNCHANGED <<marker, hosts, release, snapshot>>

\* The kept release is put back before the backup set is restored.
AbortUpdateRehearsal(o) ==
    /\ Aborting(o)
    /\ release' = snapshot
    /\ Goto(o, "restoring")
    /\ UNCHANGED <<lock, marker, hosts, snapshot, rehearsal>>

SaveAbortedState(o) ==
    /\ ops[o].pc = "restoring"
    /\ rehearsal' = Aborted(release)
    /\ Finish(o)
    /\ UNCHANGED <<marker, hosts, release, snapshot>>

\* A copy or a write that does not end leaves its target as it was or in part.
Snapshotted(o) == {snapshot} \cup IF Snapshotting(o) THEN {Partial} ELSE {}
Saved(o) == {rehearsal} \cup IF ops[o].pc \in {"saving", "restoring"} THEN {Invalid} ELSE {}

\* Mutant: a failure while staging leaves the tree as it is.
FailureLeavesCandidate(o) ==
    /\ ops[o].pc # "idle"
    /\ release' \in {release} \cup IF Staging(o) \/ Aborting(o) THEN {Partial} ELSE {}
    /\ snapshot' \in Snapshotted(o)
    /\ rehearsal' \in Saved(o)
    /\ Finish(o)
    /\ UNCHANGED <<marker, hosts>>

\* A check refuses or a step raises.  While staging, the kept release is put
\* back; an abort may fail in the middle of putting it back.
OperationFails(o) ==
    /\ ops[o].pc # "idle"
    /\ release' \in IF Staging(o) THEN {snapshot}
                   ELSE {release} \cup IF Aborting(o) THEN {Partial} ELSE {}
    /\ snapshot' \in Snapshotted(o)
    /\ rehearsal' \in Saved(o)
    /\ Finish(o)
    /\ UNCHANGED <<marker, hosts>>

\* Any tree or file that was being written may be left in part.
OperationCrash(o) ==
    /\ ops[o].pc # "idle"
    /\ release' \in {release} \cup IF Staging(o) \/ Aborting(o) THEN {Partial} ELSE {}
    /\ snapshot' \in Snapshotted(o)
    /\ rehearsal' \in Saved(o)
    /\ ops' = [ops EXCEPT ![o] = IdleOperator]
    /\ lock' = OpsRemnant
    /\ UNCHANGED <<marker, hosts>>

-----------------------------------------------------------------------------
\* What a host call that was begun still does.
HostProgress(h) ==
    \/ StartRefused(h) \/ StartServing(h) \/ StartSucceeds(h) \/ StartFails(h)
    \/ DrainDone(h) \/ StopTimesOut(h) \/ StopCompletes(h)

\* What an operation that was begun still does.
OperationProgress(o) ==
    \/ CreateBackup(o) \/ DumpDatabase(o) \/ CopyBlobs(o)
    \/ RestoreBackupSet(o) \/ StartUpdateRehearsal(o)
    \/ \E candidate \in Releases : ReplaceReleaseWithCandidate(o, candidate)
    \/ SaveStagedState(o)
    \/ AbortUpdateRehearsal(o) \/ SaveAbortedState(o)
    \/ OperationFails(o)

Next ==
    \/ \E h \in Hosts :
          \/ Enter(h) \/ Leave(h)
          \/ StartLock(h) \/ Stop(h) \/ HostProgress(h)
          \/ ServerStarted(h) \/ ServerEnds(h)
          \/ HostCrash(h)
    \/ RemoveHostRemnants
    \/ \E o \in Operators :
          \/ \E job \in Jobs : BeginOperation(o, job)
          \/ OperationProgress(o)
          \/ OperationCrash(o)

Spec == Init /\ [][Next]_hmVars

\* Calls run on (every wait in them has a deadline), and a state-changing
\* handler ends.  Nobody has to start or stop anything.
FairSpec ==
    /\ Spec
    /\ \A h \in Hosts : WF_hmVars(HostProgress(h)) /\ WF_hmVars(Leave(h))
    /\ \A o \in Operators : WF_hmVars(OperationProgress(o))

-----------------------------------------------------------------------------
\* A backup is being taken.
Reading == \E o \in Operators : ops[o].pc \in {"dumping", "copying"}

(* While the database is dumped and the files are copied, no host that has    *)
(* come up executes a state-changing request: not one that is being stopped   *)
(* either, nor one whose stop timed out.                                      *)
QuiescentBackup == Reading => \A h \in Hosts : hosts[h].ownsMarker => hosts[h].active = 0

(* At most one host process has come up and not been stopped: a stop that     *)
(* timed out, or a failed start that is cleaned up later, lets no second one  *)
(* in.                                                                        *)
OneHost == \A h, k \in Hosts : hosts[h].ownsMarker /\ hosts[k].ownsMarker => h = k

(* A host that has come up runs a complete release that is not a staged       *)
(* candidate, and after an aborted rehearsal exactly the one that was put     *)
(* back, whatever failed or crashed during a rehearsal.                       *)
HostRunsExpectedRelease ==
    \A h \in Hosts : hosts[h].ownsMarker => release # Partial /\ ReleaseExpected

(* The release put back by an abort stays installed until the next candidate  *)
(* is staged: a later rehearsal that fails half-way leaves it in place.       *)
AbortIsKept ==
    (rehearsal.phase = "aborted" /\ lock = None) => release = rehearsal.expected

(* Every call that takes the operation lock gives it back, on every path.     *)
LockIsReleased == \A p \in Hosts \cup Operators : lock = p ~> lock # p

(* A drain ends: once it has begun no request is admitted, and the admitted   *)
(* ones finish.                                                               *)
DrainEnds == \A h \in Hosts : hosts[h].tracker = "draining" ~> hosts[h].active = 0

=============================================================================
