--------------------------- MODULE AssignmentView ---------------------------
(***************************************************************************)
(* What the rest of the training module may rely on about the assignment   *)
(* snapshots: they disappear only all at once (delete_all_snapshots), come *)
(* back one at a time (upsert_snapshot), and only ever name versions that  *)
(* have been released.  TrainingAssignments implements this specification; *)
(* TrainingQuiz is built on it.                                            *)
(***************************************************************************)
EXTENDS Naturals

CONSTANTS Users, MaxVersion

VARIABLES released,  \* the versions of the document released so far
          assigned   \* users and versions with an assignment snapshot

ViewVersions == 1 .. MaxVersion

ViewInit == released = {} /\ assigned = {}

\* Versions are released in any order, each of them once.
Release ==
    /\ \E v \in ViewVersions \ released : released' = released \cup {v}
    /\ UNCHANGED assigned

DeleteAllSnapshots ==
    /\ assigned' = {}
    /\ UNCHANGED released

\* A rebuild that read the catalog before the last release, or before the version
\* was archived, still writes the version it saw.
WriteSnapshot ==
    /\ \E u \in Users, v \in released : assigned' = assigned \cup {<<u, v>>}
    /\ UNCHANGED released

ViewNext == Release \/ DeleteAllSnapshots \/ WriteSnapshot

ViewSpec == ViewInit /\ [][ViewNext]_<<released, assigned>>
=============================================================================
