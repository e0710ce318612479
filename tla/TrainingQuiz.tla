---------------------------- MODULE TrainingQuiz ----------------------------
(***************************************************************************)
(* Quizzes of the training module (modules/training): quiz files, their    *)
(* binding to document versions, quiz sessions and the users' progress,    *)
(* composed with the read confirmation of the documents module, whose      *)
(* event the training module subscribes to.                                *)
(*                                                                         *)
(* Of the assignment snapshots (TrainingAssignments) a quiz asks only      *)
(* whether there is one.  Every repository call commits on its own: a      *)
(* replacement deactivates the old binding, creates the new one and writes *)
(* the history; a reading or an attempt is recorded first, then the        *)
(* progress row is read, and then written.  One administrator process is   *)
(* modelled; users read and take quizzes through several clients, whose    *)
(* calls overlap with its calls and each other's, and each call may be cut *)
(* short.                                                                  *)
(***************************************************************************)
EXTENDS PdfReading

CONSTANTS Clients,        \* processes in which users read and take quizzes
          Quizzes,        \* quiz files
          QuestionIds,    \* their question ids
          QuizVersion,    \* the document version a file names
          QuestionsPerQuiz, \* questions_per_quiz
          Cooldown,       \* retry_cooldown_seconds > 0
          ForceReread,    \* force_reread_on_fail
          MaxBindings,    \* bound on bindings
          MaxQuizzes,     \* bound on quiz sessions
          MaxAttempts     \* bound on recorded attempts of one user and version

Questions == UNION {QuestionIds[q] : q \in Quizzes}

ASSUME QuizConstants ==
    /\ QuestionIds \in [Quizzes -> SUBSET Questions]
    /\ QuestionsPerQuiz \in Nat \ {0}
    /\ QuizVersion \in [Quizzes -> Nat]
    /\ Cooldown \in BOOLEAN
    /\ ForceReread \in BOOLEAN
    /\ {MaxBindings, MaxQuizzes, MaxAttempts} \subseteq Nat

VARIABLES assigned,      \* users and versions with an assignment snapshot
          imported,      \* training_quiz_imports
          bindings,      \* training_quiz_bindings
          history,       \* training_quiz_replacement_history
          replacing,     \* a replace_quiz_binding under way
          quizSessions,  \* training_quiz_attempts
          progress,      \* training_progress
          calls          \* what each client has still to record, if anything

bindVars == <<imported, bindings, history, replacing>>
quizVars == <<quizSessions, progress, calls>>
vars == <<readVars, assigned, bindVars, quizVars>>

\* No replacement under way.
NoReplacement == [stage |-> "NONE", version |-> 0, quiz |-> "", old |-> 0]

QuizBinding == [version : Versions, quiz : Quizzes, active : BOOLEAN]

QuizSession ==
    [user : Users, version : Versions, questions : SUBSET Questions,
     result : {"STARTED", "FAILED", "PASSED"}]

\* read_confirmed_at, quiz_passed_at, last_failed_at, quiz_attempts_count.
TrainingProgress ==
    [read : BOOLEAN, passed : BOOLEAN, failed : BOOLEAN, attempts : 0 .. MaxAttempts]

NoProgress == [read |-> FALSE, passed |-> FALSE, failed |-> FALSE, attempts |-> 0]

\* A call that has recorded a reading or an attempt and is about to read the
\* progress row, or to write it anew from what it has read.
Call ==
    [stage : {"get", "upsert"}, key : Users \X Versions,
     kind : {"read", "passed", "failed"}, old : TrainingProgress]

NoCall == [stage |-> "idle"]

TypeOK ==
    /\ ReadingTypeOK
    /\ assigned \subseteq Users \X Versions
    /\ imported \subseteq Quizzes
    /\ bindings \in Seq(QuizBinding)
    /\ history \subseteq (DOMAIN bindings) \X (DOMAIN bindings)
    /\ replacing.stage \in {"NONE", "DEACTIVATED", "CREATED"}
    /\ quizSessions \in Seq(QuizSession)
    /\ progress \in [Users \X Versions -> TrainingProgress]
    /\ calls \in [Clients -> Call \cup {NoCall}]

Init ==
    /\ ReadingInit
    /\ assigned = {}
    /\ imported = {}
    /\ bindings = <<>>
    /\ history = {}
    /\ replacing = NoReplacement
    /\ quizSessions = <<>>
    /\ progress = [k \in Users \X Versions |-> NoProgress]
    /\ calls = [c \in Clients |-> NoCall]

-----------------------------------------------------------------------------
(* Reading, and the subscription to domain.documents.read.confirmed.v1. *)

\* The call of client c goes on to record kind in the row of u and v.
Calls(c, u, v, kind) ==
    /\ calls[c] = NoCall
    /\ calls' = [calls EXCEPT ![c] =
           [stage |-> "get", key |-> <<u, v>>, kind |-> kind, old |-> NoProgress]]

\* The confirmation up to the receipt; the event is handled in the same call.
ConfirmRead(c, u, v) ==
    /\ ConfirmReleasedDocumentRead(u, v)
    /\ Calls(c, u, v, "read")
    /\ UNCHANGED <<assigned, bindVars, quizSessions, progress>>

TrackedReading ==
    /\ \/ \E u \in Users, v \in Versions : StartTrackedPdfRead(u, v)
       \/ \E s \in DOMAIN readSessions :
             \/ \E p \in Pages, dwell \in Dwells : RecordPageDwell(s, p, dwell)
             \/ \E crash \in BOOLEAN : Finalize(s, crash)
    /\ UNCHANGED <<assigned, bindVars, quizVars>>

-----------------------------------------------------------------------------
(* Rebuilds of the assignment snapshots, as AssignmentView promises them. *)

View == INSTANCE AssignmentView

RebuildSnapshots ==
    /\ View!DeleteAllSnapshots \/ View!WriteSnapshot
    /\ UNCHANGED <<approved, readSessions, receipts, bindVars, quizVars>>

-----------------------------------------------------------------------------
(* Quiz files and their bindings. *)

\* import_quiz_json: force overrides the version check.
ImportQuizJson(q, force) ==
    /\ replacing = NoReplacement
    /\ QuizVersion[q] = approved \/ force
    /\ imported' = imported \cup {q}
    /\ UNCHANGED <<readVars, assigned, bindings, history,
                   replacing, quizVars>>

ActiveBindings(v) ==
    {i \in DOMAIN bindings : bindings[i].version = v /\ bindings[i].active}

CreateBinding(v, q) ==
    bindings' = Append(bindings, [version |-> v, quiz |-> q, active |-> TRUE])

\* Mutant of BindQuizToDocument: only the same quiz is refused.
BindBesideActive(q, v) ==
    /\ replacing = NoReplacement
    /\ Len(bindings) < MaxBindings
    /\ \A i \in ActiveBindings(v) : bindings[i].quiz # q
    /\ CreateBinding(v, q)
    /\ UNCHANGED <<readVars, assigned, imported, history,
                   replacing, quizVars>>

\* bind_quiz_to_document: refused while a binding is active; the import is
\* not looked up.
BindQuizToDocument(q, v) ==
    /\ replacing = NoReplacement
    /\ Len(bindings) < MaxBindings
    /\ ActiveBindings(v) = {}
    /\ CreateBinding(v, q)
    /\ UNCHANGED <<readVars, assigned, imported, history,
                   replacing, quizVars>>

\* replace_quiz_binding: deactivate ...
ReplaceQuizBinding(v, q) ==
    /\ replacing = NoReplacement
    /\ Len(bindings) < MaxBindings
    /\ \E i \in ActiveBindings(v) :
          /\ bindings' = [bindings EXCEPT ![i].active = FALSE]
          /\ replacing' = [stage |-> "DEACTIVATED", version |-> v, quiz |-> q,
                           old |-> i]
    /\ UNCHANGED <<readVars, assigned, imported, history,
                   quizVars>>

\* ... create the new binding ...
ReplacementCreates ==
    /\ replacing.stage = "DEACTIVATED"
    /\ CreateBinding(replacing.version, replacing.quiz)
    /\ replacing' = [replacing EXCEPT !.stage = "CREATED"]
    /\ UNCHANGED <<readVars, assigned, imported, history,
                   quizVars>>

\* ... and record which one replaced which.
CreateReplacementHistory ==
    /\ replacing.stage = "CREATED"
    /\ history' = history \cup {<<replacing.old, Len(bindings)>>}
    /\ replacing' = NoReplacement
    /\ UNCHANGED <<readVars, assigned, imported, bindings,
                   quizVars>>

\* The process dies in the middle, or its next call fails.
ReplacementInterrupted ==
    /\ replacing # NoReplacement
    /\ replacing' = NoReplacement
    /\ UNCHANGED <<readVars, assigned, imported, bindings, history,
                   quizVars>>

-----------------------------------------------------------------------------
(* Quiz execution. *)

\* load_questions_for_binding: the active binding, and its import must exist.
LoadedQuiz(v) ==
    {bindings[i].quiz : i \in ActiveBindings(v)} \cap imported

\* random.sample of questions_per_quiz questions, or all if there are fewer.
Samples(q) ==
    {s \in SUBSET QuestionIds[q] :
        \/ Cardinality(s) = QuestionsPerQuiz
        \/ s = QuestionIds[q] /\ Cardinality(s) < QuestionsPerQuiz}

\* Mutant of StartQuiz: a progress row is enough.
StartUnread(u, v) ==
    /\ Len(quizSessions) < MaxQuizzes
    /\ <<u, v>> \in assigned
    /\ ~(Cooldown /\ progress[<<u, v>>].failed)
    /\ \E q \in LoadedQuiz(v) :
          \E sample \in Samples(q) :
             quizSessions' = Append(quizSessions,
                 [user |-> u, version |-> v, questions |-> sample, result |-> "STARTED"])
    /\ UNCHANGED <<readVars, assigned, bindVars, progress, calls>>

\* start_quiz: assigned (an exempted user is, too), read, not cooling down.
StartQuiz(u, v) ==
    /\ Len(quizSessions) < MaxQuizzes
    /\ <<u, v>> \in assigned
    /\ progress[<<u, v>>].read
    /\ ~(Cooldown /\ progress[<<u, v>>].failed)
    /\ \E q \in LoadedQuiz(v) :
          \E sample \in Samples(q) :
             quizSessions' = Append(quizSessions,
                 [user |-> u, version |-> v, questions |-> sample, result |-> "STARTED"])
    /\ UNCHANGED <<readVars, assigned, bindVars, progress, calls>>

(***************************************************************************)
(* submit_quiz_answers up to the completed attempt: graded against the     *)
(* quiz bound now, which must have the sampled questions; a session may be *)
(* submitted again.                                                        *)
(***************************************************************************)
SubmitQuizAnswers(c, s, passed) ==
    LET session == quizSessions[s]
    IN  /\ \E q \in LoadedQuiz(session.version) : session.questions \subseteq QuestionIds[q]
        /\ quizSessions' = [quizSessions EXCEPT ![s].result =
                                IF passed THEN "PASSED" ELSE "FAILED"]
        /\ Calls(c, session.user, session.version, IF passed THEN "passed" ELSE "failed")
        /\ UNCHANGED <<readVars, assigned, bindVars, progress>>

\* retry_cooldown_seconds pass: the last failure no longer counts.
CooldownElapses(u, v) ==
    /\ progress[<<u, v>>].failed
    /\ progress' = [progress EXCEPT ![<<u, v>>].failed = FALSE]
    /\ UNCHANGED <<readVars, assigned, bindVars, quizSessions, calls>>

-----------------------------------------------------------------------------
(* Recording the progress.  Nothing keeps the row between the two. *)

\* get_progress; a reading already recorded ends the call.
GetProgress(c) ==
    /\ calls[c].stage = "get"
    /\ LET old == progress[calls[c].key]
       IN  /\ calls[c].kind = "read" \/ old.attempts < MaxAttempts
           /\ calls' = [calls EXCEPT ![c] =
                  IF calls[c].kind = "read" /\ old.read
                     THEN NoCall
                     ELSE [calls[c] EXCEPT !.stage = "upsert", !.old = old]]
    /\ UNCHANGED <<readVars, assigned, bindVars, quizSessions, progress>>

\* _on_read_confirmed keeps the pass and the count and drops last_failed_at.
AfterReading(old) == [old EXCEPT !.read = TRUE, !.failed = FALSE]

\* Mutant of AfterAttempt: the last attempt decides.
LastAttemptDecides(old, passed) ==
    [read     |-> old.read /\ (passed \/ ~ForceReread),
     passed   |-> passed,
     failed   |-> old.failed \/ ~passed,
     attempts |-> old.attempts + 1]

\* What an attempt makes of the progress row.
AfterAttempt(old, passed) ==
    [read     |-> old.read /\ (passed \/ ~ForceReread),
     passed   |-> old.passed \/ passed,
     failed   |-> old.failed \/ ~passed,
     attempts |-> old.attempts + 1]

\* upsert_progress: the row is made from what the call has read.
UpsertProgress(c) ==
    /\ calls[c].stage = "upsert"
    /\ progress' = [progress EXCEPT ![calls[c].key] =
           IF calls[c].kind = "read"
              THEN AfterReading(calls[c].old)
              ELSE AfterAttempt(calls[c].old, calls[c].kind = "passed")]
    /\ calls' = [calls EXCEPT ![c] = NoCall]
    /\ UNCHANGED <<readVars, assigned, bindVars, quizSessions>>

\* The process dies before it has written the row, or the next call fails.
CallInterrupted(c) ==
    /\ calls[c] # NoCall
    /\ calls' = [calls EXCEPT ![c] = NoCall]
    /\ UNCHANGED <<readVars, assigned, bindVars, quizSessions, progress>>

-----------------------------------------------------------------------------
Reading ==
    \/ (ReleaseVersion \/ ArchiveApproved) /\ UNCHANGED <<assigned, bindVars, quizVars>>
    \/ \E c \in Clients, u \in Users, v \in Versions : ConfirmRead(c, u, v)
    \/ TrackedReading

Binding ==
    \/ \E q \in Quizzes, force \in BOOLEAN : ImportQuizJson(q, force)
    \/ \E q \in Quizzes, v \in Versions :
          BindQuizToDocument(q, v) \/ ReplaceQuizBinding(v, q)
    \/ ReplacementCreates
    \/ CreateReplacementHistory
    \/ ReplacementInterrupted

Quizzing ==
    \/ \E u \in Users, v \in Versions : StartQuiz(u, v) \/ CooldownElapses(u, v)
    \/ \E c \in Clients, s \in DOMAIN quizSessions, passed \in BOOLEAN :
          SubmitQuizAnswers(c, s, passed)

Recording == \E c \in Clients : GetProgress(c) \/ UpsertProgress(c) \/ CallInterrupted(c)

Next == Reading \/ RebuildSnapshots \/ Binding \/ Quizzing \/ Recording

Spec == Init /\ [][Next]_vars

-----------------------------------------------------------------------------
(***************************************************************************)
(* Nobody is recorded as trained without having read: a progress row says  *)
(* read, and a passed quiz is recorded, only for a user with a read        *)
(* receipt of exactly that version, and a pass also has a submitted        *)
(* session.  Sessions outlive the assignment, the release and the binding  *)
(* they were started under.  (start_quiz, submit_quiz_answers,             *)
(* _on_read_confirmed)                                                     *)
(***************************************************************************)
PassEarned ==
    \A u \in Users, v \in Versions :
        /\ (progress[<<u, v>>].read \/ progress[<<u, v>>].passed)
              => <<u, v>> \in receipts
        /\ progress[<<u, v>>].passed =>
              \E s \in DOMAIN quizSessions :
                  /\ quizSessions[s].user = u
                  /\ quizSessions[s].version = v
                  /\ quizSessions[s].result # "STARTED"

(***************************************************************************)
(* At most one quiz is active for a version, also when a replacement is    *)
(* cut short and the version bound anew.  The table has no unique index;   *)
(* get_active_binding takes whichever row comes first.                     *)
(***************************************************************************)
OneActiveBinding ==
    \A v \in Versions : Cardinality(ActiveBindings(v)) <= 1

(***************************************************************************)
(* A pass is not lost by failing a later attempt, by submitting the same   *)
(* session again, nor by the new reading a failure forces.  Only a call    *)
(* that had read the row before the pass was written, and writes it        *)
(* afterwards, takes the pass away.  (submit_quiz_answers,                 *)
(* _on_read_confirmed)                                                     *)
(***************************************************************************)
PassIsKept ==
    [][\A k \in Users \X Versions :
           progress[k].passed =>
               \/ progress'[k].passed
               \/ \E c \in Clients :
                     UpsertProgress(c) /\ calls[c].key = k /\ ~calls[c].old.passed]_vars

=============================================================================
