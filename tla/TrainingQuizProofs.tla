-------------------------- MODULE TrainingQuizProofs --------------------------
(***************************************************************************)
(* Proofs about TrainingQuiz for any users, versions, quiz files, bindings *)
(* and sessions, and any number of clients and of calls cut short: nobody  *)
(* is recorded as trained without having read, a version has at most one   *)
(* active quiz, and a pass is lost only to a call that overlapped with it. *)
(***************************************************************************)
EXTENDS TrainingQuiz, FiniteSetTheorems, TLAPS

\* The replacement under way was started for a version, with a quiz, and for a
\* binding that exists.
ReplacementOK ==
    /\ replacing \in [stage : {"NONE", "DEACTIVATED", "CREATED"}, version : Nat,
                      quiz : Quizzes \cup {""}, old : Nat]
    /\ replacing.stage # "NONE" =>
          /\ replacing.version \in Versions
          /\ replacing.quiz \in Quizzes
          /\ replacing.old \in DOMAIN bindings

\* A submitted session of user and version k.
Submitted(s, k) ==
    /\ quizSessions[s].user = k[1]
    /\ quizSessions[s].version = k[2]
    /\ quizSessions[s].result # "STARTED"

\* A session is started only after reading, and the receipt stays.
SessionsRead ==
    \A s \in DOMAIN quizSessions :
        <<quizSessions[s].user, quizSessions[s].version>> \in receipts

ProgressEarned ==
    \A k \in Users \X Versions :
        /\ progress[k].read \/ progress[k].passed => k \in receipts
        /\ progress[k].passed => \E s \in DOMAIN quizSessions : Submitted(s, k)

\* What a call is about to record has been earned: its user has the receipt and,
\* for an attempt or a pass it has read, a submitted session.
CallOK(c) ==
    calls[c] # NoCall =>
        /\ calls[c].key \in receipts
        /\ calls[c].kind # "read" => \E s \in DOMAIN quizSessions : Submitted(s, calls[c].key)
        /\ calls[c].stage = "upsert" =>
              /\ calls[c].kind # "read" => calls[c].old.attempts < MaxAttempts
              /\ calls[c].old.passed =>
                    \E s \in DOMAIN quizSessions : Submitted(s, calls[c].key)

CallsOK == \A c \in Clients : CallOK(c)

\* Between the two transactions of a replacement the version has no binding,
\* and nobody else can give it one.
BindingsApart ==
    /\ \A i, j \in DOMAIN bindings :
          /\ bindings[i].active
          /\ bindings[j].active
          /\ bindings[i].version = bindings[j].version
          => i = j
    /\ replacing.stage = "DEACTIVATED" => ActiveBindings(replacing.version) = {}

BindingTypeOK ==
    /\ imported \subseteq Quizzes
    /\ bindings \in Seq(QuizBinding)
    /\ history \subseteq (DOMAIN bindings) \X (DOMAIN bindings)
    /\ ReplacementOK

\* The inductive invariant.
QInv ==
    /\ TypeOK
    /\ ReplacementOK
    /\ SessionsRead
    /\ ProgressEarned
    /\ CallsOK
    /\ BindingsApart

-----------------------------------------------------------------------------
(* What each group of steps leaves alone. *)

LEMMA InitQInv == Init => QInv
  <1> SUFFICES ASSUME Init PROVE QInv
    OBVIOUS
  <1> USE DEF Init, ReadingInit
  <1>1. TypeOK
    <2>1. ReadingTypeOK
      BY ReadingConstants DEF ReadingTypeOK
    <2>2. bindings \in Seq(QuizBinding) /\ quizSessions \in Seq(QuizSession)
      OBVIOUS
    <2>3. progress \in [Users \X Versions -> TrainingProgress]
      BY QuizConstants DEF NoProgress, TrainingProgress
    <2>4. replacing.stage \in {"NONE", "DEACTIVATED", "CREATED"}
      BY DEF NoReplacement
    <2>5. calls \in [Clients -> Call \cup {NoCall}]
      OBVIOUS
    <2>6. QED
      BY <2>1, <2>2, <2>3, <2>4, <2>5 DEF TypeOK
  <1>2. ReplacementOK
    BY DEF ReplacementOK, NoReplacement
  <1>3. SessionsRead /\ ProgressEarned /\ CallsOK
    BY DEF SessionsRead, ProgressEarned, NoProgress, CallsOK, CallOK
  <1>4. BindingsApart
    <2>1. replacing.stage = "NONE"
      BY DEF NoReplacement
    <2>2. \A i \in DOMAIN bindings : FALSE
      OBVIOUS
    <2>3. QED
      BY <2>1, <2>2 DEF BindingsApart
  <1>5. QED
    BY <1>1, <1>2, <1>3, <1>4 DEF QInv

\* A step that only reads leaves the quizzes alone; receipts stay.
LEMMA ReadersStep ==
  ASSUME QInv, ReadingTypeOK', receipts \subseteq receipts', assigned' \subseteq Users \X Versions,
         UNCHANGED <<bindVars, quizVars>>
  PROVE  QInv'
  <1> USE DEF QInv, bindVars, quizVars
  <1>1. TypeOK'
    BY DEF TypeOK
  <1>2. ReplacementOK'
    BY DEF ReplacementOK
  <1>3. SessionsRead'
    BY DEF SessionsRead
  <1>4. ProgressEarned'
    BY DEF ProgressEarned, Submitted
  <1>5. CallsOK'
    BY DEF CallsOK, CallOK, Submitted
  <1>6. BindingsApart'
    BY DEF BindingsApart, ActiveBindings
  <1>7. QED
    BY <1>1, <1>2, <1>3, <1>4, <1>5, <1>6

\* A step of the administrator leaves receipts, sessions and progress alone.
LEMMA BindingStep ==
  ASSUME QInv, BindingTypeOK', BindingsApart',
         UNCHANGED <<readVars, assigned, quizVars>>
  PROVE  QInv'
  <1> USE DEF QInv, readVars, releases, quizVars, BindingTypeOK
  <1>1. TypeOK'
    BY DEF TypeOK, ReadingTypeOK, ReplacementOK
  <1>2. ReplacementOK'
    BY DEF ReplacementOK
  <1>3. SessionsRead' /\ ProgressEarned'
    BY DEF SessionsRead, ProgressEarned, Submitted
  <1>4. CallsOK'
    BY DEF CallsOK, CallOK, Submitted
  <1>5. QED
    BY <1>1, <1>2, <1>3, <1>4

\* A step on sessions, progress and calls leaves the bindings alone.
LEMMA QuizStep ==
  ASSUME QInv, quizSessions' \in Seq(QuizSession),
         progress' \in [Users \X Versions -> TrainingProgress],
         calls' \in [Clients -> Call \cup {NoCall}],
         SessionsRead', ProgressEarned', CallsOK',
         UNCHANGED releases, readSessions' = readSessions, receipts \subseteq receipts',
         receipts' \subseteq Users \X Versions,
         UNCHANGED <<assigned, bindVars>>
  PROVE  QInv'
  <1> USE DEF QInv, bindVars
  <1>1. TypeOK'
    BY DEF TypeOK, ReadingTypeOK, releases
  <1>2. ReplacementOK'
    BY DEF ReplacementOK
  <1>3. BindingsApart'
    BY DEF BindingsApart, ActiveBindings
  <1>4. QED
    BY <1>1, <1>2, <1>3

\* What a step of client c does to the calls.
LEMMA OneCall ==
  ASSUME TypeOK, NEW c \in Clients, NEW x \in Call \cup {NoCall},
         calls' = [calls EXCEPT ![c] = x]
  PROVE  /\ calls' \in [Clients -> Call \cup {NoCall}] /\ calls'[c] = x
         /\ \A d \in Clients : d # c => calls'[d] = calls[d]
  BY DEF TypeOK

LEMMA CallKinds ==
  ASSUME QInv, NEW c \in Clients
  PROVE  /\ calls[c] \in Call \cup {NoCall}
         /\ calls[c] \in Call => /\ calls[c].key \in Users \X Versions
                                /\ calls[c].kind \in {"read", "passed", "failed"}
                                /\ calls[c].old \in TrainingProgress
         /\ calls[c].stage \in {"get", "upsert"} => calls[c] \in Call /\ calls[c] # NoCall
  <1>1. calls[c] \in Call \cup {NoCall}
    BY DEF QInv, TypeOK
  <1>2. NoCall.stage = "idle"
    BY DEF NoCall
  <1>3. QED
    BY <1>1, <1>2 DEF Call

-----------------------------------------------------------------------------
(* Reading. *)

LEMMA ReleaseQInv ==
  ASSUME QInv, ReleaseVersion \/ ArchiveApproved, UNCHANGED <<assigned, bindVars, quizVars>>
  PROVE  QInv'
  <1>1. ReadingTypeOK'
    <2>1. CASE ReleaseVersion
      BY <2>1, ReadingConstants DEF QInv, TypeOK, ReadingTypeOK, ReleaseVersion, Versions
    <2>2. CASE ArchiveApproved
      BY <2>2, ReadingConstants DEF QInv, TypeOK, ReadingTypeOK, ArchiveApproved, Versions
    <2>3. QED
      BY <2>1, <2>2
  <1>2. QED
    BY <1>1, ReadersStep DEF QInv, TypeOK, ReleaseVersion, ArchiveApproved

LEMMA TrackedReadingQInv ==
  ASSUME QInv, TrackedReading
  PROVE  QInv'
  <1> USE DEF QInv, TypeOK, ReadingTypeOK, releases
  <1>1. ASSUME NEW u \in Users, NEW v \in Versions, StartTrackedPdfRead(u, v)
        PROVE  ReadingTypeOK' /\ receipts' = receipts
    <2> DEFINE row == [user |-> u, version |-> v, seconds |-> [p \in Pages |-> 0],
                       result |-> "OPEN"]
    <2>1. row \in TrackedPdfReadSession
      BY ReadingConstants DEF TrackedPdfReadSession
    <2>2. readSessions' = Append(readSessions, row)
      BY <1>1 DEF StartTrackedPdfRead
    <2> HIDE DEF row
    <2>3. readSessions' \in Seq(TrackedPdfReadSession)
      BY <2>1, <2>2
    <2>4. QED
      BY <1>1, <2>3 DEF StartTrackedPdfRead
  <1>2. ASSUME NEW s \in DOMAIN readSessions, NEW p \in Pages, NEW dwell \in Dwells,
               RecordPageDwell(s, p, dwell)
        PROVE  ReadingTypeOK' /\ receipts' = receipts
    <2> DEFINE sum == readSessions[s].seconds[p] + dwell
               capped == IF sum >= Threshold THEN Threshold ELSE sum
               pages == [readSessions[s].seconds EXCEPT ![p] = capped]
               row == [readSessions[s] EXCEPT !.seconds = pages]
    <2>1. readSessions[s] \in TrackedPdfReadSession
      OBVIOUS
    <2>2. capped \in 0 .. Threshold
      <3>1. readSessions[s].seconds[p] \in 0 .. Threshold
        BY <2>1 DEF TrackedPdfReadSession
      <3>2. dwell \in Nat /\ Threshold \in Nat
        BY ReadingConstants
      <3>3. QED
        BY <3>1, <3>2
    <2> HIDE DEF capped
    <2>3. pages \in [Pages -> 0 .. Threshold]
      BY <2>1, <2>2 DEF TrackedPdfReadSession
    <2>4. readSessions' = [readSessions EXCEPT ![s] = row]
      BY <1>2, Zenon DEF RecordPageDwell, capped
    <2> HIDE DEF pages
    <2>5. row \in TrackedPdfReadSession
      BY <2>1, <2>3 DEF TrackedPdfReadSession
    <2> HIDE DEF row
    <2>6. readSessions' \in Seq(TrackedPdfReadSession)
      BY <2>4, <2>5
    <2>7. QED
      BY <1>2, <2>6 DEF RecordPageDwell
  <1>3. ASSUME NEW s \in DOMAIN readSessions, NEW crash \in BOOLEAN, Finalize(s, crash)
        PROVE  ReadingTypeOK' /\ receipts \subseteq receipts'
    <2> DEFINE result == IF IsComplete(s) THEN "COMPLETE" ELSE "INCOMPLETE"
               row == [readSessions[s] EXCEPT !.result = result]
    <2>1. readSessions[s] \in TrackedPdfReadSession
      OBVIOUS
    <2>2. readSessions' = [readSessions EXCEPT ![s] = row]
      BY <1>3, Zenon DEF Finalize
    <2>3. result \in {"INCOMPLETE", "COMPLETE"}
      OBVIOUS
    <2> HIDE DEF result
    <2>4. row \in TrackedPdfReadSession
      BY <2>1, <2>3 DEF TrackedPdfReadSession
    <2> HIDE DEF row
    <2>5. readSessions' \in Seq(TrackedPdfReadSession)
      BY <2>2, <2>4
    <2>6. receipts' \subseteq Users \X Versions /\ receipts \subseteq receipts'
      BY <1>3, <2>1 DEF Finalize, CreateReadReceipt, TrackedPdfReadSession
    <2>7. QED
      BY <1>3, <2>5, <2>6 DEF Finalize
  <1>4. ReadingTypeOK' /\ receipts \subseteq receipts'
    <2> HIDE DEF QInv, TypeOK, ReadingTypeOK
    <2> QED
      BY <1>1, <1>2, <1>3 DEF TrackedReading
  <1>5. UNCHANGED <<assigned, bindVars, quizVars>>
    BY DEF TrackedReading
  <1>6. QED
    BY <1>4, <1>5, ReadersStep

\* The receipt is written before the event is handled.
LEMMA ConfirmReadQInv ==
  ASSUME QInv, NEW c \in Clients, NEW u \in Users, NEW v \in Versions, ConfirmRead(c, u, v)
  PROVE  QInv'
  <1> USE DEF QInv
  <1> DEFINE call == [stage |-> "get", key |-> <<u, v>>, kind |-> "read", old |-> NoProgress]
  <1>1. /\ receipts' = receipts \cup {<<u, v>>}
        /\ UNCHANGED releases /\ readSessions' = readSessions
        /\ UNCHANGED <<assigned, bindVars, quizSessions, progress>>
    BY DEF ConfirmRead, ConfirmReleasedDocumentRead, CreateReadReceipt
  <1>2. receipts' \subseteq Users \X Versions
    BY <1>1 DEF TypeOK, ReadingTypeOK
  <1>3. call \in Call /\ call.key = <<u, v>> /\ call.kind = "read" /\ call.stage = "get"
    BY QuizConstants DEF Call, NoProgress, TrainingProgress
  <1>4. calls' = [calls EXCEPT ![c] = call]
    BY DEF ConfirmRead, Calls
  <1> HIDE DEF call
  <1>5. /\ calls' \in [Clients -> Call \cup {NoCall}] /\ calls'[c] = call
        /\ \A d \in Clients : d # c => calls'[d] = calls[d]
    BY <1>3, <1>4, OneCall
  <1>6. SessionsRead'
    BY <1>1 DEF SessionsRead
  <1>7. ProgressEarned'
    BY <1>1 DEF ProgressEarned, Submitted
  <1>8. CallsOK'
    <2>1. CallOK(c)'
      BY <1>1, <1>3, <1>5 DEF CallOK
    <2>2. \A d \in Clients : d # c => CallOK(d)'
      <3>1. SUFFICES ASSUME NEW d \in Clients, d # c PROVE CallOK(d)'
        OBVIOUS
      <3>2. CallOK(d) /\ calls'[d] = calls[d]
        BY <1>5, <3>1 DEF CallsOK
      <3>3. QED
        BY <1>1, <3>2, Zenon DEF CallOK, Submitted
    <2>3. QED
      BY <2>1, <2>2 DEF CallsOK
  <1>9. QED
    BY <1>1, <1>2, <1>5, <1>6, <1>7, <1>8, QuizStep DEF TypeOK

LEMMA RebuildSnapshotsQInv ==
  ASSUME QInv, RebuildSnapshots
  PROVE  QInv'
  <1>1. assigned' \subseteq Users \X Versions
    BY DEF QInv, TypeOK, ReadingTypeOK, RebuildSnapshots, View!DeleteAllSnapshots,
       View!WriteSnapshot
  <1>2. released' = released
    BY DEF RebuildSnapshots, View!DeleteAllSnapshots, View!WriteSnapshot
  <1>3. ReadingTypeOK' /\ receipts' = receipts
    BY <1>2 DEF QInv, TypeOK, ReadingTypeOK, RebuildSnapshots
  <1>4. QED
    BY <1>1, <1>3, ReadersStep DEF RebuildSnapshots

-----------------------------------------------------------------------------
(* Binding. *)

\* A new binding does not get beside an active one of its version.
LEMMA NewBindingApart ==
  ASSUME QInv, NEW v \in Versions, NEW q \in Quizzes, CreateBinding(v, q),
         ActiveBindings(v) = {}
  PROVE  /\ bindings' \in Seq(QuizBinding)
         /\ Len(bindings') = Len(bindings) + 1
         /\ DOMAIN bindings \subseteq DOMAIN bindings'
         /\ \A i, j \in DOMAIN bindings' :
               /\ bindings'[i].active
               /\ bindings'[j].active
               /\ bindings'[i].version = bindings'[j].version
               => i = j
  <1> DEFINE row == [version |-> v, quiz |-> q, active |-> TRUE]
  <1>1. row \in QuizBinding /\ row.version = v
    BY DEF QuizBinding
  <1>2. bindings \in Seq(QuizBinding) /\ bindings' = Append(bindings, row)
    BY DEF QInv, TypeOK, CreateBinding
  <1> HIDE DEF row
  <1>3. /\ bindings' \in Seq(QuizBinding)
        /\ Len(bindings') = Len(bindings) + 1
        /\ DOMAIN bindings' = 1 .. Len(bindings) + 1
        /\ DOMAIN bindings = 1 .. Len(bindings)
    BY <1>1, <1>2
  <1>4. \A i \in DOMAIN bindings : bindings'[i] = bindings[i]
    BY <1>2
  <1>5. bindings'[Len(bindings) + 1] = row
    BY <1>2
  <1>6. \A i \in DOMAIN bindings : ~(bindings[i].active /\ bindings[i].version = v)
    BY DEF ActiveBindings
  <1>7. ASSUME NEW i \in DOMAIN bindings', NEW j \in DOMAIN bindings',
               bindings'[i].active, bindings'[j].active,
               bindings'[i].version = bindings'[j].version
        PROVE  i = j
    <2>1. CASE i \in DOMAIN bindings /\ j \in DOMAIN bindings
      BY <1>4, <1>7, <2>1 DEF QInv, BindingsApart
    <2>2. CASE i \notin DOMAIN bindings /\ j \notin DOMAIN bindings
      BY <1>2, <1>3, <2>2
    <2>3. CASE i \in DOMAIN bindings /\ j \notin DOMAIN bindings
      <3>1. j = Len(bindings) + 1
        BY <1>2, <1>3, <2>3
      <3>2. QED
        BY <1>1, <1>4, <1>5, <1>6, <1>7, <2>3, <3>1
    <2>4. CASE i \notin DOMAIN bindings /\ j \in DOMAIN bindings
      <3>1. i = Len(bindings) + 1
        BY <1>2, <1>3, <2>4
      <3>2. QED
        BY <1>1, <1>4, <1>5, <1>6, <1>7, <2>4, <3>1
    <2>5. QED
      BY <2>1, <2>2, <2>3, <2>4
  <1>8. DOMAIN bindings \subseteq DOMAIN bindings'
    BY <1>2, <1>3
  <1>9. QED
    BY <1>3, <1>7, <1>8

LEMMA BindQuizQInv ==
  ASSUME QInv, NEW q \in Quizzes, NEW v \in Versions, BindQuizToDocument(q, v)
  PROVE  QInv'
  <1>1. UNCHANGED <<readVars, assigned, imported, history, replacing, quizVars>>
    BY DEF BindQuizToDocument
  <1>2. replacing.stage = "NONE"
    BY DEF BindQuizToDocument, NoReplacement
  <1>3. /\ bindings' \in Seq(QuizBinding)
        /\ DOMAIN bindings \subseteq DOMAIN bindings'
        /\ \A i, j \in DOMAIN bindings' :
               /\ bindings'[i].active
               /\ bindings'[j].active
               /\ bindings'[i].version = bindings'[j].version
               => i = j
    BY NewBindingApart DEF BindQuizToDocument
  <1>4. BindingsApart'
    BY <1>1, <1>2, <1>3 DEF BindingsApart
  <1>5. BindingTypeOK'
    BY <1>1, <1>2, <1>3 DEF QInv, TypeOK, BindingTypeOK, ReplacementOK
  <1>6. QED
    BY <1>1, <1>4, <1>5, BindingStep

LEMMA ReplaceQInv ==
  ASSUME QInv, NEW v \in Versions, NEW q \in Quizzes, ReplaceQuizBinding(v, q)
  PROVE  QInv'
  <1>1. PICK i \in ActiveBindings(v) :
            /\ bindings' = [bindings EXCEPT ![i].active = FALSE]
            /\ replacing' = [stage |-> "DEACTIVATED", version |-> v, quiz |-> q, old |-> i]
    BY DEF ReplaceQuizBinding
  <1>2. UNCHANGED <<readVars, assigned, imported, history, quizVars>>
    BY DEF ReplaceQuizBinding
  <1>3. i \in DOMAIN bindings /\ bindings[i].version = v /\ bindings[i].active
    BY DEF ActiveBindings
  <1>4. bindings[i] \in QuizBinding /\ bindings \in Seq(QuizBinding) /\ i \in Nat
    BY <1>3 DEF QInv, TypeOK
  <1> DEFINE row == [bindings[i] EXCEPT !.active = FALSE]
  <1>5. row \in QuizBinding /\ ~row.active
    BY <1>4 DEF QuizBinding
  <1>6. bindings' = [bindings EXCEPT ![i] = row]
    BY <1>1
  <1> HIDE DEF row
  <1>7. bindings' \in Seq(QuizBinding) /\ DOMAIN bindings' = DOMAIN bindings
    BY <1>3, <1>4, <1>5, <1>6
  <1>8. /\ ~bindings'[i].active
        /\ \A j \in DOMAIN bindings : j # i => bindings'[j] = bindings[j]
    BY <1>3, <1>4, <1>5, <1>6
  <1>9. BindingsApart'
    <2>1. \A j, k \in DOMAIN bindings' :
             /\ bindings'[j].active
             /\ bindings'[k].active
             /\ bindings'[j].version = bindings'[k].version
             => j = k
      BY <1>7, <1>8 DEF QInv, BindingsApart
    <2>2. \A j \in DOMAIN bindings' :
             ~(bindings'[j].version = v /\ bindings'[j].active)
      BY <1>3, <1>7, <1>8 DEF QInv, BindingsApart
    <2>3. replacing'.version = v
      BY <1>1
    <2>4. ActiveBindings(replacing.version)' = {}
      BY <2>2, <2>3 DEF ActiveBindings
    <2>5. QED
      BY <2>1, <2>4 DEF BindingsApart
  <1>10. BindingTypeOK'
    <2>1. ReplacementOK'
      <3>1. v \in Nat /\ i \in Nat
        BY <1>4, ReadingConstants DEF Versions
      <3>2. QED
        BY <1>1, <1>3, <1>7, <3>1 DEF ReplacementOK, Versions
    <2>2. QED
      BY <1>2, <1>7, <2>1 DEF QInv, TypeOK, BindingTypeOK
  <1>11. QED
    BY <1>2, <1>9, <1>10, BindingStep

LEMMA ReplacementCreatesQInv ==
  ASSUME QInv, ReplacementCreates
  PROVE  QInv'
  <1>1. UNCHANGED <<readVars, assigned, imported, history, quizVars>>
    BY DEF ReplacementCreates
  <1>2. /\ replacing.stage = "DEACTIVATED"
        /\ replacing.version \in Versions
        /\ replacing.quiz \in Quizzes
        /\ replacing.old \in DOMAIN bindings
        /\ ActiveBindings(replacing.version) = {}
    BY DEF ReplacementCreates, QInv, ReplacementOK, BindingsApart
  <1>3. CreateBinding(replacing.version, replacing.quiz)
    BY DEF ReplacementCreates
  <1>4. /\ bindings' \in Seq(QuizBinding)
        /\ DOMAIN bindings \subseteq DOMAIN bindings'
        /\ \A i, j \in DOMAIN bindings' :
               /\ bindings'[i].active
               /\ bindings'[j].active
               /\ bindings'[i].version = bindings'[j].version
               => i = j
    BY <1>2, <1>3, NewBindingApart
  <1>5. replacing' = [replacing EXCEPT !.stage = "CREATED"]
    BY DEF ReplacementCreates
  <1>6. /\ replacing' \in [stage : {"NONE", "DEACTIVATED", "CREATED"}, version : Nat,
                            quiz : Quizzes \cup {""}, old : Nat]
        /\ replacing'.stage = "CREATED"
        /\ replacing'.version = replacing.version
        /\ replacing'.quiz = replacing.quiz
        /\ replacing'.old = replacing.old
    BY <1>5 DEF QInv, ReplacementOK
  <1>7. BindingsApart'
    BY <1>4, <1>6 DEF BindingsApart
  <1>8. BindingTypeOK'
    BY <1>1, <1>2, <1>4, <1>6 DEF QInv, TypeOK, BindingTypeOK, ReplacementOK, Versions
  <1>9. QED
    BY <1>1, <1>7, <1>8, BindingStep

\* The other calls of the administrator create and change no binding.
LEMMA OtherBindingQInv ==
  ASSUME QInv,
         \/ \E q \in Quizzes, force \in BOOLEAN : ImportQuizJson(q, force)
         \/ CreateReplacementHistory
         \/ ReplacementInterrupted
  PROVE  QInv'
  <1>1. UNCHANGED <<readVars, assigned, bindings, quizVars>>
    BY DEF ImportQuizJson, CreateReplacementHistory, ReplacementInterrupted
  <1>2. replacing' = NoReplacement
    BY DEF ImportQuizJson, CreateReplacementHistory, ReplacementInterrupted
  <1>3. BindingsApart'
    BY <1>1, <1>2 DEF QInv, BindingsApart, NoReplacement
  <1>4. imported' \subseteq Quizzes
    BY DEF QInv, TypeOK, ImportQuizJson, CreateReplacementHistory, ReplacementInterrupted
  <1>5. history' \subseteq (DOMAIN bindings) \X (DOMAIN bindings)
    <2>1. CASE CreateReplacementHistory
      <3>1. replacing.old \in DOMAIN bindings
        BY <2>1 DEF CreateReplacementHistory, QInv, ReplacementOK
      <3>2. bindings \in Seq(QuizBinding)
        BY DEF QInv, TypeOK
      <3>3. Len(bindings) \in DOMAIN bindings
        BY <3>1, <3>2
      <3>4. QED
        BY <2>1, <3>1, <3>3 DEF CreateReplacementHistory, QInv, TypeOK
    <2>2. CASE ~CreateReplacementHistory
      BY <2>2 DEF QInv, TypeOK, ImportQuizJson, ReplacementInterrupted
    <2>3. QED
      BY <2>1, <2>2
  <1>6. BindingTypeOK'
    BY <1>1, <1>2, <1>4, <1>5 DEF QInv, TypeOK, BindingTypeOK, ReplacementOK, NoReplacement
  <1>7. QED
    BY <1>1, <1>3, <1>6, BindingStep

-----------------------------------------------------------------------------
(* Quizzes. *)

\* A session is started by a user whose reading is recorded.
LEMMA StartQuizQInv ==
  ASSUME QInv, NEW u \in Users, NEW v \in Versions, StartQuiz(u, v)
  PROVE  QInv'
  <1> USE DEF QInv
  <1>0. PICK q \in LoadedQuiz(v) :
            \E sample \in Samples(q) :
               quizSessions' = Append(quizSessions,
                   [user |-> u, version |-> v, questions |-> sample, result |-> "STARTED"])
    BY DEF StartQuiz
  <1>1. PICK sample \in Samples(q) :
            quizSessions' = Append(quizSessions,
                [user |-> u, version |-> v, questions |-> sample, result |-> "STARTED"])
    BY <1>0
  <1>2. UNCHANGED <<readVars, assigned, bindVars, progress, calls>>
    BY DEF StartQuiz
  <1>3. sample \subseteq Questions
    <2>1. q \in Quizzes
      BY DEF LoadedQuiz, TypeOK
    <2>2. QED
      BY <2>1, QuizConstants DEF Samples
  <1> DEFINE row == [user |-> u, version |-> v, questions |-> sample, result |-> "STARTED"]
  <1>4. row \in QuizSession /\ row.user = u /\ row.version = v
    BY <1>3 DEF QuizSession
  <1>5. quizSessions \in Seq(QuizSession) /\ quizSessions' = Append(quizSessions, row)
    BY <1>1 DEF TypeOK
  <1> HIDE DEF row
  <1>6. /\ quizSessions' \in Seq(QuizSession)
        /\ DOMAIN quizSessions' = DOMAIN quizSessions \cup {Len(quizSessions) + 1}
        /\ quizSessions'[Len(quizSessions) + 1] = row
        /\ \A s \in DOMAIN quizSessions : quizSessions'[s] = quizSessions[s]
    BY <1>4, <1>5
  <1>7. <<u, v>> \in receipts
    <2>1. <<u, v>> \in Users \X Versions /\ progress[<<u, v>>].read
      BY DEF StartQuiz
    <2>2. QED
      BY <2>1 DEF ProgressEarned
  <1>8. SessionsRead'
    BY <1>2, <1>4, <1>6, <1>7 DEF SessionsRead, readVars
  <1>9. ProgressEarned'
    BY <1>2, <1>6 DEF ProgressEarned, Submitted, readVars
  <1>10. CallsOK'
    BY <1>2, <1>6 DEF CallsOK, CallOK, Submitted, readVars
  <1>11. /\ progress' \in [Users \X Versions -> TrainingProgress]
         /\ calls' \in [Clients -> Call \cup {NoCall}]
         /\ receipts' \subseteq Users \X Versions
         /\ UNCHANGED releases /\ readSessions' = readSessions /\ receipts' = receipts
         /\ UNCHANGED <<assigned, bindVars>>
    BY <1>2 DEF TypeOK, ReadingTypeOK, readVars
  <1>12. QED
    BY <1>6, <1>8, <1>9, <1>10, <1>11, QuizStep

\* The progress row of an attempt.
LEMMA AfterAttemptRow ==
  ASSUME NEW old \in TrainingProgress, old.attempts < MaxAttempts, NEW passed \in BOOLEAN
  PROVE  /\ AfterAttempt(old, passed) \in TrainingProgress
         /\ AfterAttempt(old, passed).read => old.read
         /\ old.passed => AfterAttempt(old, passed).passed
  <1>1. old.attempts + 1 \in 0 .. MaxAttempts
    BY QuizConstants DEF TrainingProgress
  <1>2. QED
    BY <1>1, QuizConstants DEF AfterAttempt, TrainingProgress

\* What is submitted belongs to a session whose user has read the version.
LEMMA SubmitQInv ==
  ASSUME QInv, NEW c \in Clients, NEW s \in DOMAIN quizSessions, NEW passed \in BOOLEAN,
         SubmitQuizAnswers(c, s, passed)
  PROVE  QInv'
  <1> USE DEF QInv
  <1>1. quizSessions[s] \in QuizSession
    BY DEF TypeOK
  <1>2. PICK key \in Users \X Versions :
            key = <<quizSessions[s].user, quizSessions[s].version>> /\ key \in receipts
    BY <1>1 DEF QuizSession, SessionsRead
  <1> DEFINE result == IF passed THEN "PASSED" ELSE "FAILED"
             row == [quizSessions[s] EXCEPT !.result = result]
             kind == IF passed THEN "passed" ELSE "failed"
             call == [stage |-> "get", key |-> key, kind |-> kind, old |-> NoProgress]
  <1>3. result \in {"PASSED", "FAILED"} /\ kind \in {"passed", "failed"}
    OBVIOUS
  <1>4. quizSessions' = [quizSessions EXCEPT ![s] = row]
    BY Zenon DEF SubmitQuizAnswers
  <1>5. calls' = [calls EXCEPT ![c] = call]
    BY <1>2 DEF SubmitQuizAnswers, Calls
  <1>6. UNCHANGED <<readVars, assigned, bindVars, progress>>
    BY DEF SubmitQuizAnswers
  <1> HIDE DEF result, kind
  <1>7. call \in Call /\ call.key = key /\ call.stage = "get"
    BY <1>2, <1>3, QuizConstants DEF Call, NoProgress, TrainingProgress
  <1> HIDE DEF call
  <1>8. /\ calls' \in [Clients -> Call \cup {NoCall}] /\ calls'[c] = call
        /\ \A d \in Clients : d # c => calls'[d] = calls[d]
    BY <1>5, <1>7, OneCall
  <1>9. row \in QuizSession /\ row.user = quizSessions[s].user
        /\ row.version = quizSessions[s].version /\ row.result # "STARTED"
    BY <1>1, <1>3 DEF QuizSession
  <1> HIDE DEF row
  <1>10. /\ quizSessions' \in Seq(QuizSession)
         /\ DOMAIN quizSessions' = DOMAIN quizSessions
         /\ quizSessions'[s] = row
         /\ \A t \in DOMAIN quizSessions : t # s => quizSessions'[t] = quizSessions[t]
    BY <1>4, <1>9 DEF TypeOK
  <1>11. /\ Submitted(s, key)'
         /\ \A t \in DOMAIN quizSessions, k \in Users \X Versions :
               Submitted(t, k) => Submitted(t, k)'
    <2>1. quizSessions[s].user = key[1] /\ quizSessions[s].version = key[2]
      BY <1>2
    <2>2. quizSessions'[s].user = quizSessions[s].user
          /\ quizSessions'[s].version = quizSessions[s].version
          /\ quizSessions'[s].result # "STARTED"
      BY <1>9, <1>10
    <2>3. Submitted(s, key)'
      BY <2>1, <2>2 DEF Submitted
    <2>4. ASSUME NEW t \in DOMAIN quizSessions, NEW k \in Users \X Versions, Submitted(t, k)
          PROVE  Submitted(t, k)'
      <3>1. CASE t = s
        BY <2>2, <2>4, <3>1 DEF Submitted
      <3>2. CASE t # s
        BY <1>10, <2>4, <3>2 DEF Submitted
      <3>3. QED
        BY <3>1, <3>2
    <2>5. QED
      BY <2>3, <2>4
  <1>12. SessionsRead'
    BY <1>6, <1>9, <1>10 DEF SessionsRead, readVars
  <1>13. ProgressEarned'
    BY <1>6, <1>10, <1>11 DEF ProgressEarned, readVars
  <1>14. CallsOK'
    <2> SUFFICES ASSUME NEW d \in Clients PROVE CallOK(d)'
      BY DEF CallsOK
    <2>1. CASE d = c
      BY <1>2, <1>6, <1>7, <1>8, <1>10, <1>11, <2>1 DEF CallOK, readVars
    <2>2. CASE d # c
      <3>1. CallOK(d) /\ calls'[d] = calls[d]
        BY <1>8, <2>2 DEF CallsOK
      <3>2. calls[d] # NoCall => calls[d].key \in Users \X Versions
        BY CallKinds
      <3>3. QED
        BY <1>6, <1>10, <1>11, <3>1, <3>2 DEF CallOK, readVars
    <2>3. QED
      BY <2>1, <2>2
  <1>15. /\ UNCHANGED releases /\ readSessions' = readSessions /\ receipts' = receipts
         /\ receipts' \subseteq Users \X Versions
         /\ progress' \in [Users \X Versions -> TrainingProgress]
         /\ UNCHANGED <<assigned, bindVars>>
    BY <1>6 DEF readVars, TypeOK, ReadingTypeOK
  <1>16. QED
    BY <1>8, <1>10, <1>12, <1>13, <1>14, <1>15, QuizStep

LEMMA CooldownQInv ==
  ASSUME QInv, NEW u \in Users, NEW v \in Versions, CooldownElapses(u, v)
  PROVE  /\ QInv'
         /\ \A k \in Users \X Versions : progress'[k].passed = progress[k].passed
  <1> USE DEF QInv
  <1> DEFINE key == <<u, v>>
             row == [progress[key] EXCEPT !.failed = FALSE]
  <1>1. progress' = [progress EXCEPT ![key] = row]
    BY DEF CooldownElapses
  <1>2. key \in Users \X Versions /\ progress[key] \in TrainingProgress
    BY DEF TypeOK
  <1>3. /\ row \in TrainingProgress
        /\ row.read = progress[key].read
        /\ row.passed = progress[key].passed
    BY <1>2 DEF TrainingProgress
  <1> HIDE DEF key, row
  <1>4. progress' \in [Users \X Versions -> TrainingProgress]
    BY <1>1, <1>2, <1>3 DEF TypeOK
  <1>5. \A k \in Users \X Versions :
           progress'[k].read = progress[k].read /\ progress'[k].passed = progress[k].passed
    BY <1>1, <1>2, <1>3 DEF TypeOK
  <1>6. UNCHANGED <<readVars, assigned, bindVars, quizSessions, calls>>
    BY DEF CooldownElapses
  <1>7. SessionsRead'
    BY <1>6 DEF SessionsRead, readVars
  <1>8. ProgressEarned'
    BY <1>5, <1>6 DEF ProgressEarned, Submitted, readVars
  <1>9. CallsOK'
    BY <1>6 DEF CallsOK, CallOK, Submitted, readVars
  <1>10. /\ quizSessions' \in Seq(QuizSession)
         /\ calls' \in [Clients -> Call \cup {NoCall}]
         /\ UNCHANGED releases /\ readSessions' = readSessions /\ receipts' = receipts
         /\ receipts' \subseteq Users \X Versions
         /\ UNCHANGED <<assigned, bindVars>>
    BY <1>6 DEF readVars, TypeOK, ReadingTypeOK
  <1>11. QInv'
    BY <1>4, <1>7, <1>8, <1>9, <1>10, QuizStep
  <1>12. QED
    BY <1>5, <1>11

-----------------------------------------------------------------------------
(* Recording the progress. *)

\* A step of client c that touches only its call.
LEMMA CallStep ==
  ASSUME QInv, NEW c \in Clients, NEW x \in Call \cup {NoCall},
         calls' = [calls EXCEPT ![c] = x], CallOK(c)',
         UNCHANGED <<readVars, assigned, bindVars, quizSessions, progress>>
  PROVE  QInv'
  <1> USE DEF QInv
  <1>1. /\ calls' \in [Clients -> Call \cup {NoCall}]
        /\ \A d \in Clients : d # c => calls'[d] = calls[d]
    BY OneCall
  <1>2. SessionsRead' /\ ProgressEarned'
    BY DEF SessionsRead, ProgressEarned, Submitted, readVars
  <1>3. CallsOK'
    BY <1>1 DEF CallsOK, CallOK, Submitted, readVars
  <1>4. QED
    BY <1>1, <1>2, <1>3, QuizStep DEF readVars, TypeOK, ReadingTypeOK

\* What a call reads has been earned.
LEMMA GetProgressQInv ==
  ASSUME QInv, NEW c \in Clients, GetProgress(c)
  PROVE  QInv'
  <1> DEFINE old == progress[calls[c].key]
             x == IF calls[c].kind = "read" /\ old.read
                     THEN NoCall
                     ELSE [calls[c] EXCEPT !.stage = "upsert", !.old = old]
  <1>1. /\ calls[c].stage = "get" /\ calls' = [calls EXCEPT ![c] = x]
        /\ calls[c].kind = "read" \/ old.attempts < MaxAttempts
        /\ UNCHANGED <<readVars, assigned, bindVars, quizSessions, progress>>
    BY DEF GetProgress
  <1>2. /\ calls[c] \in Call /\ calls[c] # NoCall /\ calls[c].key \in Users \X Versions
        /\ CallOK(c)
    BY <1>1, CallKinds DEF QInv, CallsOK
  <1>3. old \in TrainingProgress
    BY <1>2 DEF QInv, TypeOK
  <1>4. old.passed => \E s \in DOMAIN quizSessions : Submitted(s, calls[c].key)
    BY <1>2 DEF QInv, ProgressEarned
  <1> HIDE DEF old
  <1>5. /\ x \in Call \cup {NoCall}
        /\ x # NoCall => /\ x.key = calls[c].key /\ x.kind = calls[c].kind /\ x.old = old
    BY <1>2, <1>3 DEF Call
  <1> HIDE DEF x
  <1>6. calls'[c] = x
    BY <1>1, <1>5, OneCall DEF QInv
  <1>7. CallOK(c)'
    BY <1>1, <1>2, <1>4, <1>5, <1>6 DEF CallOK, Submitted, readVars
  <1>8. QED
    BY <1>1, <1>5, <1>7, CallStep

LEMMA CallInterruptedQInv ==
  ASSUME QInv, NEW c \in Clients, CallInterrupted(c)
  PROVE  QInv'
  <1>1. /\ calls' = [calls EXCEPT ![c] = NoCall]
        /\ UNCHANGED <<readVars, assigned, bindVars, quizSessions, progress>>
    BY DEF CallInterrupted
  <1>2. calls'[c] = NoCall
    BY <1>1, OneCall DEF QInv
  <1>3. QED
    BY <1>1, <1>2, CallStep DEF CallOK

\* The row a call writes: a pass it has read is kept.
LEMMA WrittenRow ==
  ASSUME QInv, NEW c \in Clients, UpsertProgress(c)
  PROVE  \E row \in TrainingProgress :
            /\ progress' = [progress EXCEPT ![calls[c].key] = row]
            /\ calls[c].old.passed => row.passed
            /\ row.passed => calls[c].old.passed \/ calls[c].kind # "read"
  <1> DEFINE old == calls[c].old
             row == IF calls[c].kind = "read"
                       THEN AfterReading(old)
                       ELSE AfterAttempt(old, calls[c].kind = "passed")
  <1>1. calls[c].stage = "upsert" /\ progress' = [progress EXCEPT ![calls[c].key] = row]
    BY DEF UpsertProgress
  <1>2. /\ calls[c] \in Call /\ calls[c] # NoCall /\ old \in TrainingProgress
        /\ calls[c].kind # "read" => old.attempts < MaxAttempts
    BY <1>1, CallKinds DEF QInv, CallsOK, CallOK
  <1>3. CASE calls[c].kind = "read"
    <2>1. row = AfterReading(old)
      BY <1>3
    <2>2. AfterReading(old) \in TrainingProgress /\ AfterReading(old).passed = old.passed
      BY <1>2 DEF AfterReading, TrainingProgress
    <2> HIDE DEF row, old
    <2>3. QED
      BY <1>1, <2>1, <2>2 DEF old
  <1>4. CASE calls[c].kind # "read"
    <2> DEFINE passed == calls[c].kind = "passed"
    <2>1. row = AfterAttempt(old, passed) /\ passed \in BOOLEAN
      BY <1>4
    <2> HIDE DEF passed, row, old
    <2>2. row \in TrainingProgress /\ (old.passed => row.passed)
      BY <1>2, <1>4, <2>1, AfterAttemptRow
    <2>3. QED
      BY <1>1, <1>4, <2>2 DEF old
  <1>5. QED
    BY <1>3, <1>4

LEMMA UpsertQInv ==
  ASSUME QInv, NEW c \in Clients, UpsertProgress(c)
  PROVE  QInv'
  <1> USE DEF QInv
  <1>1. PICK row \in TrainingProgress :
            /\ progress' = [progress EXCEPT ![calls[c].key] = row]
            /\ row.passed => calls[c].old.passed \/ calls[c].kind # "read"
    <2> HIDE DEF QInv
    <2> QED
      BY WrittenRow
  <1>2. /\ calls[c].stage = "upsert" /\ calls' = [calls EXCEPT ![c] = NoCall]
        /\ UNCHANGED <<readVars, assigned, bindVars, quizSessions>>
    BY DEF UpsertProgress
  <1>3. /\ calls[c] # NoCall /\ calls[c].key \in Users \X Versions /\ CallOK(c)
    BY <1>2, CallKinds DEF CallsOK
  <1>4. /\ progress' \in [Users \X Versions -> TrainingProgress]
        /\ progress'[calls[c].key] = row
        /\ \A k \in Users \X Versions : k # calls[c].key => progress'[k] = progress[k]
    BY <1>1, <1>3 DEF TypeOK
  <1>5. /\ calls' \in [Clients -> Call \cup {NoCall}] /\ calls'[c] = NoCall
        /\ \A d \in Clients : d # c => calls'[d] = calls[d]
    BY <1>2, OneCall
  <1>6. SessionsRead'
    BY <1>2 DEF SessionsRead, readVars
  <1>7. ProgressEarned'
    <2> SUFFICES ASSUME NEW k \in Users \X Versions
                 PROVE  /\ progress'[k].read \/ progress'[k].passed => k \in receipts
                        /\ progress'[k].passed
                           => \E t \in DOMAIN quizSessions : Submitted(t, k)
      BY <1>2 DEF ProgressEarned, Submitted, readVars
    <2>1. CASE k = calls[c].key
      BY <1>1, <1>2, <1>3, <1>4, <2>1 DEF CallOK
    <2>2. CASE k # calls[c].key
      BY <1>4, <2>2 DEF ProgressEarned
    <2>3. QED
      BY <2>1, <2>2
  <1>8. CallsOK'
    BY <1>2, <1>5 DEF CallsOK, CallOK, Submitted, readVars
  <1>9. QED
    BY <1>2, <1>4, <1>5, <1>6, <1>7, <1>8, QuizStep DEF readVars, TypeOK, ReadingTypeOK

-----------------------------------------------------------------------------
LEMMA NextQInv == QInv /\ [Next]_vars => QInv'
  <1> SUFFICES ASSUME QInv, [Next]_vars PROVE QInv'
    OBVIOUS
  <1>1. CASE Reading
    BY <1>1, ReleaseQInv, ConfirmReadQInv, TrackedReadingQInv DEF Reading
  <1>2. CASE RebuildSnapshots
    BY <1>2, RebuildSnapshotsQInv
  <1>3. CASE Binding
    BY <1>3, BindQuizQInv, ReplaceQInv, ReplacementCreatesQInv, OtherBindingQInv DEF Binding
  <1>4. CASE Quizzing
    BY <1>4, StartQuizQInv, CooldownQInv, SubmitQInv DEF Quizzing
  <1>5. CASE Recording
    BY <1>5, GetProgressQInv, UpsertQInv, CallInterruptedQInv DEF Recording
  <1>6. CASE UNCHANGED vars
    <2>1. ReadingTypeOK' /\ receipts' = receipts /\ assigned' = assigned
      BY <1>6 DEF QInv, TypeOK, ReadingTypeOK, vars, readVars, releases
    <2>2. UNCHANGED <<bindVars, quizVars>>
      BY <1>6 DEF vars
    <2>3. QED
      BY <2>1, <2>2, ReadersStep DEF QInv, TypeOK
  <1>7. QED
    BY <1>1, <1>2, <1>3, <1>4, <1>5, <1>6 DEF Next

\* The inductive invariant holds in every reachable state: every session, every
\* recorded reading and every pass has its receipt, so has what a call is about
\* to record, active bindings are apart, and between the two transactions of a
\* replacement the version has none.
\* (start_quiz, submit_quiz_answers, replace_quiz_binding)
THEOREM QuizInvariance == Spec => []QInv
  BY InitQInv, NextQInv, PTL DEF Spec

\* Nobody is recorded as trained without having read exactly that version and
\* submitted a session of it.  (start_quiz, submit_quiz_answers,
\* _on_read_confirmed)
THEOREM PassesAreEarned == Spec => []PassEarned
  <1>1. QInv => PassEarned
    BY DEF QInv, ProgressEarned, PassEarned, Submitted
  <1>2. QED
    BY <1>1, QuizInvariance, PTL

\* At most one quiz is active for a version, wherever a replacement is cut
\* short and whatever is bound after it.  (bind_quiz_to_document,
\* replace_quiz_binding)
THEOREM AtMostOneBinding == Spec => []OneActiveBinding
  <1>1. QInv => OneActiveBinding
    <2> SUFFICES ASSUME QInv, NEW v \in Versions
                 PROVE  Cardinality(ActiveBindings(v)) <= 1
      BY DEF OneActiveBinding
    <2>1. CASE ActiveBindings(v) = {}
      BY <2>1, FS_EmptySet
    <2>2. CASE ActiveBindings(v) # {}
      <3>1. PICK i : i \in ActiveBindings(v)
        BY <2>2
      <3>2. ActiveBindings(v) = {i}
        BY <3>1 DEF QInv, BindingsApart, ActiveBindings
      <3>3. Cardinality(ActiveBindings(v)) = 1
        BY <3>2, FS_Singleton, Zenon
      <3>4. QED
        BY <3>3
    <2>3. QED
      BY <2>1, <2>2
  <1>2. QED
    BY <1>1, QuizInvariance, PTL

\* A pass is not lost by a later failure, by submitting a session again, nor by
\* the new reading a failure forces, with any number of clients: only a call that
\* had read the row before the pass was written and writes it afterwards takes
\* the pass away.  (submit_quiz_answers, _on_read_confirmed)
THEOREM PassesAreKept == Spec => PassIsKept
  <1> DEFINE A == \A k \in Users \X Versions :
                     progress[k].passed =>
                         \/ progress'[k].passed
                         \/ \E c \in Clients :
                               UpsertProgress(c) /\ calls[c].key = k /\ ~calls[c].old.passed
  <1>1. QInv /\ [Next]_vars => [A]_vars
    <2> SUFFICES ASSUME QInv, Next PROVE A
      OBVIOUS
    <2>1. CASE UNCHANGED progress
      BY <2>1
    <2>2. CASE Reading
      BY <2>1, <2>2 DEF Reading, ConfirmRead, TrackedReading, quizVars
    <2>3. CASE RebuildSnapshots
      BY <2>1, <2>3 DEF RebuildSnapshots, quizVars
    <2>4. CASE Binding
      BY <2>1, <2>4 DEF Binding, ImportQuizJson, BindQuizToDocument, ReplaceQuizBinding,
         ReplacementCreates, CreateReplacementHistory, ReplacementInterrupted, quizVars
    <2>5. CASE Quizzing
      <3>1. ASSUME NEW u \in Users, NEW v \in Versions, StartQuiz(u, v) PROVE A
        BY <2>1, <3>1 DEF StartQuiz
      <3>2. ASSUME NEW c \in Clients, NEW s \in DOMAIN quizSessions, NEW passed \in BOOLEAN,
                   SubmitQuizAnswers(c, s, passed)
            PROVE  A
        BY <2>1, <3>2 DEF SubmitQuizAnswers
      <3>3. QED
        BY <2>5, <3>1, <3>2, CooldownQInv DEF Quizzing
    <2>6. ASSUME NEW c \in Clients, UpsertProgress(c) PROVE A
      <3>1. PICK row \in TrainingProgress :
                /\ progress' = [progress EXCEPT ![calls[c].key] = row]
                /\ calls[c].old.passed => row.passed
        BY <2>6, WrittenRow
      <3>2. \A k \in Users \X Versions :
                progress'[k] = IF k = calls[c].key THEN row ELSE progress[k]
        BY <3>1 DEF QInv, TypeOK
      <3>3. QED
        BY <2>6, <3>1, <3>2
    <2>7. CASE Recording
      <3>1. ASSUME NEW c \in Clients, GetProgress(c) \/ CallInterrupted(c) PROVE A
        BY <2>1, <3>1 DEF GetProgress, CallInterrupted
      <3>2. QED
        BY <2>6, <2>7, <3>1 DEF Recording
    <2>8. QED
      BY <2>2, <2>3, <2>4, <2>5, <2>7 DEF Next
  <1>2. QED
    BY <1>1, QuizInvariance, PTL DEF Spec, PassIsKept

\* The rows of reading, binding, quiz and progress keep their types.
THEOREM QuizTypeCorrect == Spec => []TypeOK
  <1>1. QInv => TypeOK
    BY DEF QInv
  <1>2. QED
    BY <1>1, QuizInvariance, PTL

-----------------------------------------------------------------------------
(* Read receipts. *)

\* Session s is one of user and version k, and every page of it has been read.
ReadThrough(s, k) ==
    /\ readSessions[s].user = k[1]
    /\ readSessions[s].version = k[2]
    /\ IsComplete(s)

\* A receipt is of a version that has been released, or its user has read every
\* page of that version.
ReceiptEarned ==
    \A k \in receipts :
        \/ k[2] \in released
        \/ \E s \in DOMAIN readSessions : ReadThrough(s, k)

\* The approved version has been released.
ApprovedIsReleased == approved \in released \cup {0}

\* What has been read through stays so, and so does what has been released.
LEMMA EarnedStays ==
  ASSUME ReceiptEarned, released \subseteq released',
         \A s \in DOMAIN readSessions :
            /\ s \in DOMAIN readSessions'
            /\ \A k \in receipts : ReadThrough(s, k) => ReadThrough(s, k)',
         \A k \in receipts' \ receipts :
            \/ k[2] \in released'
            \/ \E s \in DOMAIN readSessions' : ReadThrough(s, k)'
  PROVE  ReceiptEarned'
  <1> SUFFICES ASSUME NEW k \in receipts'
               PROVE  k[2] \in released' \/ \E s \in DOMAIN readSessions' : ReadThrough(s, k)'
    BY DEF ReceiptEarned
  <1>1. CASE k \in receipts
    BY <1>1 DEF ReceiptEarned
  <1>2. CASE k \notin receipts
    BY <1>2
  <1>3. QED
    BY <1>1, <1>2

LEMMA StartEarned ==
  ASSUME QInv, ReceiptEarned, NEW u \in Users, NEW v \in Versions, StartTrackedPdfRead(u, v)
  PROVE  ReceiptEarned'
  <1> DEFINE row == [user |-> u, version |-> v, seconds |-> [p \in Pages |-> 0],
                     result |-> "OPEN"]
  <1>1. readSessions' = Append(readSessions, row) /\ UNCHANGED <<released, receipts>>
    BY DEF StartTrackedPdfRead, releases
  <1>2. readSessions \in Seq(TrackedPdfReadSession)
    BY DEF QInv, TypeOK, ReadingTypeOK
  <1> HIDE DEF row
  <1>3. \A s \in DOMAIN readSessions :
            s \in DOMAIN readSessions' /\ readSessions'[s] = readSessions[s]
    BY <1>1, <1>2
  <1>4. \A s \in DOMAIN readSessions :
            \A k \in receipts : ReadThrough(s, k) => ReadThrough(s, k)'
    BY <1>3 DEF ReadThrough, IsComplete
  <1>5. QED
    BY <1>1, <1>2, <1>3, <1>4, EarnedStays

\* Seconds are added up to the threshold, so a page that is read stays read.
LEMMA DwellEarned ==
  ASSUME QInv, ReceiptEarned, NEW r \in DOMAIN readSessions, NEW p \in Pages, NEW dwell \in Dwells,
         RecordPageDwell(r, p, dwell)
  PROVE  ReceiptEarned'
  <1> DEFINE sum == readSessions[r].seconds[p] + dwell
             capped == IF sum >= Threshold THEN Threshold ELSE sum
             pages == [readSessions[r].seconds EXCEPT ![p] = capped]
             row == [readSessions[r] EXCEPT !.seconds = pages]
  <1>1. readSessions \in Seq(TrackedPdfReadSession)
    BY DEF QInv, TypeOK, ReadingTypeOK
  <1>2. readSessions' = [readSessions EXCEPT ![r] = row] /\ UNCHANGED <<released, receipts>>
    BY Zenon DEF RecordPageDwell, releases
  <1>3. readSessions[r] \in TrackedPdfReadSession
    BY <1>1
  <1>4. readSessions[r].seconds \in [Pages -> 0 .. Threshold]
    BY <1>3 DEF TrackedPdfReadSession
  <1>5. Threshold \in Nat /\ dwell \in Nat
    BY ReadingConstants
  <1>6. readSessions[r].seconds[p] >= Threshold => capped >= Threshold
    BY <1>4, <1>5
  <1> HIDE DEF capped
  <1>7. \A q \in Pages : readSessions[r].seconds[q] >= Threshold => pages[q] >= Threshold
    BY <1>4, <1>6
  <1> HIDE DEF pages
  <1>8. row.user = readSessions[r].user /\ row.version = readSessions[r].version
        /\ row.seconds = pages
    BY <1>3 DEF TrackedPdfReadSession
  <1> HIDE DEF row
  <1>9. DOMAIN readSessions' = DOMAIN readSessions /\ readSessions'[r] = row
        /\ \A s \in DOMAIN readSessions : s # r => readSessions'[s] = readSessions[s]
    BY <1>1, <1>2
  <1>10. \A s \in DOMAIN readSessions :
            \A k \in receipts : ReadThrough(s, k) => ReadThrough(s, k)'
    <2> SUFFICES ASSUME NEW s \in DOMAIN readSessions, NEW k \in receipts, ReadThrough(s, k)
                 PROVE  ReadThrough(s, k)'
      OBVIOUS
    <2>1. CASE s = r
      BY <1>7, <1>8, <1>9, <2>1 DEF ReadThrough, IsComplete
    <2>2. CASE s # r
      BY <1>9, <2>2 DEF ReadThrough, IsComplete
    <2>3. QED
      BY <2>1, <2>2
  <1>11. QED
    BY <1>1, <1>2, <1>9, <1>10, EarnedStays

\* The receipt of finalize is that of a session whose pages are all read.
LEMMA FinalizeEarned ==
  ASSUME QInv, ReceiptEarned, NEW r \in DOMAIN readSessions, NEW crash \in BOOLEAN,
         Finalize(r, crash)
  PROVE  ReceiptEarned'
  <1> DEFINE result == IF IsComplete(r) THEN "COMPLETE" ELSE "INCOMPLETE"
             row == [readSessions[r] EXCEPT !.result = result]
             mine == <<readSessions[r].user, readSessions[r].version>>
  <1>1. readSessions \in Seq(TrackedPdfReadSession)
    BY DEF QInv, TypeOK, ReadingTypeOK
  <1>2. readSessions' = [readSessions EXCEPT ![r] = row] /\ released' = released
    BY Zenon DEF Finalize, releases
  <1>3. readSessions[r] \in TrackedPdfReadSession
    BY <1>1
  <1>4. /\ row.user = readSessions[r].user /\ row.version = readSessions[r].version
        /\ row.seconds = readSessions[r].seconds
    BY <1>3 DEF TrackedPdfReadSession
  <1> HIDE DEF row
  <1>5. DOMAIN readSessions' = DOMAIN readSessions /\ readSessions'[r] = row
        /\ \A s \in DOMAIN readSessions : s # r => readSessions'[s] = readSessions[s]
    BY <1>1, <1>2
  <1>6. ASSUME NEW s \in DOMAIN readSessions, NEW k, ReadThrough(s, k) PROVE ReadThrough(s, k)'
    <2>1. CASE s = r
      BY <1>4, <1>5, <1>6, <2>1 DEF ReadThrough, IsComplete
    <2>2. CASE s # r
      BY <1>5, <1>6, <2>2 DEF ReadThrough, IsComplete
    <2>3. QED
      BY <2>1, <2>2
  <1>7. receipts' = receipts \/ (IsComplete(r) /\ receipts' = receipts \cup {mine})
    BY DEF Finalize, CreateReadReceipt
  <1>8. ASSUME NEW k \in receipts' \ receipts
        PROVE  \E s \in DOMAIN readSessions' : ReadThrough(s, k)'
    <2>1. k = mine /\ IsComplete(r)
      BY <1>7, <1>8
    <2>2. ReadThrough(r, k)
      BY <2>1 DEF ReadThrough
    <2>3. QED
      BY <1>5, <1>6, <2>2
  <1>9. QED
    BY <1>1, <1>2, <1>5, <1>6, <1>8, EarnedStays

\* A receipt is written only for a version that was released or a version read
\* page by page, also when the call is cut short, repeated, or the version
\* archived or superseded while it is read.  (confirm_released_document_read,
\* finalize)
THEOREM ReceiptsAreEarned == Spec => []ReceiptEarned
  <1> DEFINE I == ReceiptEarned /\ ApprovedIsReleased
  <1>1. Init => I
    BY DEF Init, ReadingInit, ReceiptEarned, ApprovedIsReleased
  <1>2. QInv /\ I /\ [Next]_vars => I'
    <2> SUFFICES ASSUME QInv, ReceiptEarned, ApprovedIsReleased, [Next]_vars
                 PROVE  ReceiptEarned' /\ ApprovedIsReleased'
      OBVIOUS
    <2>1. CASE UNCHANGED <<approved, released, readSessions, receipts>>
      BY <2>1 DEF ReceiptEarned, ApprovedIsReleased, ReadThrough, IsComplete
    <2>2. CASE UNCHANGED readVars
      BY <2>1, <2>2 DEF readVars, releases
    <2>3. CASE ReleaseVersion \/ ArchiveApproved
      <3>1. /\ released \subseteq released' /\ ApprovedIsReleased'
            /\ UNCHANGED <<readSessions, receipts>>
        BY <2>3 DEF ReleaseVersion, ArchiveApproved, ApprovedIsReleased
      <3>2. \A s \in DOMAIN readSessions :
               \A k \in receipts : ReadThrough(s, k) => ReadThrough(s, k)'
        BY <3>1 DEF ReadThrough, IsComplete
      <3>3. QED
        BY <3>1, <3>2, EarnedStays
    <2>4. ASSUME NEW c \in Clients, NEW u \in Users, NEW v \in Versions, ConfirmRead(c, u, v)
          PROVE  ReceiptEarned' /\ ApprovedIsReleased'
      <3>1. /\ receipts' = receipts \cup {<<u, v>>} /\ approved = v
            /\ UNCHANGED <<approved, released, readSessions>>
        BY <2>4 DEF ConfirmRead, ConfirmReleasedDocumentRead, CreateReadReceipt, releases
      <3>2. v \in released
        BY <3>1 DEF ApprovedIsReleased, Versions
      <3>3. \A s \in DOMAIN readSessions :
               \A k \in receipts : ReadThrough(s, k) => ReadThrough(s, k)'
        BY <3>1 DEF ReadThrough, IsComplete
      <3>4. QED
        BY <3>1, <3>2, <3>3, EarnedStays DEF ApprovedIsReleased
    <2>5. CASE TrackedReading
      <3>1. UNCHANGED releases
        BY <2>5 DEF TrackedReading, StartTrackedPdfRead, RecordPageDwell, Finalize
      <3>2. ApprovedIsReleased'
        BY <3>1 DEF ApprovedIsReleased, releases
      <3>3. QED
        BY <2>5, <3>2, StartEarned, DwellEarned, FinalizeEarned DEF TrackedReading
    <2>6. CASE Reading
      BY <2>3, <2>4, <2>5, <2>6 DEF Reading
    <2>7. CASE RebuildSnapshots
      BY <2>1, <2>7 DEF RebuildSnapshots, View!DeleteAllSnapshots, View!WriteSnapshot
    <2>8. CASE Binding
      BY <2>2, <2>8 DEF Binding, ImportQuizJson, BindQuizToDocument, ReplaceQuizBinding,
         ReplacementCreates, CreateReplacementHistory, ReplacementInterrupted
    <2>9. CASE Quizzing
      <3>1. ASSUME NEW u \in Users, NEW v \in Versions, StartQuiz(u, v) \/ CooldownElapses(u, v)
            PROVE  UNCHANGED readVars
        BY <3>1 DEF StartQuiz, CooldownElapses
      <3>2. ASSUME NEW c \in Clients, NEW s \in DOMAIN quizSessions, NEW passed \in BOOLEAN,
                   SubmitQuizAnswers(c, s, passed)
            PROVE  UNCHANGED readVars
        BY <3>2 DEF SubmitQuizAnswers
      <3>3. QED
        BY <2>2, <2>9, <3>1, <3>2 DEF Quizzing
    <2>10. CASE Recording
      BY <2>2, <2>10 DEF Recording, GetProgress, UpsertProgress, CallInterrupted
    <2>11. CASE UNCHANGED vars
      BY <2>2, <2>11 DEF vars
    <2>12. QED
      BY <2>6, <2>7, <2>8, <2>9, <2>10, <2>11 DEF Next
  <1>3. I => ReceiptEarned
    OBVIOUS
  <1>4. QED
    BY <1>1, <1>2, <1>3, QuizInvariance, PTL DEF Spec

=============================================================================
