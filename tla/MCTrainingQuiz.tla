--------------------------- MODULE MCTrainingQuiz ---------------------------
(***************************************************************************)
(* Instance of TrainingQuiz for TLC: the second quiz file lacks a question *)
(* of the first, so a session with that question cannot be graded against  *)
(* it.  The clients are alike.                                             *)
(***************************************************************************)
EXTENDS TrainingQuiz, TLC

MCQuestionIds == [q \in Quizzes |-> IF q = "q1" THEN {"a", "b"} ELSE {"b"}]

MCQuizVersion == [q \in Quizzes |-> 1]

MCSymmetry == Permutations(Clients)
=============================================================================
