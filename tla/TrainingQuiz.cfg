SPECIFICATION Spec
CONSTANTS
    Users = {"u"}
    MaxVersion = 1
    Pages = {1}
    Threshold = 1
    Dwells = {1}
    MaxReads = 1
    Clients = {c1, c2}
    c1 = c1
    c2 = c2
    Quizzes = {"q1", "q2"}
    QuestionIds <- MCQuestionIds
    QuizVersion <- MCQuizVersion
    QuestionsPerQuiz = 1
    Cooldown = TRUE
    ForceReread = TRUE
    MaxBindings = 2
    MaxQuizzes = 1
    MaxAttempts = 2
SYMMETRY MCSymmetry
INVARIANTS PassEarned OneActiveBinding
PROPERTIES PassIsKept
CHECK_DEADLOCK FALSE
