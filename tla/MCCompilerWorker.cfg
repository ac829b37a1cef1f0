SPECIFICATION Spec
CONSTANTS
    Sources = {"model", "invalid"}
    Rejected = {"invalid"}
    MaxMessages = 5
INVARIANT AnswersAreSequential
PROPERTY MessagesAnswered
CHECK_DEADLOCK FALSE
