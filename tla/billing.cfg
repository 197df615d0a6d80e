SPECIFICATION ProcessSpec
CONSTANTS
    Customers = {"ada", "grace"}
    Active = {"ada", "grace"}
    Intents = {1, 2, 3, 4, 5, 6, 7}
    MaxRefund = 2
    MaxTries <- MCTries
    Opening <- MCOpening
    Terms <- MCTerms
INVARIANTS TypeOK Balanced OncePerKey IInv AnswersTrue VerdictStable GuardIInv PureWire HangUpSeen AnswersSeen
CHECK_DEADLOCK FALSE
