SPECIFICATION FairSpec
CONSTANT MaxRetries = 3
INVARIANTS TypeOK ShownIsAnswered AnswerIsCurrent
PROPERTY EndsUnlessStreamHangs
