SPECIFICATION ExistenceSpec
INVARIANT AnswersHaveHeld
