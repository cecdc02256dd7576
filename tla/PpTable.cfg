CONSTANT Calls <- MCCalls
SPECIFICATION Spec
INVARIANTS TableCorrect RefusalJust
PROPERTY Progress
